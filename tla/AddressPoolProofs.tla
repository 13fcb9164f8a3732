------------------------- MODULE AddressPoolProofs -------------------------
(***************************************************************************)
(* The receive addresses for any number of addresses, invoices, transfers, *)
(* derivers and blocks.                                                    *)
(*                                                                         *)
(* A row may be acted on long after it was read, so the proof is about     *)
(* what stays true of a row meanwhile.  A release is asked for only when   *)
(* the tenant is closed for good, and takes effect only when the cooldown  *)
(* after his window is over; by then the watcher has been past every block *)
(* of that window.                                                         *)
(***************************************************************************)
EXTENDS AddressPool, FiniteSetTheorems, TLAPS

\* What every process may rely on, however many settlers there are: the row of an
\* address that an order has taken does not move until the order ends.
OrderIntact(d) ==
    /\ order[d].phase \in {"idle", "counting"} => ~order[d].fresh
    /\ order[d].from <= order[d].since /\ order[d].since <= now
    /\ order[d].phase = "bound" /\ ~order[d].fresh => pool[order[d].address] = FreeRow
    /\ order[d].phase = "bound" /\ order[d].fresh =>
          order[d].address = nextIndex /\ nextIndex < MaxAddresses

OrdersApart ==
    \A d, e \in Derivers :
        order[d].phase = "bound" /\ order[e].phase = "bound"
            /\ order[d].address = order[e].address => d = e

OpenAsks == asks \cup UNION {pass[s] : s \in Settlers}

RowsInv ==
    /\ PoolTypeOK
    /\ \A a \in Addresses : /\ pool[a].status = "underived" => pool[a] = NoRow
                            /\ pool[a].status = "reserved" => pool[a].tenant \in Invoices
    /\ \A d \in Derivers : OrderIntact(d)
    /\ OrdersApart
    /\ \A ask \in OpenAsks : pool[ask.address].status # "underived"
    /\ watch.phase # "idle" => indexed <= watch.target

-----------------------------------------------------------------------------
\* The shipped deployment: an ask selected by one settler is never acted on after
\* another one's was served.
OneSettler == \A s, t \in Settlers : s = t

HasAddress(i) ==
    /\ pool[invoice[i].address].tenant = i
    /\ pool[invoice[i].address].status \in {"reserved", "funded"}

\* A cooldown that is over was set for a tenant who is closed, and ends when his
\* window has long been over.
ClosedUntil(a, time) ==
    /\ invoice[pool[a].tenant].status = "closed"
    /\ time >= TopupUntil(pool[a].tenant) + Cooldown

RowIntact(a) ==
    /\ pool[a].tenant # NoInvoice => /\ invoice[pool[a].tenant].status # "none"
                                     /\ invoice[pool[a].tenant].address = a
                                     /\ pool[a].from <= invoice[pool[a].tenant].since
    /\ pool[a].status = "reserved" /\ pool[a].cooldown # NoTime => ClosedUntil(a, pool[a].cooldown)

InvoiceIntact(i) ==
    /\ invoice[i].status # "none" => invoice[i].address \in Addresses /\ invoice[i].since <= now
    /\ invoice[i].status # "none"
         /\ (invoice[i].status # "closed" \/ now < TopupUntil(i) + Cooldown) => HasAddress(i)
    /\ invoice[i].status \in {"review", "settled"} =>
          \E t \in Transfers : transfer[t].invoice = i

TransferIntact(t) ==
    /\ transfer[t].state \in {"unsent", "mined", "missed"} => transfer[t].invoice = NoInvoice
    /\ transfer[t].invoice # NoInvoice =>
          /\ invoice[transfer[t].invoice].status # "none"
          /\ invoice[transfer[t].invoice].address = transfer[t].address
    /\ transfer[t].state # "unsent" =>
          /\ transfer[t].payee # NoInvoice /\ invoice[transfer[t].payee].status # "none"
          /\ transfer[t].address = invoice[transfer[t].payee].address
          /\ invoice[transfer[t].payee].since < transfer[t].block /\ transfer[t].block <= now
    /\ transfer[t].state = "mined" => indexed < transfer[t].block

\* An open release is for a row that still is as it was when the release was
\* selected, unless the row has been latched.
ReleaseIntact(ask) ==
    /\ pool[ask.address].status \in {"reserved", "funded"}
    /\ pool[ask.address].status = "reserved" =>
          pool[ask.address].cooldown = NoTime /\ ClosedUntil(ask.address, ask.until)

Releases(S) == {ask \in S : ask.action = "release"}
OneRelease(S) == \A x, y \in Releases(S) : x.address = y.address => x = y

ReleasesInv ==
    /\ \A ask \in Releases(OpenAsks) : ReleaseIntact(ask)
    /\ OneRelease(asks) /\ \A s \in Settlers : OneRelease(pass[s])
    /\ \A s \in Settlers : \A x \in Releases(asks), y \in Releases(pass[s]) : x.address # y.address

\* The filter was loaded after the head was read, when the address of everybody
\* who had paid in time was still his.
FilterIntact ==
    watch.phase = "filter" =>
        \A t \in Transfers :
            transfer[t].state = "mined" /\ transfer[t].block <= watch.target
                /\ transfer[t].block <= TopupUntil(transfer[t].payee)
            => transfer[t].address \in watch.filter

TenancyInv ==
    /\ RowsInv
    /\ \A a \in Addresses : RowIntact(a)
    /\ \A i \in Invoices : InvoiceIntact(i)
    /\ \A t \in Transfers : TransferIntact(t)
    /\ ReleasesInv
    /\ now - indexed <= MaxLag
    /\ FilterIntact
    /\ InTimeIsCredited

-----------------------------------------------------------------------------
LEMMA FirstAddress == 0 \in Addresses /\ NoOrder \in Orders /\ MaxAddresses \in Nat \ {0}
BY PoolAssumption DEF Addresses, NoOrder, Orders

LEMMA EmptyRows == NoRow \in PoolRows /\ FreeRow \in PoolRows /\ FreeRow.status = "free"
BY DEF NoRow, FreeRow, PoolRows, AddressStatuses

LEMMA RowsByStatus ==
    ASSUME PoolTypeOK, NEW a \in Addresses
    PROVE  /\ pool[a].status = "underived" <=> a >= nextIndex
           /\ pool[a].status = "free" => pool[a] = FreeRow
           /\ pool[a] \in PoolRows
BY DEF PoolTypeOK

LEMMA RowsAtStart == PoolInit => RowsInv
<1> SUFFICES ASSUME PoolInit PROVE RowsInv
  OBVIOUS
<1> USE PoolAssumption, FirstAddress DEF PoolInit
<1>1. PoolTypeOK
  <2>1. pool \in [Addresses -> PoolRows] /\ \A a \in Addresses : pool[a].status = "underived"
    BY EmptyRows DEF NoRow
  <2>2. \A a \in Addresses : a >= nextIndex
    BY DEF Addresses
  <2>3. invoice \in [Invoices -> InvoiceRows]
    BY DEF NotIssued, InvoiceRows, InvoiceStatuses
  <2>4. transfer \in [Transfers -> TransferRows]
    BY DEF Unsent, TransferRows, TransferStates
  <2> QED
    BY <2>1, <2>2, <2>3, <2>4 DEF PoolTypeOK
<1>2. \A d \in Derivers : OrderIntact(d) /\ order[d].phase = "idle"
  BY DEF OrderIntact, NoOrder
<1>3. OrdersApart
  BY <1>2 DEF OrdersApart
<1>4. \A a \in Addresses : pool[a] = NoRow /\ pool[a].status = "underived"
  BY DEF NoRow
<1>5. OpenAsks = {} /\ watch.phase = "idle"
  BY DEF OpenAsks
<1> QED
  BY <1>1, <1>2, <1>3, <1>4, <1>5 DEF RowsInv

-----------------------------------------------------------------------------
\* What an order may come to be: nobody else has its address.
Fits(d, o) ==
    /\ o.phase \in {"idle", "counting"} => ~o.fresh
    /\ o.from <= o.since /\ o.since <= now
    /\ o.phase = "bound" /\ ~o.fresh => pool[o.address] = FreeRow
    /\ o.phase = "bound" /\ o.fresh => o.address = nextIndex /\ nextIndex < MaxAddresses
    /\ o.phase = "bound" =>
          \A e \in Derivers : e # d /\ order[e].phase = "bound" => order[e].address # o.address

LEMMA ReserveFits ==
    ASSUME RowsInv, NEW d \in Derivers, Reserve(d)
    PROVE  \E o \in Orders : order' = [order EXCEPT ![d] = o] /\ Fits(d, o)
<1>1. /\ PoolTypeOK /\ now \in Nat /\ indexed \in Nat /\ indexed <= now
  BY PoolAssumption DEF RowsInv, PoolTypeOK
<1>2. CASE \E a \in Addresses :
             /\ Lowest(a, Takeable)
             /\ order' = [order EXCEPT ![d] =
                    [NoOrder EXCEPT !.phase = "bound", !.address = a,
                                    !.from = indexed, !.since = now]]
  <2>1. PICK a \in Addresses :
             /\ a \in Takeable
             /\ order' = [order EXCEPT ![d] =
                    [NoOrder EXCEPT !.phase = "bound", !.address = a,
                                    !.from = indexed, !.since = now]]
    BY <1>2 DEF Lowest
  <2> DEFINE o == [NoOrder EXCEPT !.phase = "bound", !.address = a,
                                  !.from = indexed, !.since = now]
  <2>2. order' = [order EXCEPT ![d] = o]
    BY <2>1
  <2>3. /\ o \in Orders /\ o.phase = "bound" /\ ~o.fresh /\ o.address = a
        /\ o.from = indexed /\ o.since = now
    BY <1>1 DEF NoOrder, Orders
  <2> HIDE DEF o
  <2>4. pool[a] = FreeRow /\ ~Taken(a)
    <3>1. pool[a].status = "free" /\ ~Taken(a)
      BY <2>1 DEF Takeable, Rows
    <3> QED
      BY <1>1, <3>1, RowsByStatus
  <2>5. Fits(d, o)
    BY <1>1, <2>3, <2>4 DEF Fits, Taken
  <2> QED
    BY <2>2, <2>3, <2>5
<1>3. CASE order' = [order EXCEPT ![d] =
                [NoOrder EXCEPT !.phase = "counting", !.count = Cardinality(Rows({"reserved"})),
                                !.from = indexed, !.since = now]]
  <2> DEFINE n == Cardinality(Rows({"reserved"}))
             o == [NoOrder EXCEPT !.phase = "counting", !.count = n,
                                  !.from = indexed, !.since = now]
  <2>1. n \in Nat
    <3>1. IsFiniteSet(Addresses)
      BY FirstAddress, FS_Interval DEF Addresses
    <3>2. IsFiniteSet(Rows({"reserved"}))
      BY <3>1, FS_Subset DEF Rows
    <3> QED
      BY <3>2, FS_CardinalityType
  <2>2. order' = [order EXCEPT ![d] = o]
    BY <1>3
  <2> HIDE DEF n
  <2>3. /\ o \in Orders /\ o.phase = "counting" /\ ~o.fresh
        /\ o.from = indexed /\ o.since = now
    BY <1>1, <2>1, FirstAddress DEF NoOrder, Orders
  <2> HIDE DEF o
  <2>4. Fits(d, o)
    BY <1>1, <2>3 DEF Fits
  <2> QED
    BY <2>2, <2>3, <2>4
<1> QED
  BY <1>2, <1>3 DEF Reserve

LEMMA DeriveFits ==
    ASSUME RowsInv, NEW d \in Derivers, Derive(d)
    PROVE  \E o \in Orders : order' = [order EXCEPT ![d] = o] /\ Fits(d, o)
<1> DEFINE o == [order[d] EXCEPT !.phase = "bound", !.fresh = TRUE, !.address = nextIndex]
<1>1. /\ PoolTypeOK /\ order[d] \in Orders /\ nextIndex \in Nat /\ nextIndex < MaxAddresses
      /\ ~AccountLocked /\ \A e \in Derivers : OrderIntact(e)
  BY PoolAssumption DEF RowsInv, PoolTypeOK, Derive
<1>2. nextIndex \in Addresses
  BY <1>1, FirstAddress DEF Addresses
<1>3. /\ o \in Orders /\ o.phase = "bound" /\ o.fresh /\ o.address = nextIndex
      /\ o.from = order[d].from /\ o.since = order[d].since
  BY <1>1, <1>2 DEF Orders
<1>4. order' = [order EXCEPT ![d] = o]
  BY <1>1 DEF Derive, PoolTypeOK
<1>5. ASSUME NEW e \in Derivers, order[e].phase = "bound" PROVE order[e].address # nextIndex
  <2>1. ~order[e].fresh
    BY <1>1, <1>5 DEF AccountLocked
  <2>2. pool[order[e].address] = FreeRow /\ order[e].address \in Addresses
    BY <1>1, <1>5, <2>1 DEF OrderIntact, PoolTypeOK, Orders
  <2>3. pool[order[e].address].status # "underived"
    BY <2>2, EmptyRows
  <2>4. pool[nextIndex].status = "underived"
    BY <1>1, <1>2, RowsByStatus
  <2> QED
    BY <2>3, <2>4
<1>6. order[d].from <= order[d].since /\ order[d].since <= now
  BY <1>1 DEF OrderIntact
<1> HIDE DEF o
<1>7. Fits(d, o)
  BY <1>1, <1>3, <1>5, <1>6 DEF Fits
<1> QED
  BY <1>3, <1>4, <1>7

\* What an order takes nobody else has.
LEMMA OrdersKeepRows ==
    ASSUME RowsInv, NEW d \in Derivers, Reserve(d) \/ Derive(d) \/ Rollback(d)
    PROVE  RowsInv'
<1>1. /\ UNCHANGED <<pool, nextIndex, invoice, asks, pass, failures, transfer, indexed, watch, now>>
      /\ PoolTypeOK /\ OrdersApart /\ \A e \in Derivers : OrderIntact(e)
      /\ order \in [Derivers -> Orders] /\ now \in Nat
  <2>1. UNCHANGED <<pool, nextIndex, invoice, askVars, chainVars>>
    BY DEF Reserve, Derive, Rollback
  <2> QED
    BY <2>1, PoolAssumption DEF RowsInv, PoolTypeOK, askVars, chainVars
<1>2. NoOrder \in Orders /\ Fits(d, NoOrder)
  BY <1>1, FirstAddress DEF NoOrder, Fits
<1>3. PICK o \in Orders : order' = [order EXCEPT ![d] = o] /\ Fits(d, o)
  BY <1>2, ReserveFits, DeriveFits DEF Rollback
<1>4. /\ order' \in [Derivers -> Orders] /\ order'[d] = o
      /\ \A e \in Derivers : e # d => order'[e] = order[e]
  BY <1>1, <1>3
<1>5. PoolTypeOK'
  BY <1>1, <1>4 DEF PoolTypeOK
<1>6. \A e \in Derivers : OrderIntact(e)'
  BY <1>1, <1>3, <1>4 DEF OrderIntact, Fits
<1>7. OrdersApart'
  BY <1>3, <1>4, <1>1 DEF OrdersApart, Fits
<1> QED
  BY <1>1, <1>5, <1>6, <1>7 DEF RowsInv, OpenAsks

LEMMA CommitKeepsRows ==
    ASSUME RowsInv, NEW d \in Derivers, Commit(d)
    PROVE  RowsInv'
<1> DEFINE a == order[d].address
<1>1. PICK i \in Invoices :
         /\ pool' = [pool EXCEPT ![a] = ReservedRow(d, i)]
         /\ invoice' = [invoice EXCEPT ![i] =
                [status |-> "live", address |-> a, since |-> order[d].since]]
  BY DEF Commit
<1>2. /\ PoolTypeOK /\ OrdersApart /\ \A e \in Derivers : OrderIntact(e)
      /\ order \in [Derivers -> Orders] /\ order[d] \in Orders /\ order[d].phase = "bound"
      /\ a \in Addresses
      /\ now \in Nat /\ nextIndex \in 0..MaxAddresses
  BY PoolAssumption DEF RowsInv, PoolTypeOK, Commit, Orders
<1>3. /\ UNCHANGED <<asks, pass, failures, transfer, indexed, watch, now>>
      /\ nextIndex' = IndexAfter(d) /\ order' = [order EXCEPT ![d] = NoOrder]
  BY DEF Commit, askVars, chainVars
<1>4. /\ pool'[a] \in PoolRows /\ pool'[a].status = "reserved" /\ pool'[a].tenant = i
      /\ \A b \in Addresses : b # a => pool'[b] = pool[b]
      /\ pool' \in [Addresses -> PoolRows]
  <2>1. ReservedRow(d, i) \in PoolRows /\ ReservedRow(d, i).status = "reserved"
       /\ ReservedRow(d, i).tenant = i
    BY <1>2 DEF ReservedRow, PoolRows, AddressStatuses, Orders
  <2> QED
    BY <1>1, <1>2, <2>1 DEF PoolTypeOK
<1>5. invoice' \in [Invoices -> InvoiceRows]
  <2>1. [status |-> "live", address |-> a, since |-> order[d].since] \in InvoiceRows
    BY <1>2 DEF InvoiceRows, InvoiceStatuses, Orders
  <2> QED
    BY <1>1, <1>2, <2>1 DEF PoolTypeOK
<1>6. /\ order' \in [Derivers -> Orders] /\ order'[d] = NoOrder
      /\ \A e \in Derivers : e # d => order'[e] = order[e]
  BY <1>2, <1>3, FirstAddress
<1>7. /\ nextIndex' \in 0..MaxAddresses
      /\ order[d].fresh => a = nextIndex /\ nextIndex' = nextIndex + 1
      /\ ~order[d].fresh => nextIndex' = nextIndex /\ pool[a] = FreeRow
  BY <1>2, <1>3, PoolAssumption DEF IndexAfter, OrderIntact
<1>8. \A b \in Addresses : pool'[b].status = "underived" <=> b >= nextIndex'
  <2> SUFFICES ASSUME NEW b \in Addresses
               PROVE  pool'[b].status = "underived" <=> b >= nextIndex'
    OBVIOUS
  <2>1. b \in Nat /\ nextIndex \in Nat /\ (pool[b].status = "underived" <=> b >= nextIndex)
    BY <1>2, RowsByStatus, PoolAssumption DEF Addresses
  <2>2. CASE b = a /\ order[d].fresh
    BY <1>4, <1>7, <2>1, <2>2
  <2>3. CASE b = a /\ ~order[d].fresh
    BY <1>4, <1>7, <2>1, <2>3, EmptyRows
  <2>4. CASE b # a /\ order[d].fresh
    BY <1>4, <1>7, <2>1, <2>4
  <2>5. CASE b # a /\ ~order[d].fresh
    BY <1>4, <1>7, <2>1, <2>5
  <2> QED
    BY <2>2, <2>3, <2>4, <2>5
<1>9. \A b \in Addresses : pool'[b].status = "free" => pool'[b] = FreeRow
  BY <1>2, <1>4, RowsByStatus
<1>10. PoolTypeOK'
  BY <1>2, <1>3, <1>4, <1>5, <1>6, <1>7, <1>8, <1>9 DEF PoolTypeOK
<1>11. ASSUME NEW e \in Derivers PROVE OrderIntact(e)'
  <2>1. CASE e = d
    BY <1>2, <1>3, <1>6, <2>1 DEF OrderIntact, NoOrder
  <2>2. CASE e # d
    <3>1. order'[e] = order[e] /\ order[e] \in Orders
      BY <1>2, <1>6, <2>2
    <3>2. order[e].phase = "bound" => order[e].address # a
      BY <1>2, <2>2 DEF OrdersApart
    <3>3. order[e].phase = "bound" => pool'[order[e].address] = pool[order[e].address]
      BY <1>4, <3>1, <3>2 DEF Orders
    <3>4. order[e].phase = "bound" /\ order[e].fresh => nextIndex' = nextIndex
      BY <1>2, <1>7, <3>2 DEF OrderIntact
    <3> QED
      BY <1>2, <1>3, <3>1, <3>3, <3>4 DEF OrderIntact
  <2> QED
    BY <2>1, <2>2
<1>12. OrdersApart'
  BY <1>2, <1>6 DEF OrdersApart, NoOrder
<1>13. \A b \in Addresses : /\ pool'[b].status = "underived" => pool'[b] = NoRow
                            /\ pool'[b].status = "reserved" => pool'[b].tenant \in Invoices
  BY <1>4 DEF RowsInv
<1>14. \A ask \in OpenAsks' : pool'[ask.address].status # "underived"
  <2> SUFFICES ASSUME NEW ask \in OpenAsks PROVE pool'[ask.address].status # "underived"
    BY <1>3 DEF OpenAsks
  <2>1. pool[ask.address].status # "underived"
    BY DEF RowsInv
  <2>2. ask.address \in Addresses
    BY <1>2 DEF OpenAsks, PoolTypeOK, Asks
  <2> QED
    BY <1>4, <2>1, <2>2
<1> QED
  BY <1>3, <1>10, <1>11, <1>12, <1>13, <1>14 DEF RowsInv

-----------------------------------------------------------------------------
\* The settler asks only for rows that exist, and rows never cease to.
LEMMA SettlerKeepsRows ==
    ASSUME RowsInv, NEW s \in Settlers, SettlerReads(s) \/ SettlerAsks(s)
    PROVE  RowsInv'
<1>1. UNCHANGED <<pool, nextIndex, invoice, order, failures, transfer, indexed, watch, now>>
  BY DEF SettlerReads, SettlerAsks, poolVars, chainVars
<1>2. PoolTypeOK
  BY DEF RowsInv
<1>3. ASSUME NEW ask \in LatchCandidates \union ReleaseCandidates
      PROVE  ask \in Asks /\ pool[ask.address].status # "underived"
  <2>1. CASE ask \in LatchCandidates
    BY <2>1 DEF LatchCandidates, Rows, Asks
  <2>2. CASE ask \in ReleaseCandidates
    <3>1. PICK a \in Addresses : /\ Releasable(a)
                                 /\ ask = [address |-> a, action |-> "release",
                                           until |-> CooldownUntil(pool[a].tenant)]
      BY <2>2 DEF ReleaseCandidates
    <3>2. pool[a].status = "reserved" /\ pool[a].tenant \in Invoices
      BY <3>1 DEF Releasable, RowsInv
    <3>3. CooldownUntil(pool[a].tenant) \in Nat
      BY <1>2, <3>2, PoolAssumption
      DEF CooldownUntil, TopupUntil, PoolTypeOK, InvoiceRows
    <3> QED
      BY <3>1, <3>2, <3>3 DEF Asks
  <2> QED
    BY <1>3, <2>1, <2>2
<1>4. OpenAsks' \subseteq OpenAsks \union LatchCandidates \union ReleaseCandidates
  <2>1. CASE SettlerReads(s)
    BY <1>2, <2>1 DEF SettlerReads, OpenAsks, PoolTypeOK
  <2>2. CASE SettlerAsks(s)
    BY <1>2, <2>2 DEF SettlerAsks, OpenAsks, PoolTypeOK
  <2> QED
    BY <2>1, <2>2
<1>5. asks' \subseteq Asks /\ pass' \in [Settlers -> SUBSET Asks]
  <2>1. CASE SettlerReads(s)
    BY <1>2, <1>3, <2>1 DEF SettlerReads, PoolTypeOK
  <2>2. CASE SettlerAsks(s)
    BY <1>2, <2>2 DEF SettlerAsks, PoolTypeOK
  <2> QED
    BY <2>1, <2>2
<1>6. PoolTypeOK'
  BY <1>1, <1>2, <1>5 DEF PoolTypeOK
<1>7. \A d \in Derivers : OrderIntact(d)'
  BY <1>1 DEF RowsInv, OrderIntact
<1>8. OrdersApart'
  BY <1>1 DEF RowsInv, OrdersApart
<1> QED
  BY <1>1, <1>3, <1>4, <1>6, <1>7, <1>8 DEF RowsInv

\* A request leaves a row that exists as one that exists, and no other row moves.
LEMMA ServeAskKeepsRows ==
    ASSUME RowsInv, NEW d \in Derivers, NEW ask \in asks, ServeAsk(d, ask)
    PROVE  RowsInv'
<1> DEFINE a == ask.address
<1>1. /\ UNCHANGED <<nextIndex, invoice, order, pass, failures, transfer, indexed, watch, now>>
      /\ pool' = [pool EXCEPT ![a] = Applied(ask)] /\ asks' = asks \ {ask} /\ ~Taken(a)
  BY DEF ServeAsk, chainVars
<1>2. /\ PoolTypeOK /\ ask \in Asks /\ a \in Addresses /\ ask \in OpenAsks
      /\ OpenAsks' \subseteq OpenAsks
  BY <1>1 DEF RowsInv, PoolTypeOK, Asks, OpenAsks
<1>3. pool[a] \in PoolRows /\ pool[a].status # "underived"
  BY <1>2, RowsByStatus DEF RowsInv
<1>4. /\ Applied(ask) \in PoolRows /\ Applied(ask).status # "underived"
      /\ Applied(ask).status = "free" => Applied(ask) = pool[a]
      /\ Applied(ask).status = "reserved" =>
            pool[a].status = "reserved" /\ Applied(ask).tenant = pool[a].tenant
  BY <1>2, <1>3 DEF Applied, PoolRows, AddressStatuses, Asks
<1>5. /\ pool' \in [Addresses -> PoolRows] /\ pool'[a] = Applied(ask)
      /\ \A b \in Addresses : b # a => pool'[b] = pool[b]
  BY <1>1, <1>2, <1>4 DEF PoolTypeOK
<1>6. \A b \in Addresses : /\ pool'[b].status = "underived" <=> b >= nextIndex
                           /\ pool'[b].status = "free" => pool'[b] = FreeRow
  BY <1>2, <1>3, <1>4, <1>5, RowsByStatus
<1>7. PoolTypeOK'
  BY <1>1, <1>2, <1>5, <1>6 DEF PoolTypeOK
<1>8. ASSUME NEW e \in Derivers PROVE OrderIntact(e)'
  <2>1. order[e].phase = "bound" => order[e].address # a
    BY <1>1 DEF Taken
  <2>2. order[e].address \in Addresses /\ OrderIntact(e)
    BY <1>2 DEF PoolTypeOK, Orders, RowsInv
  <2> QED
    BY <1>1, <1>5, <2>1, <2>2 DEF OrderIntact
<1>9. OrdersApart'
  BY <1>1 DEF RowsInv, OrdersApart
<1>10. \A b \in Addresses : /\ pool'[b].status = "underived" => pool'[b] = NoRow
                            /\ pool'[b].status = "reserved" => pool'[b].tenant \in Invoices
  BY <1>4, <1>5 DEF RowsInv
<1>11. \A x \in OpenAsks' : pool'[x.address].status # "underived"
  <2> SUFFICES ASSUME NEW x \in OpenAsks PROVE pool'[x.address].status # "underived"
    BY <1>2
  <2>1. pool[x.address].status # "underived" /\ x.address \in Addresses
    BY <1>2 DEF RowsInv, OpenAsks, PoolTypeOK, Asks
  <2> QED
    BY <1>4, <1>5, <2>1
<1> QED
  BY <1>1, <1>7, <1>8, <1>9, <1>10, <1>11 DEF RowsInv

\* SQL_RELEASE_DUE frees reserved rows only, and no order has taken one of these.
LEMMA ReleaseDueKeepsRows ==
    ASSUME RowsInv, NEW d \in Derivers, ReleaseDue(d)
    PROVE  RowsInv'
<1>1. /\ UNCHANGED <<nextIndex, invoice, order, asks, pass, failures, transfer, indexed, watch, now>>
      /\ pool' = [a \in Addresses |-> IF Due(a) THEN FreeRow ELSE pool[a]]
  BY DEF ReleaseDue, askVars, chainVars
<1>2. PoolTypeOK /\ \A a \in Addresses : Due(a) => pool[a].status = "reserved"
  BY DEF RowsInv, Due
<1>3. \A a \in Addresses : /\ pool'[a] \in PoolRows
                           /\ \/ pool'[a] = pool[a]
                              \/ pool[a].status = "reserved" /\ pool'[a] = FreeRow
  BY <1>1, <1>2, EmptyRows, RowsByStatus
<1>4. \A a \in Addresses : /\ pool'[a].status = "underived" <=> a >= nextIndex
                           /\ pool'[a].status = "free" => pool'[a] = FreeRow
  BY <1>2, <1>3, EmptyRows, RowsByStatus
<1>5. PoolTypeOK'
  BY <1>1, <1>2, <1>3, <1>4 DEF PoolTypeOK
<1>6. ASSUME NEW e \in Derivers PROVE OrderIntact(e)'
  <2>1. order[e].address \in Addresses /\ OrderIntact(e)
    BY <1>2 DEF PoolTypeOK, Orders, RowsInv
  <2>2. order[e].phase = "bound" /\ ~order[e].fresh => pool'[order[e].address] = FreeRow
    BY <1>3, <2>1, EmptyRows DEF OrderIntact
  <2> QED
    BY <1>1, <2>1, <2>2 DEF OrderIntact
<1>7. OrdersApart'
  BY <1>1 DEF RowsInv, OrdersApart
<1>8. \A a \in Addresses : /\ pool'[a].status = "underived" => pool'[a] = NoRow
                           /\ pool'[a].status = "reserved" => pool'[a].tenant \in Invoices
  BY <1>3, EmptyRows DEF RowsInv
<1>9. \A x \in OpenAsks' : pool'[x.address].status # "underived"
  <2> SUFFICES ASSUME NEW x \in OpenAsks PROVE pool'[x.address].status # "underived"
    BY <1>1 DEF OpenAsks
  <2>1. pool[x.address].status # "underived" /\ x.address \in Addresses
    BY <1>2 DEF RowsInv, OpenAsks, PoolTypeOK, Asks
  <2> QED
    BY <1>3, <2>1, EmptyRows
<1> QED
  BY <1>1, <1>5, <1>6, <1>7, <1>8, <1>9 DEF RowsInv

\* The other steps touch no row at all.
LEMMA AskFailsKeepsRows ==
    ASSUME RowsInv, NEW ask \in asks, AskFails(ask)
    PROVE  RowsInv'
<1>1. /\ UNCHANGED <<pool, nextIndex, invoice, order, pass, transfer, indexed, watch, now>>
      /\ failures < MaxFailures /\ failures' = failures + 1 /\ asks' = asks \ {ask}
  BY DEF AskFails, poolVars, chainVars
<1>2. PoolTypeOK'
  BY <1>1, PoolAssumption DEF RowsInv, PoolTypeOK
<1> QED
  BY <1>1, <1>2 DEF RowsInv, OrderIntact, OrdersApart, OpenAsks

LEMMA VerdictKeepsRows ==
    ASSUME RowsInv, NEW i \in Invoices, SettlerDecides(i)
    PROVE  RowsInv'
<1>1. /\ UNCHANGED <<pool, nextIndex, order, asks, pass, failures, transfer, indexed, watch, now>>
      /\ \E status \in Verdicts(i) : invoice' = [invoice EXCEPT ![i].status = status]
  BY DEF SettlerDecides, askVars, chainVars
<1>2. Verdicts(i) \subseteq InvoiceStatuses
  BY DEF Verdicts, InvoiceStatuses
<1>3. PoolTypeOK'
  BY <1>1, <1>2 DEF RowsInv, PoolTypeOK, InvoiceRows
<1> QED
  BY <1>1, <1>3 DEF RowsInv, OrderIntact, OrdersApart, OpenAsks

LEMMA ChainKeepsRows ==
    ASSUME RowsInv,
           (\E t \in Transfers : Revert(t)) \/ NextBlock \/ ReadHead \/ LoadFilter \/ ReadLogs
    PROVE  RowsInv'
<1>1. UNCHANGED <<pool, nextIndex, invoice, order, asks, pass, failures>>
  BY DEF Revert, NextBlock, ReadHead, LoadFilter, ReadLogs, poolVars, askVars
<1>2. PoolTypeOK /\ now \in Nat /\ indexed \in Nat
  BY PoolAssumption DEF RowsInv, PoolTypeOK
<1>3. /\ now' \in 0..MaxTime /\ now' >= now /\ indexed' \in 0..now'
      /\ watch' \in [phase: {"idle", "head", "filter"}, target: 0..now', filter: SUBSET Addresses]
      /\ watch'.phase # "idle" => indexed' <= watch'.target
  <2>1. CASE \E t \in Transfers : Revert(t)
    BY <1>2, <2>1, PoolAssumption DEF Revert, RowsInv, PoolTypeOK
  <2>2. CASE NextBlock
    BY <1>2, <2>2, PoolAssumption DEF NextBlock, RowsInv, PoolTypeOK
  <2>3. CASE ReadHead
    <3>1. /\ now' = now /\ indexed' = indexed
          /\ watch' = [watch EXCEPT !.phase = "head", !.target = now]
      BY <2>3 DEF ReadHead
    <3>2. watch \in [phase: {"idle", "head", "filter"}, target: 0..now, filter: SUBSET Addresses]
      BY <1>2 DEF PoolTypeOK
    <3>3. watch' \in [phase: {"idle", "head", "filter"}, target: 0..now, filter: SUBSET Addresses]
          /\ watch'.target = now
      <4>1. now \in 0..now
        BY <1>2
      <4> QED
        BY <3>1, <3>2, <4>1
    <3> QED
      BY <1>2, <3>1, <3>3 DEF PoolTypeOK
  <2>4. CASE LoadFilter
    <3>1. /\ now' = now /\ indexed' = indexed /\ watch.phase = "head"
          /\ watch' = [watch EXCEPT !.phase = "filter", !.filter = Watched]
      BY <2>4 DEF LoadFilter
    <3>2. watch \in [phase: {"idle", "head", "filter"}, target: 0..now, filter: SUBSET Addresses]
      BY <1>2 DEF PoolTypeOK
    <3>3. Watched \subseteq Addresses
      BY DEF Watched, Rows
    <3>4. watch' \in [phase: {"idle", "head", "filter"}, target: 0..now, filter: SUBSET Addresses]
          /\ watch'.target = watch.target
      BY <1>2, <3>1, <3>2, <3>3
    <3> QED
      BY <1>2, <3>1, <3>4 DEF PoolTypeOK, RowsInv
  <2>5. CASE ReadLogs
    BY <1>2, <2>5, PoolAssumption DEF ReadLogs, RowsInv, PoolTypeOK
  <2> QED
    BY <2>1, <2>2, <2>3, <2>4, <2>5
<1>4. transfer' \in [Transfers -> TransferRows]
  <2>1. CASE \E t \in Transfers : Revert(t)
    BY <1>2, <2>1 DEF Revert, PoolTypeOK, TransferRows, TransferStates
  <2>2. CASE NextBlock
    <3>1. CASE \E t \in Transfers, i \in Invoices : Pays(t, i)
      BY <1>2, <3>1 DEF Pays, PoolTypeOK, TransferRows, TransferStates, InvoiceRows
    <3> QED
      BY <1>2, <2>2, <3>1 DEF NextBlock, PoolTypeOK
  <2>3. CASE ReadLogs
    <3>1. \A t \in Transfers : BoundTo(t) \in Invoices \union {NoInvoice}
      BY <1>2 DEF BoundTo, PoolTypeOK, PoolRows, TransferRows
    <3>2. ASSUME NEW t \in Transfers PROVE Found(t) \in TransferRows
      <4>1. transfer[t] \in TransferRows
        BY <1>2 DEF PoolTypeOK
      <4>2. [transfer[t] EXCEPT !.state = "missed"] \in TransferRows
        BY <4>1 DEF TransferRows, TransferStates
      <4>3. [transfer[t] EXCEPT !.state = "recorded", !.invoice = BoundTo(t)] \in TransferRows
        BY <3>1, <4>1 DEF TransferRows, TransferStates
      <4> QED
        BY <4>1, <4>2, <4>3 DEF Found
    <3> QED
      BY <2>3, <3>2 DEF ReadLogs
  <2> QED
    BY <1>2, <2>1, <2>2, <2>3 DEF ReadHead, LoadFilter, PoolTypeOK
<1>5. PoolTypeOK'
  BY <1>1, <1>2, <1>3, <1>4 DEF PoolTypeOK
<1>6. ASSUME NEW d \in Derivers PROVE OrderIntact(d)'
  BY <1>1, <1>2, <1>3 DEF RowsInv, OrderIntact, PoolTypeOK, Orders
<1> QED
  BY <1>1, <1>3, <1>5, <1>6 DEF RowsInv, OrdersApart, OpenAsks

LEMMA EveryStepKeepsRows == RowsInv /\ [PoolNext]_vars => RowsInv'
<1> SUFFICES ASSUME RowsInv, [PoolNext]_vars PROVE RowsInv'
  OBVIOUS
<1>1. CASE \E d \in Derivers : Deriver(d)
  BY <1>1, OrdersKeepRows, CommitKeepsRows, ServeAskKeepsRows, ReleaseDueKeepsRows DEF Deriver
<1>2. CASE \E s \in Settlers : SettlerReads(s) \/ SettlerAsks(s)
  BY <1>2, SettlerKeepsRows
<1>3. CASE \E ask \in asks : AskFails(ask)
  BY <1>3, AskFailsKeepsRows
<1>4. CASE \E i \in Invoices : SettlerDecides(i)
  BY <1>4, VerdictKeepsRows
<1>5. CASE (\E t \in Transfers : Revert(t)) \/ NextBlock \/ ReadHead \/ LoadFilter \/ ReadLogs
  BY <1>5, ChainKeepsRows
<1>6. CASE UNCHANGED vars
  BY <1>6 DEF vars, poolVars, askVars, chainVars, RowsInv, PoolTypeOK, OrderIntact, OrdersApart,
              OpenAsks
<1> QED
  BY <1>1, <1>2, <1>3, <1>4, <1>5, <1>6 DEF PoolNext

\* The rows of the pool are well formed however many settlers and derivers run:
\* the indexes are handed out without a gap, a free row has no tenant, and no
\* request is open for an address that was never derived.
THEOREM PoolTypeCorrect == PoolSpec => []PoolTypeOK
<1>1. RowsInv => PoolTypeOK
  BY DEF RowsInv
<1> QED
  BY <1>1, RowsAtStart, EveryStepKeepsRows, PTL DEF PoolSpec

-----------------------------------------------------------------------------
LEMMA TenancyAtStart == PoolInit => TenancyInv
<1> SUFFICES ASSUME PoolInit PROVE TenancyInv
  OBVIOUS
<1>1. RowsInv
  BY RowsAtStart
<1>2. \A a \in Addresses : RowIntact(a)
  BY DEF PoolInit, RowIntact, NoRow
<1>3. \A i \in Invoices : InvoiceIntact(i)
  BY DEF PoolInit, InvoiceIntact, NotIssued
<1>4. \A t \in Transfers : TransferIntact(t) /\ transfer[t].state = "unsent"
  BY DEF PoolInit, TransferIntact, Unsent
<1>5. OpenAsks = {} /\ asks = {} /\ \A s \in Settlers : pass[s] = {}
  BY DEF PoolInit, OpenAsks
<1>6. ReleasesInv
  BY <1>5 DEF ReleasesInv, Releases, OneRelease
<1>7. now - indexed <= MaxLag /\ FilterIntact
  BY PoolAssumption DEF PoolInit, FilterIntact
<1>8. InTimeIsCredited
  BY <1>4 DEF InTimeIsCredited
<1> QED
  BY <1>1, <1>2, <1>3, <1>4, <1>6, <1>7, <1>8 DEF TenancyInv

\* The types the steps below use.
LEMMA Typed ==
    ASSUME TenancyInv
    PROVE  /\ PoolTypeOK /\ NoInvoice \notin Invoices
           /\ now \in Nat /\ indexed \in Nat /\ indexed <= now /\ watch.target \in Nat /\ watch.target <= now
           /\ Window \in Nat /\ Cooldown \in Nat /\ MaxLag \in Nat /\ MaxLag <= Cooldown
           /\ \A a \in Addresses : pool[a] \in PoolRows
           /\ \A i \in Invoices : invoice[i] \in InvoiceRows /\ invoice[i].since \in Nat
                                   /\ TopupUntil(i) \in Nat
           /\ \A t \in Transfers : transfer[t] \in TransferRows
           /\ OpenAsks \subseteq Asks /\ asks \subseteq OpenAsks
           /\ \A s \in Settlers : pass[s] \subseteq OpenAsks
<1>1. PoolTypeOK
  BY DEF TenancyInv, RowsInv
<1>2. NoInvoice \notin Invoices
  BY DEF NoInvoice, Invoices
<1>3. \A i \in Invoices : invoice[i] \in InvoiceRows /\ invoice[i].since \in Nat
                        /\ TopupUntil(i) \in Nat
  BY <1>1, PoolAssumption DEF PoolTypeOK, InvoiceRows, TopupUntil
<1>4. OpenAsks \subseteq Asks /\ asks \subseteq OpenAsks /\ \A s \in Settlers : pass[s] \subseteq OpenAsks
  BY <1>1 DEF PoolTypeOK, OpenAsks
<1> QED
  BY <1>1, <1>2, <1>3, <1>4, PoolAssumption DEF PoolTypeOK

\* A step away from the chain that leaves the issued invoices issued, where and
\* when they were, takes nothing from what is known of the transfers.
InvoicesStand ==
    \A i \in Invoices : invoice[i].status # "none" =>
        /\ invoice'[i].status # "none"
        /\ invoice'[i].address = invoice[i].address /\ invoice'[i].since = invoice[i].since

LEMMA TransfersStand ==
    ASSUME TenancyInv, InvoicesStand, UNCHANGED <<transfer, indexed, watch, now>>
    PROVE  /\ \A t \in Transfers : TransferIntact(t)'
           /\ (now - indexed <= MaxLag)' /\ FilterIntact' /\ InTimeIsCredited'
<1>1. \A t \in Transfers : /\ transfer[t].payee \in Invoices \union {NoInvoice}
                           /\ transfer[t].invoice \in Invoices \union {NoInvoice}
  BY Typed DEF TransferRows
<1>2. \A i \in Invoices : invoice[i].status # "none" => TopupUntil(i)' = TopupUntil(i)
  BY DEF InvoicesStand, TopupUntil
<1>3. \A t \in Transfers : TransferIntact(t)
  BY DEF TenancyInv
<1>4. ASSUME NEW t \in Transfers PROVE TransferIntact(t)'
  BY <1>1, <1>3 DEF TransferIntact, InvoicesStand
<1>5. \A t \in Transfers : transfer[t].state # "unsent" =>
         TopupUntil(transfer[t].payee)' = TopupUntil(transfer[t].payee)
  <2> SUFFICES ASSUME NEW t \in Transfers, transfer[t].state # "unsent"
               PROVE  TopupUntil(transfer[t].payee)' = TopupUntil(transfer[t].payee)
    OBVIOUS
  <2>1. transfer[t].payee \in Invoices /\ invoice[transfer[t].payee].status # "none"
    BY <1>1, <1>3 DEF TransferIntact
  <2> QED
    BY <2>1 DEF InvoicesStand, TopupUntil
<1>6. FilterIntact'
  BY <1>5 DEF TenancyInv, FilterIntact
<1>7. InTimeIsCredited'
  BY <1>5 DEF TenancyInv, InTimeIsCredited
<1> QED
  BY <1>4, <1>6, <1>7 DEF TenancyInv

-----------------------------------------------------------------------------
LEMMA OrdersKeepTenancies ==
    ASSUME TenancyInv, NEW d \in Derivers, Reserve(d) \/ Derive(d) \/ Rollback(d)
    PROVE  TenancyInv'
<1>1. UNCHANGED <<pool, nextIndex, invoice, asks, pass, failures, transfer, indexed, watch, now>>
  BY DEF Reserve, Derive, Rollback, askVars, chainVars
<1>2. RowsInv'
  BY OrdersKeepRows DEF TenancyInv
<1>3. /\ \A t \in Transfers : TransferIntact(t)'
      /\ (now - indexed <= MaxLag)' /\ FilterIntact' /\ InTimeIsCredited'
  BY <1>1, TransfersStand DEF InvoicesStand
<1>4. \A a \in Addresses : RowIntact(a)'
  BY <1>1 DEF TenancyInv, RowIntact, ClosedUntil, TopupUntil
<1>5. \A i \in Invoices : InvoiceIntact(i)'
  BY <1>1 DEF TenancyInv, InvoiceIntact, HasAddress, TopupUntil
<1>6. ReleasesInv'
  BY <1>1 DEF TenancyInv, ReleasesInv, Releases, OneRelease, ReleaseIntact, ClosedUntil, TopupUntil,
              OpenAsks
<1> QED
  BY <1>2, <1>3, <1>4, <1>5, <1>6 DEF TenancyInv

\* A new tenant moves into a row without one.
LEMMA CommitKeepsTenancies ==
    ASSUME TenancyInv, NEW d \in Derivers, Commit(d)
    PROVE  TenancyInv'
<1> DEFINE a == order[d].address
<1>1. PICK i \in Invoices :
         /\ invoice[i].status = "none"
         /\ pool' = [pool EXCEPT ![a] = ReservedRow(d, i)]
         /\ invoice' = [invoice EXCEPT ![i] =
                [status |-> "live", address |-> a, since |-> order[d].since]]
  BY DEF Commit, Lowest, Unissued
<1>2. UNCHANGED <<asks, pass, failures, transfer, indexed, watch, now>>
  BY DEF Commit, askVars, chainVars
<1>3. /\ a \in Addresses /\ order[d] \in Orders /\ OrderIntact(d) /\ order[d].phase = "bound"
  BY Typed DEF PoolTypeOK, Orders, TenancyInv, RowsInv, Commit
<1>4. /\ invoice'[i].status = "live" /\ invoice'[i].address = a /\ invoice'[i].since = order[d].since
      /\ \A j \in Invoices : j # i => invoice'[j] = invoice[j]
  BY <1>1, Typed DEF PoolTypeOK
<1>5. /\ pool'[a].status = "reserved" /\ pool'[a].tenant = i
      /\ pool'[a].from = order[d].from /\ pool'[a].cooldown = NoTime
      /\ \A b \in Addresses : b # a => pool'[b] = pool[b]
  BY <1>1, <1>3, Typed DEF PoolTypeOK, ReservedRow
<1>6. pool[a].tenant = NoInvoice /\ pool[a].status \notin {"reserved", "funded"}
  <2>1. CASE order[d].fresh
    <3>1. pool[a].status = "underived"
      BY <1>3, <2>1, RowsByStatus, Typed DEF OrderIntact, PoolTypeOK
    <3> QED
      BY <1>3, <3>1 DEF TenancyInv, RowsInv, NoRow
  <2>2. CASE ~order[d].fresh
    BY <1>3, <2>2 DEF OrderIntact, FreeRow, NoRow
  <2> QED
    BY <2>1, <2>2
<1>7. RowsInv'
  BY CommitKeepsRows DEF TenancyInv
<1>8. /\ \A t \in Transfers : TransferIntact(t)'
      /\ (now - indexed <= MaxLag)' /\ FilterIntact' /\ InTimeIsCredited'
  BY <1>1, <1>2, <1>4, TransfersStand DEF InvoicesStand
<1>9. ASSUME NEW b \in Addresses PROVE RowIntact(b)'
  <2>1. CASE b = a
    BY <1>3, <1>4, <1>5, <2>1 DEF RowIntact, OrderIntact
  <2>2. CASE b # a
    <3>1. RowIntact(b) /\ pool'[b] = pool[b] /\ pool[b].tenant \in Invoices \union {NoInvoice}
      BY <1>5, <2>2, Typed DEF TenancyInv, PoolRows
    <3>2. pool[b].status = "reserved" => pool[b].tenant \in Invoices
      BY DEF TenancyInv, RowsInv
    <3> QED
      BY <1>1, <1>4, <3>1, <3>2, Typed DEF RowIntact, ClosedUntil, TopupUntil
  <2> QED
    BY <2>1, <2>2
<1>10. ASSUME NEW j \in Invoices PROVE InvoiceIntact(j)'
  <2>1. CASE j = i
    BY <1>2, <1>3, <1>4, <1>5, <2>1 DEF InvoiceIntact, HasAddress, OrderIntact
  <2>2. CASE j # i
    <3>1. InvoiceIntact(j) /\ invoice'[j] = invoice[j] /\ TopupUntil(j)' = TopupUntil(j)
      BY <1>4, <2>2 DEF TenancyInv, TopupUntil
    <3>2. invoice[j].address \in Addresses
      BY Typed DEF InvoiceRows
    <3>3. HasAddress(j) => HasAddress(j)'
      BY <1>5, <1>6, <3>1, <3>2 DEF HasAddress
    <3> QED
      BY <1>2, <3>1, <3>2, <3>3 DEF InvoiceIntact
  <2> QED
    BY <2>1, <2>2
<1>11. ASSUME NEW ask \in Releases(OpenAsks) PROVE ReleaseIntact(ask)'
  <2>1. ReleaseIntact(ask) /\ ask.address \in Addresses
    BY Typed DEF TenancyInv, ReleasesInv, Releases, Asks
  <2>2. ask.address # a /\ pool'[ask.address] = pool[ask.address]
    BY <1>5, <1>6, <2>1 DEF ReleaseIntact
  <2>3. pool[ask.address].status = "reserved" => pool[ask.address].tenant \in Invoices
    BY <2>1 DEF TenancyInv, RowsInv
  <2> QED
    BY <1>1, <1>4, <2>1, <2>2, <2>3 DEF ReleaseIntact, ClosedUntil, TopupUntil
<1>12. ReleasesInv'
  BY <1>2, <1>11 DEF TenancyInv, ReleasesInv, OneRelease, Releases, OpenAsks
<1> QED
  BY <1>7, <1>8, <1>9, <1>10, <1>12 DEF TenancyInv

-----------------------------------------------------------------------------
\* What makes a row releasable is final: the tenant is closed.  A tenant under
\* review or settled has a payment, and it is on his address.
LEMMA ReleasableIsClosed ==
    ASSUME TenancyInv, NEW a \in Addresses, Releasable(a)
    PROVE  ClosedUntil(a, CooldownUntil(pool[a].tenant))
<1> DEFINE i == pool[a].tenant
<1>1. i \in Invoices /\ pool[a].status = "reserved"
  BY DEF TenancyInv, RowsInv, Releasable
<1>2. i # NoInvoice /\ invoice[i].status # "none" /\ invoice[i].address = a
  BY <1>1, Typed DEF TenancyInv, RowIntact
<1>3. invoice[i].status \notin {"review", "settled"}
  <2> SUFFICES ASSUME invoice[i].status \in {"review", "settled"} PROVE FALSE
    OBVIOUS
  <2>1. PICK t \in Transfers : transfer[t].invoice = i
    BY <1>1 DEF TenancyInv, InvoiceIntact
  <2>2. TransferIntact(t) /\ transfer[t] \in TransferRows
    BY Typed DEF TenancyInv
  <2>3. transfer[t].state \in {"recorded", "reverted"} /\ transfer[t].address = a
    BY <1>2, <2>1, <2>2 DEF TransferIntact, TransferRows, TransferStates
  <2> QED
    BY <2>3 DEF Releasable, PaymentsOn
<1>4. invoice[i].status = "closed"
  BY <1>1, <1>2, <1>3, Typed DEF Releasable, InvoiceRows, InvoiceStatuses
<1>5. CooldownUntil(i) >= TopupUntil(i) + Cooldown
  BY <1>1, Typed DEF CooldownUntil
<1> QED
  BY <1>4, <1>5 DEF ClosedUntil

LEMMA SettlerReadsKeepsTenancies ==
    ASSUME TenancyInv, NEW s \in Settlers, SettlerReads(s)
    PROVE  TenancyInv'
<1> DEFINE new == LatchCandidates \union ReleaseCandidates
<1>1. UNCHANGED <<pool, nextIndex, invoice, order, asks, failures, transfer, indexed, watch, now>>
  BY DEF SettlerReads, poolVars, chainVars
<1>2. pass'[s] = new /\ \A t \in Settlers : t # s => pass'[t] = pass[t]
  BY Typed DEF SettlerReads, PoolTypeOK
<1>3. RowsInv'
  BY SettlerKeepsRows DEF TenancyInv
<1>4. /\ \A t \in Transfers : TransferIntact(t)'
      /\ (now - indexed <= MaxLag)' /\ FilterIntact' /\ InTimeIsCredited'
  BY <1>1, TransfersStand DEF InvoicesStand
<1>5. \A a \in Addresses : RowIntact(a)'
  BY <1>1 DEF TenancyInv, RowIntact, ClosedUntil, TopupUntil
<1>6. \A i \in Invoices : InvoiceIntact(i)'
  BY <1>1 DEF TenancyInv, InvoiceIntact, HasAddress, TopupUntil
<1>7. ASSUME NEW ask \in Releases(new)
      PROVE  /\ ask.address \in Addresses /\ Releasable(ask.address)
             /\ ask = [address |-> ask.address, action |-> "release",
                       until |-> CooldownUntil(pool[ask.address].tenant)]
  BY <1>7 DEF Releases, LatchCandidates, ReleaseCandidates
<1>8. ASSUME NEW ask \in Releases(OpenAsks') PROVE ReleaseIntact(ask)'
  <2>1. ask \in Releases(OpenAsks) \/ ask \in Releases(new)
    BY <1>1, <1>2, <1>8 DEF Releases, OpenAsks
  <2>2. ReleaseIntact(ask)
    <3>1. CASE ask \in Releases(OpenAsks)
      BY <3>1 DEF TenancyInv, ReleasesInv
    <3>2. CASE ask \in Releases(new)
      <4>1. ask.until = CooldownUntil(pool[ask.address].tenant) /\ Releasable(ask.address)
        BY <1>7, <3>2
      <4>2. ClosedUntil(ask.address, ask.until)
        BY <1>7, <3>2, <4>1, ReleasableIsClosed
      <4> QED
        BY <4>1, <4>2 DEF ReleaseIntact, Releasable
    <3> QED
      BY <2>1, <3>1, <3>2
  <2> QED
    BY <1>1, <2>2 DEF ReleaseIntact, ClosedUntil, TopupUntil
<1>9. OneRelease(new)
  BY <1>7 DEF OneRelease
<1>10. \A x \in Releases(asks), y \in Releases(new) : x.address # y.address
  BY <1>7 DEF Releasable, Asked, Releases
<1>11. ReleasesInv'
  <2>1. OneRelease(asks') /\ \A t \in Settlers : OneRelease(pass'[t])
    BY <1>1, <1>2, <1>9 DEF TenancyInv, ReleasesInv
  <2>2. \A t \in Settlers : \A x \in Releases(asks'), y \in Releases(pass'[t]) : x.address # y.address
    BY <1>1, <1>2, <1>10 DEF TenancyInv, ReleasesInv
  <2> QED
    BY <1>8, <2>1, <2>2 DEF ReleasesInv, OneRelease, Releases
<1> QED
  BY <1>3, <1>4, <1>5, <1>6, <1>11 DEF TenancyInv

\* Here the settler must be alone: what another one has selected may be asked for
\* a second time, after the first request was served and the row has moved on.
LEMMA SettlerAsksKeepsTenancies ==
    ASSUME OneSettler, TenancyInv, NEW s \in Settlers, SettlerAsks(s)
    PROVE  TenancyInv'
<1>1. UNCHANGED <<pool, nextIndex, invoice, order, failures, transfer, indexed, watch, now>>
  BY DEF SettlerAsks, poolVars, chainVars
<1>2. /\ asks' \subseteq asks \union pass[s]
      /\ pass'[s] = {} /\ \A t \in Settlers : t = s
      /\ OpenAsks' \subseteq OpenAsks
  BY Typed DEF SettlerAsks, PoolTypeOK, OneSettler, OpenAsks
<1>3. RowsInv'
  BY SettlerKeepsRows DEF TenancyInv
<1>4. /\ \A t \in Transfers : TransferIntact(t)'
      /\ (now - indexed <= MaxLag)' /\ FilterIntact' /\ InTimeIsCredited'
  BY <1>1, TransfersStand DEF InvoicesStand
<1>5. \A a \in Addresses : RowIntact(a)'
  BY <1>1 DEF TenancyInv, RowIntact, ClosedUntil, TopupUntil
<1>6. \A i \in Invoices : InvoiceIntact(i)'
  BY <1>1 DEF TenancyInv, InvoiceIntact, HasAddress, TopupUntil
<1>7. \A ask \in Releases(OpenAsks') : ReleaseIntact(ask)'
  BY <1>1, <1>2 DEF TenancyInv, ReleasesInv, Releases, ReleaseIntact, ClosedUntil, TopupUntil
<1>8. OneRelease(asks')
  <2>1. /\ OneRelease(asks) /\ OneRelease(pass[s])
        /\ \A x \in Releases(asks), y \in Releases(pass[s]) : x.address # y.address
    BY DEF TenancyInv, ReleasesInv
  <2>2. Releases(asks') \subseteq Releases(asks) \union Releases(pass[s])
    BY <1>2 DEF Releases
  <2> QED
    BY <2>1, <2>2 DEF OneRelease
<1>9. \A t \in Settlers : Releases(pass'[t]) = {}
  BY <1>2 DEF Releases
<1>10. ReleasesInv'
  BY <1>7, <1>8, <1>9 DEF ReleasesInv, OneRelease, Releases
<1> QED
  BY <1>3, <1>4, <1>5, <1>6, <1>10 DEF TenancyInv

\* A release is served once: no other open one is for the same address.
LEMMA ServeAskKeepsTenancies ==
    ASSUME TenancyInv, NEW d \in Derivers, NEW ask \in asks, ServeAsk(d, ask)
    PROVE  TenancyInv'
<1> DEFINE a == ask.address
<1>1. /\ UNCHANGED <<nextIndex, invoice, order, pass, failures, transfer, indexed, watch, now>>
      /\ pool' = [pool EXCEPT ![a] = Applied(ask)] /\ asks' = asks \ {ask}
  BY DEF ServeAsk, chainVars
<1>2. ask \in Asks /\ a \in Addresses /\ ask \in OpenAsks /\ pool[a] \in PoolRows
  BY Typed DEF Asks
<1>3. pool'[a] = Applied(ask) /\ \A b \in Addresses : b # a => pool'[b] = pool[b]
  BY <1>1, <1>2, Typed DEF PoolTypeOK
<1>4. /\ pool'[a].tenant = pool[a].tenant /\ pool'[a].from = pool[a].from
      /\ pool[a].status \in {"reserved", "funded"} => pool'[a].status \in {"reserved", "funded"}
      /\ pool'[a].status = "reserved" => pool[a].status = "reserved"
      /\ ask.action # "release" => pool'[a].status = "funded"
      /\ ask.action = "release" /\ pool[a].status = "reserved" => pool'[a].cooldown = ask.until
  BY <1>2, <1>3 DEF Applied, PoolRows, AddressStatuses, Asks
<1>5. RowsInv'
  BY ServeAskKeepsRows DEF TenancyInv
<1>6. /\ \A t \in Transfers : TransferIntact(t)'
      /\ (now - indexed <= MaxLag)' /\ FilterIntact' /\ InTimeIsCredited'
  BY <1>1, TransfersStand DEF InvoicesStand
<1>7. ASSUME NEW b \in Addresses PROVE RowIntact(b)'
  <2>1. CASE b = a
    <3>1. pool'[a].status = "reserved" =>
             ClosedUntil(a, pool'[a].cooldown) /\ ask.action = "release"
      BY <1>2, <1>4 DEF TenancyInv, ReleasesInv, Releases, ReleaseIntact
    <3>2. RowIntact(a)
      BY <1>2 DEF TenancyInv
    <3> QED
      BY <1>1, <1>4, <2>1, <3>1, <3>2 DEF RowIntact, ClosedUntil, TopupUntil
  <2>2. CASE b # a
    BY <1>1, <1>3, <2>2 DEF TenancyInv, RowIntact, ClosedUntil, TopupUntil
  <2> QED
    BY <2>1, <2>2
<1>8. ASSUME NEW i \in Invoices PROVE InvoiceIntact(i)'
  <2>1. HasAddress(i) => HasAddress(i)'
    <3>1. invoice[i].address \in Addresses
      BY Typed DEF InvoiceRows
    <3> QED
      BY <1>1, <1>3, <1>4, <3>1 DEF HasAddress
  <2> QED
    BY <1>1, <2>1 DEF TenancyInv, InvoiceIntact, TopupUntil
<1>9. ASSUME NEW x \in Releases(OpenAsks') PROVE ReleaseIntact(x)'
  <2>1. x \in Releases(OpenAsks) /\ x.address \in Addresses /\ ReleaseIntact(x)
    BY <1>1, <1>9, Typed DEF Releases, OpenAsks, Asks, TenancyInv, ReleasesInv
  <2>2. CASE x.address # a
    BY <1>1, <1>3, <2>1, <2>2 DEF ReleaseIntact, ClosedUntil, TopupUntil
  <2>3. CASE x.address = a
    <3>1. ask.action # "release"
      BY <1>1, <1>9, <2>3 DEF TenancyInv, ReleasesInv, OneRelease, Releases, OpenAsks
    <3> QED
      BY <1>4, <2>1, <2>3, <3>1 DEF ReleaseIntact
  <2> QED
    BY <2>2, <2>3
<1>10. ReleasesInv'
  BY <1>1, <1>9 DEF TenancyInv, ReleasesInv, OneRelease, Releases
<1> QED
  BY <1>5, <1>6, <1>7, <1>8, <1>10 DEF TenancyInv

LEMMA AskFailsKeepsTenancies ==
    ASSUME TenancyInv, NEW ask \in asks, AskFails(ask)
    PROVE  TenancyInv'
<1>1. /\ UNCHANGED <<pool, nextIndex, invoice, order, pass, transfer, indexed, watch, now>>
      /\ asks' = asks \ {ask}
  BY DEF AskFails, poolVars, chainVars
<1>2. RowsInv'
  BY AskFailsKeepsRows DEF TenancyInv
<1>3. /\ \A t \in Transfers : TransferIntact(t)'
      /\ (now - indexed <= MaxLag)' /\ FilterIntact' /\ InTimeIsCredited'
  BY <1>1, TransfersStand DEF InvoicesStand
<1>4. \A a \in Addresses : RowIntact(a)'
  BY <1>1 DEF TenancyInv, RowIntact, ClosedUntil, TopupUntil
<1>5. \A i \in Invoices : InvoiceIntact(i)'
  BY <1>1 DEF TenancyInv, InvoiceIntact, HasAddress, TopupUntil
<1>6. OpenAsks' \subseteq OpenAsks
  BY <1>1 DEF OpenAsks
<1>7. ReleasesInv'
  BY <1>1, <1>6
  DEF TenancyInv, ReleasesInv, Releases, OneRelease, ReleaseIntact, ClosedUntil, TopupUntil
<1> QED
  BY <1>2, <1>3, <1>4, <1>5, <1>7 DEF TenancyInv

\* A row is due only when nobody needs it any more.
LEMMA DueIsOver ==
    ASSUME TenancyInv, NEW a \in Addresses, Due(a)
    PROVE  /\ pool[a].tenant \in Invoices /\ invoice[pool[a].tenant].status = "closed"
           /\ now >= TopupUntil(pool[a].tenant) + Cooldown
<1>1. /\ pool[a].tenant \in Invoices /\ ClosedUntil(a, pool[a].cooldown)
      /\ pool[a].cooldown \in Nat /\ pool[a].cooldown <= now
  BY Typed DEF TenancyInv, RowsInv, RowIntact, Due, PoolRows
<1> QED
  BY <1>1, Typed DEF ClosedUntil

LEMMA ReleaseDueKeepsTenancies ==
    ASSUME TenancyInv, NEW d \in Derivers, ReleaseDue(d)
    PROVE  TenancyInv'
<1>1. /\ UNCHANGED <<nextIndex, invoice, order, asks, pass, failures, transfer, indexed, watch, now>>
      /\ \A a \in Addresses : pool'[a] = IF Due(a) THEN FreeRow ELSE pool[a]
  BY DEF ReleaseDue, askVars, chainVars
<1>2. RowsInv'
  BY ReleaseDueKeepsRows DEF TenancyInv
<1>3. /\ \A t \in Transfers : TransferIntact(t)'
      /\ (now - indexed <= MaxLag)' /\ FilterIntact' /\ InTimeIsCredited'
  BY <1>1, TransfersStand DEF InvoicesStand
<1>4. ASSUME NEW a \in Addresses PROVE RowIntact(a)'
  <2>1. CASE Due(a)
    BY <1>1, <2>1 DEF RowIntact, FreeRow, NoRow
  <2>2. CASE ~Due(a)
    BY <1>1, <2>2 DEF TenancyInv, RowIntact, ClosedUntil, TopupUntil
  <2> QED
    BY <2>1, <2>2
<1>5. ASSUME NEW i \in Invoices PROVE InvoiceIntact(i)'
  <2>1. InvoiceIntact(i) /\ TopupUntil(i)' = TopupUntil(i) /\ invoice[i].address \in Addresses
    BY <1>1, Typed DEF TenancyInv, TopupUntil, InvoiceRows
  <2>2. ASSUME invoice[i].status # "none", HasAddress(i),
               invoice[i].status # "closed" \/ now < TopupUntil(i) + Cooldown
        PROVE  HasAddress(i)'
    <3>1. ~Due(invoice[i].address)
      BY <2>1, <2>2, DueIsOver, Typed DEF HasAddress
    <3> QED
      BY <1>1, <2>1, <2>2, <3>1 DEF HasAddress
  <2> QED
    BY <1>1, <2>1, <2>2 DEF InvoiceIntact
<1>6. ASSUME NEW ask \in Releases(OpenAsks) PROVE ReleaseIntact(ask)'
  <2>1. ReleaseIntact(ask) /\ ask.address \in Addresses
    BY Typed DEF TenancyInv, ReleasesInv, Releases, Asks
  <2>2. ~Due(ask.address)
    BY <2>1 DEF ReleaseIntact, Due
  <2> QED
    BY <1>1, <2>1, <2>2 DEF ReleaseIntact, ClosedUntil, TopupUntil
<1>7. ReleasesInv'
  BY <1>1, <1>6 DEF TenancyInv, ReleasesInv, OneRelease, Releases, OpenAsks
<1> QED
  BY <1>2, <1>3, <1>4, <1>5, <1>7 DEF TenancyInv

\* A verdict is for an invoice that still has its address, and a closed one gets none.
LEMMA VerdictKeepsTenancies ==
    ASSUME TenancyInv, NEW i \in Invoices, SettlerDecides(i)
    PROVE  TenancyInv'
<1>1. PICK status \in Verdicts(i) : invoice' = [invoice EXCEPT ![i].status = status]
  BY DEF SettlerDecides
<1>2. UNCHANGED <<pool, nextIndex, order, asks, pass, failures, transfer, indexed, watch, now>>
  BY DEF SettlerDecides, askVars, chainVars
<1>3. /\ invoice[i].status \in {"live", "review", "settled"}
      /\ status \in {"live", "review", "settled", "closed"}
      /\ status \in {"review", "settled"} =>
            invoice[i].status \in {"review", "settled"} \/ Bound(i, "recorded")
  BY <1>1 DEF Verdicts
<1>4. /\ invoice'[i].status = status
      /\ \A j \in Invoices : /\ invoice'[j].address = invoice[j].address
                             /\ invoice'[j].since = invoice[j].since
                             /\ j # i => invoice'[j] = invoice[j]
  BY <1>1, Typed DEF PoolTypeOK, InvoiceRows
<1>5. \A j \in Invoices : TopupUntil(j)' = TopupUntil(j)
  BY <1>4 DEF TopupUntil
<1>6. RowsInv'
  BY VerdictKeepsRows DEF TenancyInv
<1>7. /\ \A t \in Transfers : TransferIntact(t)'
      /\ (now - indexed <= MaxLag)' /\ FilterIntact' /\ InTimeIsCredited'
  BY <1>2, <1>3, <1>4, TransfersStand DEF InvoicesStand
<1>8. ASSUME NEW a \in Addresses, NEW time, pool[a].tenant \in Invoices, ClosedUntil(a, time)
      PROVE  ClosedUntil(a, time)'
  BY <1>2, <1>3, <1>4, <1>5, <1>8 DEF ClosedUntil
<1>9. ASSUME NEW a \in Addresses PROVE RowIntact(a)'
  <2>1. RowIntact(a) /\ pool[a].tenant \in Invoices \union {NoInvoice}
    BY Typed DEF TenancyInv, PoolRows
  <2>2. pool[a].status = "reserved" => pool[a].tenant \in Invoices
    BY DEF TenancyInv, RowsInv
  <2>3. pool[a].status = "reserved" /\ pool[a].cooldown # NoTime => ClosedUntil(a, pool[a].cooldown)'
    BY <1>2, <1>3, <1>4, <1>5, <2>1, <2>2 DEF RowIntact, ClosedUntil
  <2> QED
    BY <1>2, <1>3, <1>4, <2>1, <2>3 DEF RowIntact, ClosedUntil
<1>10. ASSUME NEW j \in Invoices PROVE InvoiceIntact(j)'
  <2>1. InvoiceIntact(j) /\ (HasAddress(j) => HasAddress(j)')
    BY <1>2, <1>4 DEF TenancyInv, HasAddress
  <2>2. CASE j = i
    BY <1>2, <1>3, <1>4, <1>5, <2>1, <2>2 DEF InvoiceIntact, Bound
  <2>3. CASE j # i
    BY <1>2, <1>4, <1>5, <2>1, <2>3 DEF InvoiceIntact
  <2> QED
    BY <2>2, <2>3
<1>11. ASSUME NEW ask \in Releases(OpenAsks) PROVE ReleaseIntact(ask)'
  <2>1. ReleaseIntact(ask) /\ ask.address \in Addresses
    BY Typed DEF TenancyInv, ReleasesInv, Releases, Asks
  <2>2. pool[ask.address].status = "reserved" => pool[ask.address].tenant \in Invoices
    BY <2>1 DEF TenancyInv, RowsInv
  <2>3. pool[ask.address].status = "reserved" => ClosedUntil(ask.address, ask.until)'
    BY <1>8, <2>1, <2>2 DEF ReleaseIntact
  <2> QED
    BY <1>2, <2>1, <2>3 DEF ReleaseIntact, ClosedUntil
<1>12. ReleasesInv'
  BY <1>2, <1>11 DEF TenancyInv, ReleasesInv, OneRelease, Releases, OpenAsks
<1> QED
  BY <1>6, <1>7, <1>9, <1>10, <1>12 DEF TenancyInv

-----------------------------------------------------------------------------
LEMMA RevertKeepsTenancies ==
    ASSUME TenancyInv, NEW t \in Transfers, Revert(t)
    PROVE  TenancyInv'
<1>1. /\ UNCHANGED <<pool, nextIndex, invoice, order, asks, pass, failures, indexed, watch, now>>
      /\ transfer[t].state = "recorded" /\ transfer' = [transfer EXCEPT ![t].state = "reverted"]
  BY DEF Revert, poolVars, askVars
<1>2. \A u \in Transfers : /\ transfer'[u].invoice = transfer[u].invoice
                           /\ transfer'[u].payee = transfer[u].payee
                           /\ transfer'[u].address = transfer[u].address
                           /\ transfer'[u].block = transfer[u].block
                           /\ u # t => transfer'[u].state = transfer[u].state
                           /\ u = t => transfer'[u].state = "reverted"
  BY <1>1, Typed DEF PoolTypeOK, TransferRows
<1>3. RowsInv'
  BY ChainKeepsRows DEF TenancyInv
<1>4. \A a \in Addresses : RowIntact(a)'
  BY <1>1 DEF TenancyInv, RowIntact, ClosedUntil, TopupUntil
<1>5. \A i \in Invoices : InvoiceIntact(i)'
  BY <1>1, <1>2 DEF TenancyInv, InvoiceIntact, HasAddress, TopupUntil
<1>6. \A u \in Transfers : TransferIntact(u)'
  BY <1>1, <1>2 DEF TenancyInv, TransferIntact
<1>7. ReleasesInv'
  BY <1>1 DEF TenancyInv, ReleasesInv, Releases, OneRelease, ReleaseIntact, ClosedUntil, TopupUntil,
              OpenAsks
<1>8. FilterIntact'
  BY <1>1, <1>2 DEF TenancyInv, FilterIntact, TopupUntil
<1>9. InTimeIsCredited'
  BY <1>1, <1>2 DEF TenancyInv, InTimeIsCredited, TopupUntil
<1> QED
  BY <1>1, <1>3, <1>4, <1>5, <1>6, <1>7, <1>8, <1>9 DEF TenancyInv

\* A block may bring a transfer to somebody who once was given an address; it is
\* later than the head of any step that is under way.
LEMMA NextBlockKeepsTenancies ==
    ASSUME TenancyInv, NextBlock
    PROVE  TenancyInv'
<1>1. /\ UNCHANGED <<pool, nextIndex, invoice, order, asks, pass, failures, indexed, watch>>
      /\ now' = now + 1 /\ now - indexed < MaxLag
  BY DEF NextBlock, poolVars, askVars
<1>2. ASSUME NEW t \in Transfers, transfer'[t] # transfer[t]
      PROVE  \E i \in Invoices :
                /\ transfer[t].state = "unsent" /\ invoice[i].status # "none"
                /\ transfer'[t].state = "mined" /\ transfer'[t].payee = i
                /\ transfer'[t].address = invoice[i].address
                /\ transfer'[t].block = now + 1 /\ transfer'[t].invoice = NoInvoice
  BY <1>2, Typed DEF NextBlock, Pays, PoolTypeOK
<1>3. RowsInv'
  BY ChainKeepsRows DEF TenancyInv
<1>4. \A a \in Addresses : RowIntact(a)'
  BY <1>1 DEF TenancyInv, RowIntact, ClosedUntil, TopupUntil
<1>5. ASSUME NEW i \in Invoices PROVE InvoiceIntact(i)'
  <2>1. InvoiceIntact(i) /\ invoice[i].since \in Nat /\ TopupUntil(i) \in Nat
    BY Typed DEF TenancyInv
  <2>2. \A t \in Transfers : transfer[t].invoice = i => transfer'[t].invoice = i
    <3> SUFFICES ASSUME NEW t \in Transfers, transfer[t].invoice = i, transfer'[t] # transfer[t]
                 PROVE  FALSE
      OBVIOUS
    <3>1. transfer[t].state = "unsent" /\ TransferIntact(t)
      BY <1>2 DEF TenancyInv
    <3> QED
      BY <3>1, Typed DEF TransferIntact
  <2>3. TopupUntil(i)' = TopupUntil(i) /\ (HasAddress(i) => HasAddress(i)')
    BY <1>1 DEF TopupUntil, HasAddress
  <2> QED
    BY <1>1, <2>1, <2>2, <2>3, Typed DEF InvoiceIntact
<1>6. ASSUME NEW t \in Transfers PROVE TransferIntact(t)'
  <2>1. TransferIntact(t) /\ transfer[t] \in TransferRows
    BY Typed DEF TenancyInv
  <2>2. CASE transfer'[t] = transfer[t]
    BY <1>1, <2>1, <2>2, Typed DEF TransferIntact, TransferRows
  <2>3. CASE transfer'[t] # transfer[t]
    <3>1. PICK i \in Invoices :
                /\ transfer[t].state = "unsent" /\ invoice[i].status # "none"
                /\ transfer'[t].state = "mined" /\ transfer'[t].payee = i
                /\ transfer'[t].address = invoice[i].address
                /\ transfer'[t].block = now + 1 /\ transfer'[t].invoice = NoInvoice
      BY <1>2, <2>3
    <3>2. invoice[i].since \in Nat /\ invoice[i].since <= now
      BY <3>1, Typed DEF TenancyInv, InvoiceIntact
    <3> QED
      BY <1>1, <3>1, <3>2, Typed DEF TransferIntact
  <2> QED
    BY <2>2, <2>3
<1>7. ReleasesInv'
  BY <1>1 DEF TenancyInv, ReleasesInv, Releases, OneRelease, ReleaseIntact, ClosedUntil, TopupUntil,
              OpenAsks
<1>8. (now - indexed <= MaxLag)'
  BY <1>1, Typed
<1>9. FilterIntact'
  <2> SUFFICES ASSUME watch.phase = "filter", NEW t \in Transfers,
                      transfer'[t].state = "mined", transfer'[t].block <= watch.target,
                      transfer'[t].block <= TopupUntil(transfer'[t].payee)
               PROVE  transfer'[t].address \in watch.filter
    BY <1>1 DEF FilterIntact, TopupUntil
  <2>1. transfer'[t] = transfer[t]
    BY <1>2, Typed
  <2> QED
    BY <2>1 DEF TenancyInv, FilterIntact
<1>10. InTimeIsCredited'
  <2> SUFFICES ASSUME NEW t \in Transfers,
                      transfer'[t].state \in {"recorded", "reverted", "missed"},
                      transfer'[t].block <= TopupUntil(transfer'[t].payee)
               PROVE  transfer'[t].state # "missed" /\ transfer'[t].invoice = transfer'[t].payee
    BY <1>1 DEF InTimeIsCredited, TopupUntil
  <2>1. transfer'[t] = transfer[t]
    BY <1>2
  <2> QED
    BY <2>1 DEF TenancyInv, InTimeIsCredited
<1> QED
  BY <1>3, <1>4, <1>5, <1>6, <1>7, <1>8, <1>9, <1>10 DEF TenancyInv

\* The watcher is never further behind than an address cools down: whoever paid in
\* time still has his address while his payment is unread.
LEMMA UnreadKeepsAddress ==
    ASSUME TenancyInv, NEW t \in Transfers,
           transfer[t].state = "mined", transfer[t].block <= TopupUntil(transfer[t].payee)
    PROVE  /\ transfer[t].payee \in Invoices /\ HasAddress(transfer[t].payee)
           /\ invoice[transfer[t].payee].address = transfer[t].address
           /\ invoice[transfer[t].payee].since < transfer[t].block
<1> DEFINE i == transfer[t].payee
<1>1. TransferIntact(t) /\ transfer[t] \in TransferRows
  BY Typed DEF TenancyInv
<1>2. /\ i \in Invoices /\ invoice[i].status # "none" /\ invoice[i].address = transfer[t].address
      /\ invoice[i].since < transfer[t].block /\ indexed < transfer[t].block /\ transfer[t].block \in Nat
  BY <1>1 DEF TransferIntact, TransferRows
<1>3. now < TopupUntil(i) + Cooldown
  <2>1. now - indexed <= MaxLag
    BY DEF TenancyInv
  <2> QED
    BY <1>2, <2>1, Typed
<1> QED
  BY <1>2, <1>3 DEF TenancyInv, InvoiceIntact

LEMMA ReadHeadKeepsTenancies ==
    ASSUME TenancyInv, ReadHead
    PROVE  TenancyInv'
<1>1. /\ UNCHANGED <<pool, nextIndex, invoice, order, asks, pass, failures, transfer, indexed, now>>
      /\ watch'.phase = "head"
  BY Typed DEF ReadHead, poolVars, askVars, PoolTypeOK
<1>2. RowsInv'
  BY ChainKeepsRows DEF TenancyInv
<1>3. FilterIntact'
  BY <1>1 DEF FilterIntact
<1> QED
  BY <1>1, <1>2, <1>3
  DEF TenancyInv, RowIntact, InvoiceIntact, TransferIntact, ReleasesInv, Releases, OneRelease,
      ReleaseIntact, ClosedUntil, HasAddress, TopupUntil, OpenAsks, InTimeIsCredited

LEMMA LoadFilterKeepsTenancies ==
    ASSUME TenancyInv, LoadFilter
    PROVE  TenancyInv'
<1>1. /\ UNCHANGED <<pool, nextIndex, invoice, order, asks, pass, failures, transfer, indexed, now>>
      /\ watch'.filter = Watched
  BY Typed DEF LoadFilter, poolVars, askVars, PoolTypeOK
<1>2. RowsInv'
  BY ChainKeepsRows DEF TenancyInv
<1>3. FilterIntact'
  <2> SUFFICES ASSUME NEW t \in Transfers, transfer[t].state = "mined",
                      transfer[t].block <= TopupUntil(transfer[t].payee)
               PROVE  transfer[t].address \in Watched
    BY <1>1 DEF FilterIntact, TopupUntil
  <2>1. transfer[t].address \in Addresses
    BY Typed DEF TransferRows
  <2> QED
    BY <2>1, UnreadKeepsAddress DEF HasAddress, Watched, Rows
<1> QED
  BY <1>1, <1>2, <1>3
  DEF TenancyInv, RowIntact, InvoiceIntact, TransferIntact, ReleasesInv, Releases, OneRelease,
      ReleaseIntact, ClosedUntil, HasAddress, TopupUntil, OpenAsks, InTimeIsCredited

LEMMA ReadLogsKeepsTenancies ==
    ASSUME TenancyInv, ReadLogs
    PROVE  TenancyInv'
<1>1. /\ UNCHANGED <<pool, nextIndex, invoice, order, asks, pass, failures, now>>
      /\ indexed' = watch.target /\ watch.phase = "filter" /\ watch'.phase = "idle"
      /\ \A t \in Transfers : transfer'[t] = Found(t)
  BY DEF ReadLogs, poolVars, askVars
<1>2. RowsInv'
  BY ChainKeepsRows DEF TenancyInv
\* What one step does to one transfer.
<1>3. ASSUME NEW t \in Transfers, transfer'[t] # transfer[t]
      PROVE  /\ transfer[t].state = "mined" /\ transfer[t].block <= watch.target
             /\ transfer'[t].payee = transfer[t].payee /\ transfer'[t].block = transfer[t].block
             /\ transfer'[t].address = transfer[t].address
             /\ \/ transfer[t].address \notin watch.filter /\ transfer'[t].state = "missed"
                   /\ transfer'[t].invoice = transfer[t].invoice
                \/ transfer[t].address \in watch.filter /\ transfer'[t].state = "recorded"
                   /\ transfer'[t].invoice = BoundTo(t)
  <2>1. transfer[t] \in TransferRows /\ Found(t) # transfer[t] /\ transfer'[t] = Found(t)
    BY <1>1, <1>3, Typed
  <2>2. transfer[t].state = "mined" /\ transfer[t].block <= watch.target
    BY <2>1, Typed DEF Found, TransferRows
  <2>3. CASE transfer[t].address \notin watch.filter
    BY <2>1, <2>2, <2>3, Typed DEF Found, TransferRows
  <2>4. CASE transfer[t].address \in watch.filter
    BY <2>1, <2>2, <2>4, Typed DEF Found, TransferRows
  <2> QED
    BY <2>2, <2>3, <2>4
<1>4. ASSUME NEW t \in Transfers, transfer'[t].state = "mined"
      PROVE  transfer'[t] = transfer[t] /\ watch.target < transfer[t].block
  <2>1. transfer'[t] = transfer[t]
    BY <1>3, <1>4
  <2>2. Found(t).state = "mined" /\ transfer[t].state = "mined" /\ transfer[t] \in TransferRows
    BY <1>1, <1>4, <2>1, Typed
  <2> QED
    BY <2>1, <2>2, Typed DEF Found, TransferRows
<1>5. ASSUME NEW t \in Transfers, transfer'[t] # transfer[t], transfer'[t].invoice # NoInvoice
      PROVE  /\ invoice[transfer'[t].invoice].status # "none"
             /\ invoice[transfer'[t].invoice].address = transfer[t].address
  <2>1. TransferIntact(t) /\ transfer[t].address \in Addresses
    BY Typed DEF TenancyInv, TransferRows
  <2>2. transfer[t].invoice = NoInvoice /\ transfer'[t].invoice = BoundTo(t)
    BY <1>3, <1>5, <2>1 DEF TransferIntact
  <2>3. pool[transfer[t].address].tenant = BoundTo(t) /\ BoundTo(t) # NoInvoice
    BY <1>5, <2>2 DEF BoundTo
  <2> QED
    BY <2>1, <2>2, <2>3 DEF TenancyInv, RowIntact
<1>6. ASSUME NEW t \in Transfers PROVE TransferIntact(t)'
  <2>1. TransferIntact(t) /\ transfer[t] \in TransferRows
    BY Typed DEF TenancyInv
  <2>2. CASE transfer'[t] = transfer[t]
    BY <1>1, <1>4, <2>1, <2>2 DEF TransferIntact
  <2>3. CASE transfer'[t] # transfer[t]
    <3>1. /\ transfer'[t].state \in {"recorded", "missed"}
          /\ transfer'[t].state = "missed" => transfer'[t].invoice = NoInvoice
      BY <1>3, <2>1, <2>3 DEF TransferIntact
    <3> QED
      BY <1>1, <1>3, <1>5, <2>1, <2>3, <3>1 DEF TransferIntact
  <2> QED
    BY <2>2, <2>3
<1>7. \A a \in Addresses : RowIntact(a)'
  BY <1>1 DEF TenancyInv, RowIntact, ClosedUntil, TopupUntil
<1>8. ASSUME NEW i \in Invoices PROVE InvoiceIntact(i)'
  <2>1. ASSUME NEW t \in Transfers, transfer[t].invoice = i PROVE transfer'[t].invoice = i
    <3>1. transfer[t].state # "mined"
      BY <2>1, Typed DEF TenancyInv, TransferIntact
    <3> QED
      BY <1>3, <2>1, <3>1
  <2>2. InvoiceIntact(i) /\ TopupUntil(i)' = TopupUntil(i) /\ (HasAddress(i) => HasAddress(i)')
    BY <1>1 DEF TenancyInv, TopupUntil, HasAddress
  <2> QED
    BY <1>1, <2>1, <2>2 DEF InvoiceIntact
<1>9. ReleasesInv'
  BY <1>1 DEF TenancyInv, ReleasesInv, Releases, OneRelease, ReleaseIntact, ClosedUntil, TopupUntil,
              OpenAsks
<1>10. (now - indexed <= MaxLag)'
  BY <1>1, Typed DEF TenancyInv, RowsInv
<1>11. FilterIntact'
  BY <1>1 DEF FilterIntact
<1>12. InTimeIsCredited'
  <2> SUFFICES ASSUME NEW t \in Transfers,
                      transfer'[t].state \in {"recorded", "reverted", "missed"},
                      transfer'[t].block <= TopupUntil(transfer'[t].payee)
               PROVE  transfer'[t].state # "missed" /\ transfer'[t].invoice = transfer'[t].payee
    BY <1>1 DEF InTimeIsCredited, TopupUntil
  <2>1. CASE transfer'[t] = transfer[t]
    BY <2>1 DEF TenancyInv, InTimeIsCredited
  <2>2. CASE transfer'[t] # transfer[t]
    <3>1. /\ transfer[t].state = "mined" /\ transfer[t].block <= watch.target
          /\ transfer[t].block <= TopupUntil(transfer[t].payee)
      BY <1>3, <2>2
    <3>2. transfer[t].address \in watch.filter
      BY <1>1, <3>1 DEF TenancyInv, FilterIntact
    <3>3. transfer'[t].state = "recorded" /\ transfer'[t].invoice = BoundTo(t)
      BY <1>3, <2>2, <3>2
    <3> DEFINE i == transfer[t].payee
               a == transfer[t].address
    <3>4. /\ i \in Invoices /\ pool[a].tenant = i /\ invoice[i].since < transfer[t].block
          /\ a \in Addresses /\ transfer[t].block \in Nat /\ pool[a].from \in Nat
      BY <3>1, UnreadKeepsAddress, Typed DEF HasAddress, TransferRows, PoolRows
    <3>5. pool[a].from <= invoice[i].since
      BY <3>4, Typed DEF TenancyInv, RowIntact
    <3>6. BoundTo(t) = i
      BY <3>4, <3>5, Typed DEF BoundTo
    <3> QED
      BY <1>3, <2>2, <3>3, <3>6
  <2> QED
    BY <2>1, <2>2
<1> QED
  BY <1>2, <1>6, <1>7, <1>8, <1>9, <1>10, <1>11, <1>12 DEF TenancyInv

LEMMA EveryStepKeepsTenancies == OneSettler => (TenancyInv /\ [PoolNext]_vars => TenancyInv')
<1> SUFFICES ASSUME OneSettler, TenancyInv, [PoolNext]_vars PROVE TenancyInv'
  OBVIOUS
<1>1. CASE \E d \in Derivers : Deriver(d)
  BY <1>1, OrdersKeepTenancies, CommitKeepsTenancies, ServeAskKeepsTenancies,
     ReleaseDueKeepsTenancies DEF Deriver
<1>2. CASE \E s \in Settlers : SettlerReads(s) \/ SettlerAsks(s)
  BY <1>2, SettlerReadsKeepsTenancies, SettlerAsksKeepsTenancies
<1>3. CASE \E ask \in asks : AskFails(ask)
  BY <1>3, AskFailsKeepsTenancies
<1>4. CASE \E i \in Invoices : SettlerDecides(i)
  BY <1>4, VerdictKeepsTenancies
<1>5. CASE (\E t \in Transfers : Revert(t)) \/ NextBlock \/ ReadHead \/ LoadFilter \/ ReadLogs
  BY <1>5, RevertKeepsTenancies, NextBlockKeepsTenancies, ReadHeadKeepsTenancies,
     LoadFilterKeepsTenancies, ReadLogsKeepsTenancies
<1>6. CASE UNCHANGED vars
  <2>1. UNCHANGED <<pool, nextIndex, invoice, order, asks, pass, failures, transfer, indexed, watch, now>>
    BY <1>6 DEF vars, poolVars, askVars, chainVars
  <2>2. RowsInv'
    BY EveryStepKeepsRows DEF TenancyInv
  <2> QED
    BY <2>1, <2>2
    DEF TenancyInv, RowIntact, InvoiceIntact, TransferIntact, ReleasesInv, Releases, OneRelease,
        ReleaseIntact, ClosedUntil, HasAddress, TopupUntil, OpenAsks, InTimeIsCredited, FilterIntact
<1> QED
  BY <1>1, <1>2, <1>3, <1>4, <1>5, <1>6 DEF PoolNext

\* A live invoice keeps its address to itself as long as one settler passes at a
\* time, for any number of derivers: a release that is selected, asked for and
\* served at any later moment still finds the row as it was when it was selected.
THEOREM AddressKeptTheorem == OneSettler => (PoolSpec => []TenantKeepsAddress)
<1> SUFFICES ASSUME OneSettler PROVE PoolSpec => []TenantKeepsAddress
  OBVIOUS
<1>1. TenancyInv => TenantKeepsAddress
  BY DEF TenancyInv, InvoiceIntact, HasAddress, TenantKeepsAddress
<1>2. TenancyInv /\ [PoolNext]_vars => TenancyInv'
  BY EveryStepKeepsTenancies
<1> QED
  BY <1>1, <1>2, TenancyAtStart, PTL DEF PoolSpec

\* What a buyer sends before his top-up window ends is found and bound to his
\* invoice, for every cooldown that is at least the lag of the watcher.
THEOREM InTimeTheorem == OneSettler => (PoolSpec => []InTimeIsCredited)
<1> SUFFICES ASSUME OneSettler PROVE PoolSpec => []InTimeIsCredited
  OBVIOUS
<1>1. TenancyInv => InTimeIsCredited
  BY DEF TenancyInv
<1>2. TenancyInv /\ [PoolNext]_vars => TenancyInv'
  BY EveryStepKeepsTenancies
<1> QED
  BY <1>1, <1>2, TenancyAtStart, PTL DEF PoolSpec
=============================================================================
