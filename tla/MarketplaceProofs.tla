-------------------------- MODULE MarketplaceProofs --------------------------
(***************************************************************************)
(* Theorems about Marketplace, for any number of orders, drivers, worker   *)
(* threads and disputes, any prices and any set of endpoints in use.       *)
(***************************************************************************)
EXTENDS Marketplace, TLAPS

-----------------------------------------------------------------------------
(* Money.                                                                  *)

\* system_settings_service.py: a sum that is rounded half up to the quantum
\* is a natural number of quanta.
LEMMA RoundHalfUpTenIsNat ==
    ASSUME NEW n \in Nat
    PROVE  RoundHalfUp(n, 10) \in Nat
BY DEF RoundHalfUp

\* percent_to_rate: a percentage from 0 to 100 gives a rate from 0 to 1.
LEMMA PercentGivesRate ==
    ASSUME NEW p \in 0..FullPercent
    PROVE  PercentToRate(p) \in Rate
<1>1. RateUnit \in Nat
  BY DEF RateUnit
<1>2. p \in Nat /\ p <= 10 * RateUnit
  BY <1>1 DEF FullPercent
<1>3. /\ (2 * p + 10) \div 20 \in Nat
      /\ (2 * p + 10) \div 20 <= RateUnit
  BY <1>1, <1>2
<1> QED BY <1>1, <1>3 DEF PercentToRate, RoundHalfUp, Rate

\* The product of a price and a rate lies between zero and the price.
LEMMA FeeIsBounded ==
    ASSUME NEW g \in Money, NEW f \in Rate
    PROVE  /\ g * f \in Nat
           /\ g * f <= g * RateUnit
<1>1. f \in Nat /\ f <= RateUnit
  BY DEF Rate, RateUnit
<1>2. g \in Nat /\ RateUnit \in Nat
  BY DEF Money, RateUnit
<1>3. \E e \in Nat : f + e = RateUnit
  <2>1. RateUnit - f \in Nat
    BY <1>1, <1>2
  <2> QED BY <2>1, <1>1, <1>2
<1>4. PICK e \in Nat : f + e = RateUnit
  BY <1>3
<1>5. g * f \in Nat /\ g * e \in Nat
  BY <1>1, <1>2
<1>6. g * RateUnit = g * f + g * e
  BY <1>1, <1>2, <1>4
<1> QED BY <1>5, <1>6

\* calculate_order_income: whatever the rate, the fee and the driver's income
\* add up to the price, and neither is negative.
THEOREM FeeSplitsPrice ==
    ASSUME NEW g \in Money, NEW f \in Rate
    PROVE  /\ OrderIncome(g, f) \in Income
           /\ OrderIncome(g, f).fee + OrderIncome(g, f).income = OrderIncome(g, f).price
           /\ OrderIncome(g, f).income >= 0
<1>1. PICK m \in Nat : m = g * f
  BY FeeIsBounded
<1>2. g \in Nat
  BY DEF Money
<1>3. m <= g * RateUnit
  BY <1>1, FeeIsBounded
<1>4. RoundHalfUp(m, RateUnit) \in Nat /\ RoundHalfUp(m, RateUnit) <= g
  BY <1>2, <1>3 DEF RoundHalfUp, RateUnit
<1>5. SystemFee(g, f) \in Nat /\ SystemFee(g, f) <= g
  BY <1>1, <1>4 DEF SystemFee
<1>6. g - SystemFee(g, f) \in Int /\ g - SystemFee(g, f) >= 0
  BY <1>2, <1>5
<1>7. SystemFee(g, f) + (g - SystemFee(g, f)) = g
  BY <1>2, <1>5
<1> QED BY <1>2, <1>5, <1>6, <1>7 DEF OrderIncome, Income, Money

\* The price an assigned order gets, and its split, have the types of their columns.
LEMMA IncomeIsTyped ==
    ASSUME NEW f \in Rate
    PROVE  /\ \A p \in Prices : OrderIncome(p, f) \in Income
           /\ \A m \in RawPrices : OrderIncome(QuantizeMoney(m), f) \in Income
<1>1. \A p \in Prices : p \in Money
  BY InputsAssumption DEF InputsAssumption
<1>2. \A m \in RawPrices : QuantizeMoney(m) \in Money
  <2> SUFFICES ASSUME NEW m \in RawPrices PROVE QuantizeMoney(m) \in Money
    OBVIOUS
  <2>1. m \in Nat
    BY InputsAssumption DEF InputsAssumption
  <2> QED BY <2>1, RoundHalfUpTenIsNat DEF QuantizeMoney, Money
<1> QED BY <1>1, <1>2, FeeSplitsPrice

-----------------------------------------------------------------------------
(* Type correctness.  By itself it is not inductive: what a Commit writes   *)
(* was read by its Begin, so the types rest on what a request remembers.    *)

OrderOps == UnlockedOps \ {"availability", "delete_account"}
DriverOps == UnlockedOps \ {"publish", "edit", "cancel"}

\* A pending request names the rows it is about; a price change still had a
\* change left when it was read; and a bid that was read still exists, as no
\* handler deletes a bid.
RequestOK(q) ==
    /\ q.op \in OrderOps => q.order \in Orders
    /\ q.op \in DriverOps => q.driver \in Drivers
    /\ q.op = "edit" => q.route \in Routes
    /\ q.op \in {"bid", "update_bid"} => q.price \in Prices
    /\ q.op = "update_bid" => q.bid # None /\ q.bid.updates < MaxBidPriceUpdates
    /\ q.op \in {"update_bid", "reject"} /\ q.bid # None => bids[q.order][q.driver] # None

RequestsOK == \A r \in Slots : req[r] # None => RequestOK(req[r])

TypeInv == MarketTypeOK /\ RequestsOK

LEMMA TypeInit == MarketInit => TypeInv
<1> SUFFICES ASSUME MarketInit PROVE TypeInv
  OBVIOUS
<1> USE DEF MarketInit, Init, DisputesInit
<1>1. orders \in [Orders -> Order]
  <2>1. NoOrder \in Order
    BY DEF NoOrder, Order
  <2> QED BY <2>1
<1>2. bids \in [Orders -> [Drivers -> Bid \cup {None}]]
  OBVIOUS
<1>3. offers \in [Orders -> [Drivers -> OfferResult \cup {None}]]
  OBVIOUS
<1>4. history \in [Orders -> HistoryRow]
  <2>1. NoHistory \in HistoryRow
    BY DEF NoHistory, HistoryRow
  <2> QED BY <2>1
<1>5. drivers \in [Drivers -> Driver]
  BY DEF Driver
<1>6. rate \in Rate
  BY DEF DefaultRate, Rate, RateUnit
<1>7. req \in [Slots -> Request \cup {None}] /\ RequestsOK
  BY DEF RequestsOK
<1>8. DisputesTypeOK
  BY DEF DisputesTypeOK
<1> QED BY <1>1, <1>2, <1>3, <1>4, <1>5, <1>6, <1>7, <1>8 DEF TypeInv, MarketTypeOK, TypeOK

\* A handler's Begin changes no row.
LEMMA TypeBegin ==
    ASSUME TypeInv, NEW r \in Slots, NEW q \in Request, RequestOK(q), Begin(r, q),
           UNCHANGED disputes
    PROVE  TypeInv'
<1> USE DEF TypeInv, MarketTypeOK, TypeOK, Begin, dataVars
<1>1. TypeOK' /\ DisputesTypeOK'
  BY DEF DisputesTypeOK
<1>2. RequestsOK'
  BY DEF RequestsOK, RequestOK
<1> QED BY <1>1, <1>2

\* Requests stay as they are, or one of them ends, while no bid disappears.
LEMMA RequestsKept ==
    ASSUME TypeInv,
           req' \in [Slots -> Request \cup {None}],
           \A r \in Slots : req'[r] \in {req[r], None},
           \A o \in Orders, d \in Drivers : bids[o][d] # None => bids'[o][d] # None
    PROVE  RequestsOK'
<1> SUFFICES ASSUME NEW r \in Slots, req'[r] # None PROVE RequestOK(req[r])'
  BY DEF RequestsOK
<1>1. req'[r] = req[r] /\ RequestOK(req[r])
  BY DEF TypeInv, RequestsOK
<1> QED BY <1>1 DEF RequestOK, OrderOps, DriverOps, UnlockedOps

\* A status write keeps the types of the order and of its history.
LEMMA WriteStatusTyped ==
    ASSUME TypeInv, NEW o \in Orders, NEW row \in Order,
           NEW old \in OrderStatus \cup {None}, NEW by \in Roles \cup {None},
           WriteStatus(o, row, old, by)
    PROVE  orders' \in [Orders -> Order] /\ history' \in [Orders -> HistoryRow]
<1>1. [old |-> old, new |-> row.status, by |-> by] \in HistoryRow
  BY DEF Order, HistoryRow
<1> QED BY <1>1 DEF WriteStatus, TypeInv, MarketTypeOK, TypeOK

LEMMA StatusTyped ==
    ASSUME TypeInv, NEW o \in Orders, NEW s \in OrderStatus
    PROVE  [orders[o] EXCEPT !.status = s] \in Order
<1>1. orders[o] \in Order
  BY DEF TypeInv, MarketTypeOK, TypeOK
<1> QED BY <1>1 DEF Order

\* The columns an acceptance writes together.
LEMMA AssignmentTyped ==
    ASSUME NEW order \in Order, NEW d \in Drivers, NEW b \in Drivers \cup {None},
           NEW income \in Income
    PROVE  [order EXCEPT !.status = "accepted", !.assigned = d,
                         !.acceptedBid = b, !.final = income] \in Order
BY DEF Order, OrderStatus

\* The columns a confirmation writes together.
LEMMA PaymentTyped ==
    ASSUME NEW order \in Order, NEW s \in OrderStatus, NEW paid \in BOOLEAN
    PROVE  [order EXCEPT !.status = s, !.paid = paid] \in Order
BY DEF Order

\* A Commit frees its thread and nothing else changes in the requests.
LEMMA FinishTyped ==
    ASSUME TypeInv, NEW r \in Slots, Finish(r)
    PROVE  /\ req' \in [Slots -> Request \cup {None}]
           /\ \A x \in Slots : req'[x] \in {req[x], None}
BY DEF Finish, TypeInv, MarketTypeOK, TypeOK

\* What a pending request remembers, with its type.
LEMMA PendingTyped ==
    ASSUME TypeInv, NEW r \in Slots, NEW op \in UnlockedOps, Pending(r, op)
    PROVE  req[r] \in Request /\ RequestOK(req[r]) /\ req[r].op = op
BY DEF Pending, TypeInv, MarketTypeOK, TypeOK, RequestsOK

LEMMA ClientTypes ==
    ASSUME TypeInv, ClientNext, UNCHANGED disputes
    PROVE  TypeInv'
<1> USE DEF TypeInv, MarketTypeOK, TypeOK, DisputesTypeOK
<1>1. ASSUME NEW o \in Orders, NEW rt \in Routes, CreateOrderDraft(o, rt)
      PROVE  TypeInv'
  <2>1. [NoOrder EXCEPT !.status = "draft", !.route = rt] \in Order
    BY DEF NoOrder, Order, OrderStatus
  <2>2. orders' \in [Orders -> Order] /\ history' \in [Orders -> HistoryRow]
    BY <1>1, <2>1, WriteStatusTyped DEF CreateOrderDraft, Roles
  <2>3. RequestsOK'
    BY <1>1, RequestsKept DEF CreateOrderDraft
  <2> QED BY <1>1, <2>2, <2>3 DEF CreateOrderDraft
<1>2. ASSUME NEW o \in Orders, NEW d \in Drivers, SelectDriver(o, d)
      PROVE  TypeInv'
  <2>1. bids[o] \in [Drivers -> Bid \cup {None}] /\ bids[o][d] \in Bid
    BY <1>2 DEF SelectDriver, CanSelect
  <2>2. BidsAfterSelection(o, d) \in [Drivers -> Bid \cup {None}]
    BY <2>1 DEF BidsAfterSelection, Bid, BidStatus
  <2>3. \A x \in Drivers : bids[o][x] # None => BidsAfterSelection(o, d)[x] # None
    <3> SUFFICES ASSUME NEW x \in Drivers, bids[o][x] # None
                 PROVE  BidsAfterSelection(o, d)[x] # None
      OBVIOUS
    <3>1. bids[o][x] \in Bid
      BY <2>1
    <3>2. BidsAfterSelection(o, d)[x] \in Bid
      BY <3>1 DEF BidsAfterSelection, Bid, BidStatus
    <3> QED BY <3>2, NoneIsFresh DEF NoneIsFresh
  <2>4. bids' = [bids EXCEPT ![o] = BidsAfterSelection(o, d)]
    BY <1>2 DEF SelectDriver
  <2>5. bids' \in [Orders -> [Drivers -> Bid \cup {None}]]
    BY <2>2, <2>4
  <2>6. RequestsOK'
    BY <1>2, <2>3, <2>4, RequestsKept DEF SelectDriver
  <2>7. OrderIncome(AgreedPrice(o, d), rate) \in Income
    BY <2>1, IncomeIsTyped DEF AgreedPrice, Bid
  <2>8. [orders[o] EXCEPT !.status = "accepted", !.assigned = d, !.acceptedBid = d,
                          !.final = OrderIncome(AgreedPrice(o, d), rate)] \in Order
    <3>1. orders[o] \in Order
      OBVIOUS
    <3> QED BY <2>7, <3>1, AssignmentTyped
  <2>9. orders' \in [Orders -> Order] /\ history' \in [Orders -> HistoryRow]
    BY <1>2, <2>8, WriteStatusTyped DEF SelectDriver, Roles, OrderStatus
  <2>10. offers' \in [Orders -> [Drivers -> OfferResult \cup {None}]]
    BY <1>2 DEF SelectDriver, OfferResult
  <2> QED BY <1>2, <2>5, <2>6, <2>9, <2>10 DEF SelectDriver
<1>3. ASSUME NEW o \in Orders, ConfirmDelivered(o)
      PROVE  TypeInv'
  <2>1. [orders[o] EXCEPT !.status = "confirmed", !.paid = TRUE] \in Order
    <3>1. orders[o] \in Order
      OBVIOUS
    <3> QED BY <3>1, PaymentTyped DEF OrderStatus
  <2>2. orders' \in [Orders -> Order] /\ history' \in [Orders -> HistoryRow]
    BY <1>3, <2>1, WriteStatusTyped DEF ConfirmDelivered, Roles, OrderStatus
  <2>3. RequestsOK'
    BY <1>3, RequestsKept DEF ConfirmDelivered
  <2> QED BY <1>3, <2>2, <2>3 DEF ConfirmDelivered
<1>4. ASSUME NEW r \in Slots, NEW o \in Orders, NEW op \in {"publish", "cancel", "edit"},
             NEW rt \in Routes \cup {None}, op = "edit" => rt \in Routes,
             Begin(r, ClientRequest(op, o, rt))
      PROVE  TypeInv'
  <2>1. ClientRequest(op, o, rt) \in Request
    BY DEF ClientRequest, Request, UnlockedOps, Order
  <2>2. RequestOK(ClientRequest(op, o, rt))
    BY <1>4 DEF ClientRequest, RequestOK, DriverOps
  <2> QED BY <1>4, <2>1, <2>2, TypeBegin
<1>5. ASSUME NEW r \in Slots, CommitPublish(r)
      PROVE  TypeInv'
  <2> DEFINE o == req[r].order
  <2>1. o \in Orders /\ req[r].seen \in OrderStatus \cup {None}
    BY <1>5, PendingTyped DEF CommitPublish, UnlockedOps, OrderOps, RequestOK, Request
  <2>2. [orders[o] EXCEPT !.status = "published"] \in Order
    BY <2>1, StatusTyped DEF OrderStatus
  <2>3. orders' \in [Orders -> Order] /\ history' \in [Orders -> HistoryRow]
    BY <1>5, <2>1, <2>2, WriteStatusTyped DEF CommitPublish, Roles
  <2>4. OffersAfterPublish(o, req[r].route) \in [Drivers -> OfferResult \cup {None}]
    BY <2>1 DEF OffersAfterPublish, OfferResult
  <2>5. offers' \in [Orders -> [Drivers -> OfferResult \cup {None}]]
    BY <1>5, <2>1, <2>4 DEF CommitPublish
  <2>6. req' \in [Slots -> Request \cup {None}] /\ RequestsOK'
    BY <1>5, FinishTyped, RequestsKept DEF CommitPublish
  <2> QED BY <1>5, <2>3, <2>5, <2>6 DEF CommitPublish
<1>6. ASSUME NEW r \in Slots, CommitEdit(r)
      PROVE  TypeInv'
  <2>1. req[r].order \in Orders /\ req[r].route \in Routes
    BY <1>6, PendingTyped DEF CommitEdit, UnlockedOps, OrderOps, RequestOK
  <2>2. orders' \in [Orders -> Order]
    BY <1>6, <2>1, ZenonT(40) DEF CommitEdit, Order
  <2>3. req' \in [Slots -> Request \cup {None}] /\ RequestsOK'
    BY <1>6, FinishTyped, RequestsKept DEF CommitEdit
  <2> QED BY <1>6, <2>2, <2>3 DEF CommitEdit
<1>7. ASSUME NEW r \in Slots, CommitCancel(r)
      PROVE  TypeInv'
  <2> DEFINE o == req[r].order
  <2>1. o \in Orders /\ req[r].seen \in OrderStatus \cup {None}
    BY <1>7, PendingTyped DEF CommitCancel, UnlockedOps, OrderOps, RequestOK, Request
  <2>2. [orders[o] EXCEPT !.status = "cancelled"] \in Order
    BY <2>1, StatusTyped DEF OrderStatus
  <2>3. orders' \in [Orders -> Order] /\ history' \in [Orders -> HistoryRow]
    BY <1>7, <2>1, <2>2, WriteStatusTyped DEF CommitCancel, Roles
  <2>4. req' \in [Slots -> Request \cup {None}] /\ RequestsOK'
    BY <1>7, FinishTyped, RequestsKept DEF CommitCancel
  <2> QED BY <1>7, <2>3, <2>4 DEF CommitCancel
<1>8. ASSUME NEW r \in Slots, NEW o \in Orders, BeginPublish(r, o)
      PROVE  TypeInv'
  <2>1. orders[o].route \in Routes \cup {None}
    BY DEF Order
  <2> QED BY <1>4, <1>8, <2>1 DEF BeginPublish
<1> QED BY <1>1, <1>2, <1>3, <1>4, <1>5, <1>6, <1>7, <1>8
        DEF ClientNext, BeginCancel, BeginEdit

LEMMA DriverTypes ==
    ASSUME TypeInv, DriverNext, UNCHANGED disputes
    PROVE  TypeInv'
<1> USE DEF TypeInv, MarketTypeOK, TypeOK, DisputesTypeOK
<1>1. ASSUME NEW r \in Slots, NEW o \in Orders, NEW d \in Drivers, NEW p \in Prices,
             BeginBid(r, o, d, p)
      PROVE  TypeInv'
  <2> DEFINE q == DriverRequest("bid", o, d, p)
  <2>1. q \in Request
    BY DEF DriverRequest, Request, UnlockedOps, Order
  <2>2. RequestOK(q)
    BY DEF DriverRequest, RequestOK
  <2> QED BY <1>1, <2>1, <2>2, TypeBegin DEF BeginBid
<1>2. ASSUME NEW r \in Slots, NEW o \in Orders, NEW d \in Drivers, NEW p \in Prices,
             BeginUpdateBid(r, o, d, p)
      PROVE  TypeInv'
  <2> DEFINE q == DriverRequest("update_bid", o, d, p)
  <2>1. q \in Request
    BY DEF DriverRequest, Request, UnlockedOps, Order
  <2>2. RequestOK(q)
    BY <1>2 DEF DriverRequest, RequestOK, BeginUpdateBid, CanChangePrice
  <2> QED BY <1>2, <2>1, <2>2, TypeBegin DEF BeginUpdateBid
<1>3. ASSUME NEW r \in Slots, NEW o \in Orders, NEW d \in Drivers, BeginReject(r, o, d)
      PROVE  TypeInv'
  <2> DEFINE q == DriverRequest("reject", o, d, None)
  <2>1. q \in Request
    BY DEF DriverRequest, Request, UnlockedOps, Order
  <2>2. RequestOK(q)
    BY DEF DriverRequest, RequestOK
  <2> QED BY <1>3, <2>1, <2>2, TypeBegin DEF BeginReject
<1>4. ASSUME NEW r \in Slots, NEW o \in Orders, NEW d \in Drivers,
             NEW op \in {"mark", "driver_cancel"}, BeginDelivery(r, op, o, d)
      PROVE  TypeInv'
  <2> DEFINE q == [op |-> op, order |-> o, driver |-> d, seen |-> None,
                   bid |-> None, offer |-> None, price |-> None, route |-> None,
                   online |-> FALSE]
  <2>1. q \in Request
    BY DEF Request, UnlockedOps
  <2>2. RequestOK(q)
    BY DEF RequestOK
  <2> QED BY <1>4, <2>1, <2>2, TypeBegin DEF BeginDelivery
<1>5. ASSUME NEW r \in Slots, CommitBid(r)
      PROVE  TypeInv'
  <2> PICK o \in Orders, d \in Drivers, p \in Prices :
             o = req[r].order /\ d = req[r].driver /\ p = req[r].price
    BY <1>5, PendingTyped DEF CommitBid, UnlockedOps, OrderOps, DriverOps, RequestOK
  <2> DEFINE bid == [status |-> "active", price |-> p, updates |-> 0]
  <2>1. bid \in Bid
    BY DEF Bid, BidStatus, MaxBidPriceUpdates
  <2>2. bids' = [bids EXCEPT ![o][d] = bid]
    BY <1>5 DEF CommitBid
  <2>3. bids' \in [Orders -> [Drivers -> Bid \cup {None}]]
    BY <2>1, <2>2
  <2>4. \A x \in Orders, y \in Drivers : bids[x][y] # None => bids'[x][y] # None
    BY <2>1, <2>2, NoneIsFresh DEF NoneIsFresh
  <2>5. offers' \in [Orders -> [Drivers -> OfferResult \cup {None}]]
    BY <1>5 DEF CommitBid, OfferResult
  <2>6. orders' \in [Orders -> Order] /\ history' \in [Orders -> HistoryRow]
    <3>1. CASE req[r].seen = "published"
      BY <1>5, <3>1, WriteStatusTyped, StatusTyped DEF CommitBid, OrderStatus, Roles
    <3>2. CASE req[r].seen # "published"
      BY <1>5, <3>2 DEF CommitBid
    <3> QED BY <3>1, <3>2
  <2>7. req' \in [Slots -> Request \cup {None}] /\ RequestsOK'
    BY <1>5, <2>4, FinishTyped, RequestsKept DEF CommitBid
  <2> QED BY <1>5, <2>3, <2>5, <2>6, <2>7 DEF CommitBid
<1>6. ASSUME NEW r \in Slots, CommitUpdateBid(r)
      PROVE  TypeInv'
  <2> PICK o \in Orders, d \in Drivers, p \in Prices, read \in Bid :
             /\ o = req[r].order /\ d = req[r].driver
             /\ p = req[r].price /\ read = req[r].bid
             /\ read.updates < MaxBidPriceUpdates
             /\ bids[o][d] # None
    <3>1. req[r] \in Request /\ RequestOK(req[r]) /\ req[r].op = "update_bid"
      BY <1>6, PendingTyped DEF CommitUpdateBid, UnlockedOps
    <3>2. req[r].bid \in Bid
      BY <3>1 DEF Request, RequestOK
    <3> QED BY <3>1, <3>2 DEF UnlockedOps, OrderOps, DriverOps, RequestOK
  <2> DEFINE bid == Repriced(bids[o][d], read, p)
  <2>1. bid \in Bid
    <3>1. bids[o][d] \in Bid
      OBVIOUS
    <3>2. read.updates + 1 \in 0..MaxBidPriceUpdates
      BY DEF Bid, MaxBidPriceUpdates
    <3> QED BY <3>1, <3>2 DEF Repriced, Bid
  <2>2. bids' = [bids EXCEPT ![o][d] = bid]
    BY <1>6 DEF CommitUpdateBid
  <2>3. bids' \in [Orders -> [Drivers -> Bid \cup {None}]]
    BY <2>1, <2>2
  <2>4. \A x \in Orders, y \in Drivers : bids[x][y] # None => bids'[x][y] # None
    BY <2>1, <2>2, NoneIsFresh DEF NoneIsFresh
  <2>5. req' \in [Slots -> Request \cup {None}] /\ RequestsOK'
    BY <1>6, <2>4, FinishTyped, RequestsKept DEF CommitUpdateBid
  <2> QED BY <1>6, <2>3, <2>5 DEF CommitUpdateBid
<1>7. ASSUME NEW r \in Slots, CommitReject(r)
      PROVE  TypeInv'
  <2> PICK o \in Orders, d \in Drivers :
             /\ o = req[r].order /\ d = req[r].driver
             /\ req[r].bid # None => bids[o][d] # None
    BY <1>7, PendingTyped DEF CommitReject, UnlockedOps, OrderOps, DriverOps, RequestOK
  <2> DEFINE bid == BidDeclined(bids[o][d], req[r].bid)
  <2>1. bid \in Bid \cup {None} /\ (bids[o][d] # None => bid \in Bid)
    <3>1. bids[o][d] \in Bid \cup {None}
      OBVIOUS
    <3>2. \A b \in Bid : [b EXCEPT !.status = "rejected"] \in Bid
      BY DEF Bid, BidStatus
    <3>3. req[r].bid = None => bid = bids[o][d]
      BY DEF BidDeclined
    <3>4. req[r].bid # None => bid \in Bid
      BY <3>1, <3>2 DEF BidDeclined
    <3> QED BY <3>1, <3>3, <3>4
  <2>2. bids' = [bids EXCEPT ![o][d] = bid]
    BY <1>7 DEF CommitReject
  <2>3. bids' \in [Orders -> [Drivers -> Bid \cup {None}]]
    BY <2>1, <2>2
  <2>4. \A x \in Orders, y \in Drivers : bids[x][y] # None => bids'[x][y] # None
    BY <2>1, <2>2, NoneIsFresh DEF NoneIsFresh
  <2>5. offers' \in [Orders -> [Drivers -> OfferResult \cup {None}]]
    BY <1>7 DEF CommitReject, OfferResult
  <2>6. req' \in [Slots -> Request \cup {None}] /\ RequestsOK'
    BY <1>7, <2>4, FinishTyped, RequestsKept DEF CommitReject
  <2> QED BY <1>7, <2>3, <2>5, <2>6 DEF CommitReject
<1>8. ASSUME NEW r \in Slots, CommitMark(r)
      PROVE  TypeInv'
  <2> PICK o \in Orders : o = req[r].order
    BY <1>8, PendingTyped DEF CommitMark, UnlockedOps, OrderOps, RequestOK
  <2>1. orders[o].status \in OrderStatus /\ DriverTransition[orders[o].status] \in OrderStatus
    BY <1>8 DEF CommitMark, DriverTransition, OrderStatus
  <2>2. orders' \in [Orders -> Order] /\ history' \in [Orders -> HistoryRow]
    BY <1>8, <2>1, WriteStatusTyped, StatusTyped DEF CommitMark, Roles
  <2>3. req' \in [Slots -> Request \cup {None}] /\ RequestsOK'
    BY <1>8, FinishTyped, RequestsKept DEF CommitMark
  <2> QED BY <1>8, <2>2, <2>3 DEF CommitMark
<1>9. ASSUME NEW r \in Slots, CommitDriverCancel(r)
      PROVE  TypeInv'
  <2> PICK o \in Orders : o = req[r].order
    BY <1>9, PendingTyped DEF CommitDriverCancel, UnlockedOps, OrderOps, RequestOK
  <2>1. orders' \in [Orders -> Order] /\ history' \in [Orders -> HistoryRow]
    BY <1>9, WriteStatusTyped, StatusTyped DEF CommitDriverCancel, Roles, OrderStatus
  <2>2. req' \in [Slots -> Request \cup {None}] /\ RequestsOK'
    BY <1>9, FinishTyped, RequestsKept DEF CommitDriverCancel
  <2> QED BY <1>9, <2>1, <2>2 DEF CommitDriverCancel
<1> QED BY <1>1, <1>2, <1>3, <1>4, <1>5, <1>6, <1>7, <1>8, <1>9 DEF DriverNext

LEMMA StaffTypes ==
    ASSUME TypeInv, StaffNext, UNCHANGED disputes
    PROVE  TypeInv'
<1> USE DEF TypeInv, MarketTypeOK, TypeOK, DisputesTypeOK
<1>1. ASSUME NEW o \in Orders, NEW role \in StaffRoles, CancelOrderManually(o, role)
      PROVE  TypeInv'
  <2>1. BidsClosed(o) \in [Drivers -> Bid \cup {None}]
    <3>1. bids[o] \in [Drivers -> Bid \cup {None}]
      OBVIOUS
    <3>2. \A b \in Bid : [b EXCEPT !.status = "closed"] \in Bid
      BY DEF Bid, BidStatus
    <3> QED BY <3>1, <3>2 DEF BidsClosed, HasActiveBid
  <2>2. \A x \in Drivers : bids[o][x] # None => BidsClosed(o)[x] # None
    <3>1. \A x \in Drivers : bids[o][x] # None => bids[o][x] \in Bid
      OBVIOUS
    <3>2. \A b \in Bid : [b EXCEPT !.status = "closed"] \in Bid
      BY DEF Bid, BidStatus
    <3> QED BY <3>1, <3>2, NoneIsFresh DEF BidsClosed, HasActiveBid, NoneIsFresh
  <2>3. bids' = [bids EXCEPT ![o] = BidsClosed(o)]
    BY <1>1 DEF CancelOrderManually
  <2>4. bids' \in [Orders -> [Drivers -> Bid \cup {None}]]
    BY <2>1, <2>3
  <2>5. orders[o].status \in OrderStatus \cup {None}
    BY DEF Order
  <2>6. orders' \in [Orders -> Order] /\ history' \in [Orders -> HistoryRow]
    BY <1>1, <2>5, WriteStatusTyped, StatusTyped
       DEF CancelOrderManually, OrderStatus, Roles, StaffRoles
  <2>7. RequestsOK'
    BY <1>1, <2>2, <2>3, RequestsKept DEF CancelOrderManually
  <2> QED BY <1>1, <2>4, <2>6, <2>7 DEF CancelOrderManually
<1>2. ASSUME NEW o \in Orders, NEW target \in OrderStatus, NEW role \in StaffRoles,
             UpdateOrderStatus(o, target, role)
      PROVE  TypeInv'
  <2>1. orders[o].status \in OrderStatus \cup {None}
    BY DEF Order
  <2>2. [orders[o] EXCEPT !.status = target, !.paid = PaidAfter(o, target)] \in Order
    <3>1. orders[o] \in Order
      OBVIOUS
    <3>2. PaidAfter(o, target) \in BOOLEAN
      BY <3>1 DEF PaidAfter, Order
    <3> QED BY <3>1, <3>2, PaymentTyped
  <2>3. orders' \in [Orders -> Order] /\ history' \in [Orders -> HistoryRow]
    BY <1>2, <2>1, <2>2, WriteStatusTyped DEF UpdateOrderStatus, Roles, StaffRoles
  <2>4. RequestsOK'
    BY <1>2, RequestsKept DEF UpdateOrderStatus
  <2> QED BY <1>2, <2>3, <2>4 DEF UpdateOrderStatus
<1>3. ASSUME NEW o \in Orders, NEW d \in Drivers, NEW mills \in RawPrices,
             NEW role \in StaffRoles, AssignDriver(o, d, mills, role)
      PROVE  TypeInv'
  <2> DEFINE income == OrderIncome(QuantizeMoney(mills), rate)
             acceptedBid == IF HasActiveBid(o, d) THEN d ELSE None
             row == [orders[o] EXCEPT !.status = "accepted", !.assigned = d,
                                      !.acceptedBid = acceptedBid, !.final = income]
  <2>1. BidsAfterAssignment(o, d) \in [Drivers -> Bid \cup {None}]
    <3>1. bids[o] \in [Drivers -> Bid \cup {None}]
      OBVIOUS
    <3>2. \A b \in Bid, s \in {"accepted", "closed"} : [b EXCEPT !.status = s] \in Bid
      BY DEF Bid, BidStatus
    <3> QED BY <3>1, <3>2 DEF BidsAfterAssignment, HasActiveBid
  <2>2. \A x \in Drivers : bids[o][x] # None => BidsAfterAssignment(o, d)[x] # None
    <3> SUFFICES ASSUME NEW x \in Drivers, bids[o][x] # None
                 PROVE  BidsAfterAssignment(o, d)[x] \in Bid
      BY NoneIsFresh DEF NoneIsFresh
    <3>1. bids[o][x] \in Bid
      OBVIOUS
    <3> QED BY <3>1 DEF BidsAfterAssignment, HasActiveBid, Bid, BidStatus
  <2>3. bids' = [bids EXCEPT ![o] = BidsAfterAssignment(o, d)]
    BY <1>3 DEF AssignDriver
  <2>4. bids' \in [Orders -> [Drivers -> Bid \cup {None}]]
    BY <2>1, <2>3
  <2>5. income \in Income
    BY IncomeIsTyped
  <2>6. row \in Order
    <3>1. acceptedBid \in Drivers \cup {None}
      OBVIOUS
    <3>2. orders[o] \in Order
      OBVIOUS
    <3> HIDE DEF income, acceptedBid
    <3> QED BY <2>5, <3>1, <3>2, AssignmentTyped
  <2>7. orders[o].status \in OrderStatus \cup {None}
    BY DEF Order
  <2>8. orders' \in [Orders -> Order] /\ history' \in [Orders -> HistoryRow]
    BY <1>3, <2>6, <2>7, WriteStatusTyped DEF AssignDriver, Roles, StaffRoles
  <2>9. RequestsOK'
    BY <1>3, <2>2, <2>3, RequestsKept DEF AssignDriver
  <2> QED BY <1>3, <2>4, <2>8, <2>9 DEF AssignDriver
<1>4. ASSUME NEW p \in Percents, UpdateDriverCommission(p)
      PROVE  TypeInv'
  <2>1. p \in 0..FullPercent
    BY InputsAssumption DEF InputsAssumption
  <2>2. rate' \in Rate
    BY <1>4, <2>1, PercentGivesRate DEF UpdateDriverCommission
  <2>3. RequestsOK'
    BY <1>4, RequestsKept DEF UpdateDriverCommission
  <2> QED BY <1>4, <2>2, <2>3 DEF UpdateDriverCommission
<1> QED BY <1>1, <1>2, <1>3, <1>4 DEF StaffNext

\* A driver's row is replaced by another.
LEMMA DriverRowTyped ==
    ASSUME drivers \in [Drivers -> Driver], NEW d \in Drivers, NEW row \in Driver,
           drivers' = [drivers EXCEPT ![d] = row]
    PROVE  drivers' \in [Drivers -> Driver]
OBVIOUS

LEMMA AccountTypes ==
    ASSUME TypeInv, AccountNext, UNCHANGED disputes
    PROVE  TypeInv'
<1> USE DEF TypeInv, MarketTypeOK, TypeOK, DisputesTypeOK
<1>1. ASSUME NEW d \in Drivers, GoOffline(d)
      PROVE  TypeInv'
  <2>1. drivers' \in [Drivers -> Driver]
    BY <1>1 DEF GoOffline, Driver
  <2>2. RequestsOK'
    BY <1>1, RequestsKept DEF GoOffline
  <2> QED BY <1>1, <2>1, <2>2 DEF GoOffline
<1>2. ASSUME NEW d \in Drivers, BlockDriver(d)
      PROVE  TypeInv'
  <2>1. drivers' \in [Drivers -> Driver]
    BY <1>2 DEF BlockDriver, Driver
  <2>2. RequestsOK'
    BY <1>2, RequestsKept DEF BlockDriver
  <2> QED BY <1>2, <2>1, <2>2 DEF BlockDriver
<1>3. ASSUME NEW r \in Slots, NEW d \in Drivers, NEW op \in {"availability", "delete_account"},
             Begin(r, AccountRequest(op, d))
      PROVE  TypeInv'
  <2>1. AccountRequest(op, d) \in Request
    <3>1. drivers[d].available \in BOOLEAN
      BY DEF Driver
    <3> QED BY <3>1 DEF AccountRequest, Request, UnlockedOps
  <2>2. RequestOK(AccountRequest(op, d))
    BY DEF AccountRequest, RequestOK, OrderOps
  <2> QED BY <1>3, <2>1, <2>2, TypeBegin
<1>4. ASSUME NEW r \in Slots, CommitGoOnline(r)
      PROVE  TypeInv'
  <2>1. req[r].driver \in Drivers
    BY <1>4, PendingTyped DEF CommitGoOnline, UnlockedOps, DriverOps, RequestOK
  <2>2. drivers' \in [Drivers -> Driver]
    BY <1>4, <2>1, ZenonT(40) DEF CommitGoOnline, Driver
  <2>3. req' \in [Slots -> Request \cup {None}] /\ RequestsOK'
    BY <1>4, FinishTyped, RequestsKept DEF CommitGoOnline
  <2> QED BY <1>4, <2>2, <2>3 DEF CommitGoOnline
<1>5. ASSUME NEW r \in Slots, CommitDeleteAccount(r)
      PROVE  TypeInv'
  <2>1. req[r].driver \in Drivers
    BY <1>5, PendingTyped DEF CommitDeleteAccount, UnlockedOps, DriverOps, RequestOK
  <2>2. drivers' \in [Drivers -> Driver]
    <3> DEFINE d == req[r].driver
               available == drivers[d].available /\ ~req[r].online
               row == [drivers[d] EXCEPT !.available = available,
                                         !.user = "deleted", !.routes = {}]
    <3>1. drivers[d] \in Driver
      BY <2>1
    <3>2. available \in BOOLEAN
      OBVIOUS
    <3> HIDE DEF available
    <3>3. row \in Driver
      BY <3>1, <3>2 DEF Driver
    <3>4. drivers' = [drivers EXCEPT ![d] = row]
      BY <1>5 DEF CommitDeleteAccount, available
    <3>5. d \in Drivers /\ drivers \in [Drivers -> Driver]
      BY <2>1
    <3> HIDE DEF row, d
    <3> QED BY <3>3, <3>4, <3>5, DriverRowTyped
  <2>3. req' \in [Slots -> Request \cup {None}] /\ RequestsOK'
    BY <1>5, FinishTyped, RequestsKept DEF CommitDeleteAccount
  <2> QED BY <1>5, <2>2, <2>3 DEF CommitDeleteAccount
<1> QED BY <1>1, <1>2, <1>3, <1>4, <1>5
        DEF AccountNext, BeginGoOnline, BeginDeleteAccount

LEMMA DisputeTypes ==
    ASSUME TypeInv, DisputeNext
    PROVE  TypeInv'
<1> USE DEF TypeInv, MarketTypeOK, TypeOK, DisputesTypeOK
<1>1. ASSUME NEW k \in DisputeIds, NEW o \in Orders, NEW role \in Roles, OpenDispute(k, o, role)
      PROVE  TypeInv'
  <2>1. orders[o].status \in AdminDisputable
    BY <1>1 DEF OpenDispute, MayOpen, AdminDisputable, Roles
  <2>2. disputes' \in [DisputeIds -> Dispute \cup {None}]
    BY <1>1, <2>1 DEF OpenDispute, Dispute, ActiveDispute
  <2>3. orders' \in [Orders -> Order] /\ history' \in [Orders -> HistoryRow]
    <3>1. orders[o].status \in OrderStatus
      BY <2>1 DEF AdminDisputable, UserDisputable, OrderStatus
    <3> QED BY <1>1, <3>1, WriteStatusTyped, StatusTyped DEF OpenDispute, OrderStatus
  <2>4. RequestsOK'
    BY <1>1, RequestsKept DEF OpenDispute
  <2> QED BY <1>1, <2>2, <2>3, <2>4 DEF OpenDispute
<1>2. ASSUME NEW k \in DisputeIds, NEW target \in ActiveDispute \cup FinalDispute,
             NEW role \in StaffRoles, UpdateDispute(k, target, role)
      PROVE  TypeInv'
  <2>1. disputes[k] \in Dispute
    BY <1>2 DEF UpdateDispute, CanUpdateDispute
  <2>2. disputes' \in [DisputeIds -> Dispute \cup {None}]
    BY <1>2, <2>1 DEF UpdateDispute, Dispute
  <2>3. orders' \in [Orders -> Order] /\ history' \in [Orders -> HistoryRow]
    <3>1. CASE RestoresOrder(k, target)
      <4>1. disputes[k].order \in Orders /\ RestoredStatus(k) \in OrderStatus
        BY <2>1 DEF Dispute, RestoredStatus, AdminDisputable, UserDisputable, OrderStatus
      <4> QED BY <1>2, <3>1, <4>1, WriteStatusTyped, StatusTyped
              DEF UpdateDispute, OrderStatus, Roles, StaffRoles
    <3>2. CASE ~RestoresOrder(k, target)
      BY <1>2, <3>2 DEF UpdateDispute
    <3> QED BY <3>1, <3>2
  <2>4. RequestsOK'
    BY <1>2, RequestsKept DEF UpdateDispute
  <2> QED BY <1>2, <2>2, <2>3, <2>4 DEF UpdateDispute
<1> QED BY <1>1, <1>2 DEF DisputeNext

LEMMA TypeStep == TypeInv /\ [Next]_vars => TypeInv'
<1> SUFFICES ASSUME TypeInv, [Next]_vars PROVE TypeInv'
  OBVIOUS
<1>1. ASSUME NEW r \in Slots, Abort(r), UNCHANGED disputes
      PROVE  TypeInv'
  <2>1. req' \in [Slots -> Request \cup {None}] /\ RequestsOK'
    BY <1>1, FinishTyped, RequestsKept DEF Abort, dataVars
  <2> QED BY <1>1, <2>1
          DEF Abort, dataVars, TypeInv, MarketTypeOK, TypeOK, DisputesTypeOK
<1>2. CASE UNCHANGED vars
  BY <1>2 DEF vars, TypeInv, MarketTypeOK, TypeOK, DisputesTypeOK, RequestsOK, RequestOK
<1> QED BY <1>1, <1>2, ClientTypes, DriverTypes, StaffTypes, AccountTypes, DisputeTypes
        DEF Next

\* Whatever order requests begin, commit and fail in, every row has the types
\* of its columns: rounding leaves no negative fee, the stale counter of a bid
\* never passes the three price changes, a dispute remembers a status it can
\* restore.
THEOREM TypeCorrect == Spec => []MarketTypeOK
<1>1. TypeInv => MarketTypeOK
  BY DEF TypeInv
<1> QED BY <1>1, TypeInit, TypeStep, PTL DEF Spec

LEMMA TypeInvHolds == Spec => []TypeInv
BY TypeInit, TypeStep, PTL DEF Spec

-----------------------------------------------------------------------------
(* What a handler outside dispute_service.py can do to the orders table.    *)

\* What calculate_order_income returns: the two shares add up to the price.
FairIncome == {f \in Income : f.fee + f.income = f.price /\ f.income >= 0}

\* Whatever price and rate an assignment finds.
LEMMA IncomeIsFair ==
    ASSUME NEW f \in Rate
    PROVE  /\ \A p \in Prices : OrderIncome(p, f) \in FairIncome
           /\ \A m \in RawPrices : OrderIncome(QuantizeMoney(m), f) \in FairIncome
<1>1. \A p \in Prices : p \in Money
  BY InputsAssumption DEF InputsAssumption
<1>2. \A m \in RawPrices : QuantizeMoney(m) \in Money
  <2> SUFFICES ASSUME NEW m \in RawPrices PROVE QuantizeMoney(m) \in Money
    OBVIOUS
  <2>1. m \in Nat
    BY InputsAssumption DEF InputsAssumption
  <2> QED BY <2>1, RoundHalfUpTenIsNat DEF QuantizeMoney, Money
<1> QED BY <1>1, <1>2, FeeSplitsPrice DEF FairIncome

Restatus(o, s) == orders' = [orders EXCEPT ![o] = [orders[o] EXCEPT !.status = s]]

Starts(o, rt) ==
    orders' = [orders EXCEPT ![o] = [NoOrder EXCEPT !.status = "draft", !.route = rt]]

Settles(o, s, paid) ==
    orders' = [orders EXCEPT ![o] = [orders[o] EXCEPT !.status = s, !.paid = paid]]

Accepts(o, d, b, f) ==
    /\ b # None => b = d /\ bids[o][d] # None
    /\ orders' = [orders EXCEPT ![o] = [orders[o] EXCEPT !.status = "accepted", !.assigned = d,
                                                         !.acceptedBid = b, !.final = f]]

OrderEffect ==
    \/ UNCHANGED orders
    \/ \E o \in Orders, rt \in Routes :
          orders[o].status = None /\ Starts(o, rt)
    \/ \E o \in Orders, rt \in Routes : orders' = [orders EXCEPT ![o].route = rt]
    \/ \E o \in Orders, s \in {"published", "bidding", "cancelled"} : Restatus(o, s)
    \/ \E o \in Orders, d \in Drivers, b \in Drivers \cup {None}, f \in FairIncome :
          Accepts(o, d, b, f)
    \/ \E o \in Orders, s \in {"picked_up", "in_transit", "delivered"} :
          orders[o].status \in Assigned /\ Restatus(o, s)
    \/ \E o \in Orders :
          orders[o].status = "delivered" /\ Settles(o, "confirmed", TRUE)
    \/ \E o \in Orders, s \in OrderStatus :
          "admin_status" \in Ops /\ Settles(o, s, PaidAfter(o, s))

LEMMA HandlerEffect ==
    ASSUME TypeInv,
           ClientNext \/ DriverNext \/ StaffNext \/ AccountNext \/ \E r \in Slots : Abort(r)
    PROVE  OrderEffect
<1>1. ASSUME ClientNext PROVE OrderEffect
  <2>1. ASSUME NEW o \in Orders, NEW rt \in Routes, CreateOrderDraft(o, rt) PROVE OrderEffect
    BY <2>1 DEF CreateOrderDraft, WriteStatus, OrderEffect, Starts
  <2>2. ASSUME NEW o \in Orders, NEW d \in Drivers, SelectDriver(o, d) PROVE OrderEffect
    <3>1. bids[o][d] \in Bid /\ rate \in Rate
      BY <2>2 DEF SelectDriver, CanSelect, TypeInv, MarketTypeOK, TypeOK
    <3>2. OrderIncome(AgreedPrice(o, d), rate) \in FairIncome
      BY <3>1, IncomeIsFair DEF AgreedPrice, Bid
    <3>3. bids[o][d] # None
      BY <2>2 DEF SelectDriver, CanSelect
    <3> QED BY <2>2, <3>2, <3>3 DEF SelectDriver, WriteStatus, OrderEffect, Accepts
  <2>3. ASSUME NEW o \in Orders, ConfirmDelivered(o) PROVE OrderEffect
    BY <2>3 DEF ConfirmDelivered, CanConfirm, WriteStatus, OrderEffect, Settles
  <2>4. ASSUME NEW r \in Slots, CommitPublish(r) PROVE OrderEffect
    <3>1. req[r].order \in Orders
      BY <2>4, PendingTyped DEF CommitPublish, UnlockedOps, OrderOps, RequestOK
    <3> QED BY <2>4, <3>1 DEF CommitPublish, WriteStatus, OrderEffect, Restatus
  <2>5. ASSUME NEW r \in Slots, CommitEdit(r) PROVE OrderEffect
    <3>1. req[r].order \in Orders /\ req[r].route \in Routes
      BY <2>5, PendingTyped DEF CommitEdit, UnlockedOps, OrderOps, RequestOK
    <3> QED BY <2>5, <3>1 DEF CommitEdit, OrderEffect
  <2>6. ASSUME NEW r \in Slots, CommitCancel(r) PROVE OrderEffect
    <3>1. req[r].order \in Orders
      BY <2>6, PendingTyped DEF CommitCancel, UnlockedOps, OrderOps, RequestOK
    <3> QED BY <2>6, <3>1 DEF CommitCancel, WriteStatus, OrderEffect, Restatus
  <2>7. ASSUME NEW r \in Slots, NEW q, Begin(r, q) PROVE OrderEffect
    BY <2>7 DEF Begin, dataVars, OrderEffect
  <2> QED BY <1>1, <2>1, <2>2, <2>3, <2>4, <2>5, <2>6, <2>7
          DEF ClientNext, BeginPublish, BeginCancel, BeginEdit
<1>2. ASSUME DriverNext PROVE OrderEffect
  <2>1. ASSUME NEW r \in Slots, CommitBid(r) PROVE OrderEffect
    <3>1. req[r].order \in Orders
      BY <2>1, PendingTyped DEF CommitBid, UnlockedOps, OrderOps, RequestOK
    <3>2. CASE req[r].seen = "published"
      BY <2>1, <3>1, <3>2 DEF CommitBid, WriteStatus, OrderEffect, Restatus
    <3>3. CASE req[r].seen # "published"
      BY <2>1, <3>3 DEF CommitBid, OrderEffect
    <3> QED BY <3>2, <3>3
  <2>2. ASSUME NEW r \in Slots, CommitMark(r) PROVE OrderEffect
    <3> DEFINE o == req[r].order
    <3>1. o \in Orders
      BY <2>2, PendingTyped DEF CommitMark, UnlockedOps, OrderOps, RequestOK
    <3>2. /\ orders[o].status \in Assigned
          /\ DriverTransition[orders[o].status] \in {"picked_up", "in_transit", "delivered"}
      BY <2>2 DEF CommitMark, DriverTransition, Assigned
    <3>3. Restatus(o, DriverTransition[orders[o].status])
      BY <2>2 DEF CommitMark, WriteStatus, Restatus
    <3> QED BY <3>1, <3>2, <3>3 DEF OrderEffect
  <2>3. ASSUME NEW r \in Slots, CommitDriverCancel(r) PROVE OrderEffect
    <3>1. req[r].order \in Orders
      BY <2>3, PendingTyped DEF CommitDriverCancel, UnlockedOps, OrderOps, RequestOK
    <3> QED BY <2>3, <3>1 DEF CommitDriverCancel, WriteStatus, OrderEffect, Restatus
  <2>4. ASSUME NEW r \in Slots, CommitUpdateBid(r) \/ CommitReject(r) PROVE OrderEffect
    BY <2>4 DEF CommitUpdateBid, CommitReject, OrderEffect
  <2>5. ASSUME NEW r \in Slots, NEW q, Begin(r, q) PROVE OrderEffect
    BY <2>5 DEF Begin, dataVars, OrderEffect
  <2> QED BY <1>2, <2>1, <2>2, <2>3, <2>4, <2>5
          DEF DriverNext, BeginBid, BeginUpdateBid, BeginReject, BeginDelivery
<1>3. ASSUME StaffNext PROVE OrderEffect
  <2>1. ASSUME NEW o \in Orders, NEW role \in StaffRoles, CancelOrderManually(o, role)
        PROVE  OrderEffect
    BY <2>1 DEF CancelOrderManually, WriteStatus, OrderEffect, Restatus
  <2>2. ASSUME NEW o \in Orders, NEW target \in OrderStatus, NEW role \in StaffRoles,
               "admin_status" \in Ops, UpdateOrderStatus(o, target, role)
        PROVE  OrderEffect
    BY <2>2 DEF UpdateOrderStatus, WriteStatus, OrderEffect, Settles
  <2>3. ASSUME NEW o \in Orders, NEW d \in Drivers, NEW mills \in RawPrices,
               NEW role \in StaffRoles, AssignDriver(o, d, mills, role)
        PROVE  OrderEffect
    <3> DEFINE b == IF HasActiveBid(o, d) THEN d ELSE None
    <3>1. OrderIncome(QuantizeMoney(mills), rate) \in FairIncome
      BY IncomeIsFair DEF TypeInv, MarketTypeOK, TypeOK
    <3>2. b \in Drivers \cup {None} /\ (b # None => b = d /\ bids[o][d] # None)
      BY DEF HasActiveBid
    <3>3. Accepts(o, d, b, OrderIncome(QuantizeMoney(mills), rate))
      BY <2>3, <3>2 DEF AssignDriver, WriteStatus, Accepts
    <3> HIDE DEF b
    <3> QED BY <3>1, <3>2, <3>3 DEF OrderEffect
  <2>4. ASSUME NEW p \in Percents, UpdateDriverCommission(p) PROVE OrderEffect
    BY <2>4 DEF UpdateDriverCommission, OrderEffect
  <2> QED BY <1>3, <2>1, <2>2, <2>3, <2>4 DEF StaffNext
<1>4. ASSUME AccountNext PROVE OrderEffect
  BY <1>4 DEF AccountNext, GoOffline, BlockDriver, BeginGoOnline, BeginDeleteAccount, Begin,
              CommitGoOnline, CommitDeleteAccount, dataVars, OrderEffect
<1>5. ASSUME NEW r \in Slots, Abort(r) PROVE OrderEffect
  BY <1>5 DEF Abort, dataVars, OrderEffect
<1> QED BY <1>1, <1>2, <1>3, <1>4, <1>5

\* The same for one row: how its status, driver and payment may change.
RowChange(old, new) ==
    \/ new.status = old.status /\ new.assigned = old.assigned /\ new.paid = old.paid
    \/ old.status = None /\ new.status = "draft"
    \/ /\ new.status \in {"published", "bidding", "cancelled"}
       /\ new.assigned = old.assigned /\ new.paid = old.paid
    \/ new.status = "accepted" /\ new.assigned \in Drivers /\ new.paid = old.paid
    \/ /\ old.status \in Assigned /\ new.status \in {"picked_up", "in_transit", "delivered"}
       /\ new.assigned = old.assigned /\ new.paid = old.paid
    \/ /\ old.status = "delivered" /\ new.status = "confirmed"
       /\ new.assigned = old.assigned /\ new.paid
    \/ /\ "admin_status" \in Ops /\ new.status \in OrderStatus
       /\ old.paid => new.paid
       /\ new.status = "confirmed" => new.paid

LEMMA RowEffect ==
    ASSUME TypeInv, OrderEffect, NEW x \in Orders
    PROVE  RowChange(orders[x], orders'[x])
<1> USE DEF RowChange
<1>1. orders \in [Orders -> Order] /\ orders[x] \in Order
  BY DEF TypeInv, MarketTypeOK, TypeOK
<1>2. CASE UNCHANGED orders
  BY <1>2
<1>3. ASSUME NEW o \in Orders, NEW row, orders' = [orders EXCEPT ![o] = row],
             RowChange(orders[o], row)
      PROVE  RowChange(orders[x], orders'[x])
  <2>1. CASE x = o
    <3>1. orders'[x] = row
      BY <1>1, <1>3, <2>1
    <3> QED BY <1>3, <2>1, <3>1
  <2>2. CASE x # o
    BY <1>1, <1>3, <2>2
  <2> QED BY <2>1, <2>2
<1>4. \A o \in Orders : orders[o] \in Order
  BY <1>1
<1>5. ASSUME NEW o \in Orders, NEW rt \in Routes, orders[o].status = None, Starts(o, rt)
      PROVE  RowChange(orders[x], orders'[x])
  <2>1. [NoOrder EXCEPT !.status = "draft", !.route = rt].status = "draft"
    BY DEF NoOrder
  <2> QED BY <1>3, <1>5, <2>1 DEF Starts
<1>6. ASSUME NEW o \in Orders, NEW rt \in Routes, orders' = [orders EXCEPT ![o].route = rt]
      PROVE  RowChange(orders[x], orders'[x])
  BY <1>4, <1>6 DEF Order
<1>7. ASSUME NEW o \in Orders, NEW s, Restatus(o, s),
             \/ s \in {"published", "bidding", "cancelled"}
             \/ orders[o].status \in Assigned /\ s \in {"picked_up", "in_transit", "delivered"}
      PROVE  RowChange(orders[x], orders'[x])
  BY <1>3, <1>4, <1>7 DEF Restatus, Order
<1>8. ASSUME NEW o \in Orders, NEW d \in Drivers, NEW b, NEW f, Accepts(o, d, b, f)
      PROVE  RowChange(orders[x], orders'[x])
  BY <1>3, <1>4, <1>8 DEF Order, Accepts
<1>9. ASSUME NEW o \in Orders, orders[o].status = "delivered", Settles(o, "confirmed", TRUE)
      PROVE  RowChange(orders[x], orders'[x])
  BY <1>3, <1>4, <1>9 DEF Order, Settles
<1>10. ASSUME NEW o \in Orders, NEW s \in OrderStatus, "admin_status" \in Ops,
             Settles(o, s, PaidAfter(o, s))
      PROVE  RowChange(orders[x], orders'[x])
  <2> DEFINE row == [orders[o] EXCEPT !.status = s, !.paid = PaidAfter(o, s)]
  <2>1. row.status = s /\ row.paid = (orders[o].paid \/ s = "confirmed")
    BY <1>4 DEF Order, PaidAfter
  <2>2. RowChange(orders[o], row)
    BY <1>10, <2>1
  <2> QED BY <1>3, <1>10, <2>2 DEF Settles
<1> QED BY <1>2, <1>5, <1>6, <1>7, <1>8, <1>9, <1>10 DEF OrderEffect

-----------------------------------------------------------------------------
(* What a step of any service can do to a bid and its offer.               *)

\* No bid disappears, a new one answers its offer, and no offer that has been
\* answered is open again.
BidStep(o, d) ==
    /\ bids[o][d] # None => bids'[o][d] # None
    /\ bids[o][d] = None /\ bids'[o][d] # None => offers'[o][d] = "bid_sent"
    /\ offers[o][d] \in {"bid_sent", "rejected"} => offers'[o][d] \in {"bid_sent", "rejected"}

\* A handler that writes one bid and its offer.
LEMMA OneBidStep ==
    ASSUME TypeInv, NEW o \in Orders, NEW d \in Drivers, NEW x \in Orders, NEW y \in Drivers,
           NEW b, NEW f, bids' = [bids EXCEPT ![x][y] = b], offers' = [offers EXCEPT ![x][y] = f],
           bids[x][y] # None => b # None,
           bids[x][y] = None /\ b # None => f = "bid_sent",
           offers[x][y] \in {"bid_sent", "rejected"} => f \in {"bid_sent", "rejected"}
    PROVE  BidStep(o, d)
<1> USE DEF TypeInv, MarketTypeOK, TypeOK, BidStep
<1>1. CASE o = x /\ d = y
  <2>1. bids'[o][d] = b /\ offers'[o][d] = f
    BY <1>1
  <2> QED BY <1>1, <2>1
<1>2. CASE ~(o = x /\ d = y)
  <2>1. bids'[o][d] = bids[o][d] /\ offers'[o][d] = offers[o][d]
    BY <1>2
  <2> QED BY <2>1, NoneIsFresh DEF NoneIsFresh
<1> QED BY <1>1, <1>2

\* A handler that writes the bids of one order and leaves those that exist.
LEMMA OrderBidsStep ==
    ASSUME TypeInv, NEW o \in Orders, NEW d \in Drivers, NEW x \in Orders, NEW new,
           bids' = [bids EXCEPT ![x] = new],
           \A y \in Drivers : new[y] = None <=> bids[x][y] = None
    PROVE  /\ bids[o][d] # None => bids'[o][d] # None
           /\ bids[o][d] = None => bids'[o][d] = None
<1> USE DEF TypeInv, MarketTypeOK, TypeOK
<1>1. CASE o = x
  <2>1. bids'[o][d] = new[d]
    BY <1>1
  <2> QED BY <1>1, <2>1
<1>2. CASE o # x
  <2>1. bids'[o][d] = bids[o][d]
    BY <1>2
  <2> QED BY <2>1
<1> QED BY <1>1, <1>2

\* A price change finds a bid, and leaves one of the right type.
LEMMA RepricedTyped ==
    ASSUME TypeInv, NEW r \in Slots, CommitUpdateBid(r)
    PROVE  LET bid == bids[req[r].order][req[r].driver] IN
           bid # None /\ Repriced(bid, req[r].bid, req[r].price) \in Bid
<1>1. req[r] \in Request /\ RequestOK(req[r]) /\ req[r].op = "update_bid"
  BY PendingTyped DEF CommitUpdateBid, UnlockedOps
<1> PICK o \in Orders, d \in Drivers, p \in Prices, read \in Bid :
           /\ o = req[r].order /\ d = req[r].driver /\ p = req[r].price /\ read = req[r].bid
           /\ read.updates < MaxBidPriceUpdates
           /\ bids[o][d] # None
  <2>1. req[r].bid \in Bid
    BY <1>1 DEF Request, RequestOK
  <2> QED BY <1>1, <2>1 DEF UnlockedOps, OrderOps, DriverOps, RequestOK
<1>2. bids[o][d] \in Bid
  BY DEF TypeInv, MarketTypeOK, TypeOK
<1>3. read.updates + 1 \in 0..MaxBidPriceUpdates
  BY DEF Bid, MaxBidPriceUpdates
<1> QED BY <1>2, <1>3 DEF Repriced, Bid

\* Every step of every service, for every bid.
LEMMA BidEffect ==
    ASSUME TypeInv, Next, NEW o \in Orders, NEW d \in Drivers
    PROVE  BidStep(o, d)
<1> USE DEF TypeInv, MarketTypeOK, TypeOK
<1>1. CASE UNCHANGED <<bids, offers>>
  BY <1>1, NoneIsFresh DEF BidStep, NoneIsFresh
<1>2. ASSUME NEW r \in Slots, CommitPublish(r)
      PROVE  BidStep(o, d)
  <2>1. req[r].order \in Orders
    BY <1>2, PendingTyped DEF CommitPublish, UnlockedOps, OrderOps, RequestOK
  <2>2. offers' = [offers EXCEPT ![req[r].order] =
                      OffersAfterPublish(req[r].order, req[r].route)]
    BY <1>2 DEF CommitPublish
  <2>3. offers[o][d] \in {"bid_sent", "rejected"} => offers'[o][d] = offers[o][d]
    BY <2>1, <2>2, NoneIsFresh DEF OffersAfterPublish, NoneIsFresh, OfferResult
  <2> QED BY <1>2, <2>3 DEF CommitPublish, BidStep
<1>3. ASSUME NEW x \in Orders, NEW y \in Drivers, SelectDriver(x, y)
      PROVE  BidStep(o, d)
  <2>1. \A z \in Drivers : BidsAfterSelection(x, y)[z] = None <=> bids[x][z] = None
    <3> SUFFICES ASSUME NEW z \in Drivers, bids[x][z] # None
                 PROVE  BidsAfterSelection(x, y)[z] # None
      BY DEF BidsAfterSelection
    <3>1. bids[x][z] \in Bid
      OBVIOUS
    <3>2. BidsAfterSelection(x, y)[z] \in Bid
      BY <3>1 DEF BidsAfterSelection, Bid, BidStatus
    <3> QED BY <3>2, NoneIsFresh DEF NoneIsFresh
  <2>2. bids' = [bids EXCEPT ![x] = BidsAfterSelection(x, y)]
    BY <1>3 DEF SelectDriver
  <2>3. /\ bids[o][d] # None => bids'[o][d] # None
        /\ bids[o][d] = None => bids'[o][d] = None
    BY <2>1, <2>2, OrderBidsStep
  <2>4. offers' = [offers EXCEPT ![x][y] = IF @ = None THEN None ELSE "bid_sent"]
    BY <1>3 DEF SelectDriver
  <2>5. offers[o][d] \in {"bid_sent", "rejected"} => offers'[o][d] \in {"bid_sent", "rejected"}
    BY <2>4, NoneIsFresh DEF NoneIsFresh, OfferResult
  <2> QED BY <2>3, <2>5 DEF BidStep
<1>4. ASSUME NEW r \in Slots, CommitBid(r)
      PROVE  BidStep(o, d)
  <2> PICK x \in Orders, y \in Drivers : x = req[r].order /\ y = req[r].driver
    BY <1>4, PendingTyped DEF CommitBid, UnlockedOps, OrderOps, DriverOps, RequestOK
  <2> DEFINE b == [status |-> "active", price |-> req[r].price, updates |-> 0]
  <2>1. b \in Bid
    <3>1. req[r].price \in Prices
      BY <1>4, PendingTyped DEF CommitBid, UnlockedOps, RequestOK
    <3> QED BY <3>1 DEF Bid, BidStatus, MaxBidPriceUpdates
  <2>2. bids' = [bids EXCEPT ![x][y] = b] /\ offers' = [offers EXCEPT ![x][y] = "bid_sent"]
    BY <1>4 DEF CommitBid
  <2> HIDE DEF b
  <2> QED BY <2>1, <2>2, OneBidStep, NoneIsFresh DEF NoneIsFresh
<1>5. ASSUME NEW r \in Slots, CommitUpdateBid(r)
      PROVE  BidStep(o, d)
  <2> PICK x \in Orders, y \in Drivers : x = req[r].order /\ y = req[r].driver
    BY <1>5, PendingTyped DEF CommitUpdateBid, UnlockedOps, OrderOps, DriverOps, RequestOK
  <2> DEFINE b == Repriced(bids[x][y], req[r].bid, req[r].price)
  <2>1. bids' = [bids EXCEPT ![x][y] = b] /\ offers' = [offers EXCEPT ![x][y] = offers[x][y]]
    BY <1>5 DEF CommitUpdateBid
  <2>2. bids[x][y] # None /\ b \in Bid
    BY <1>5, RepricedTyped
  <2> HIDE DEF b
  <2> QED BY <2>1, <2>2, OneBidStep, NoneIsFresh DEF NoneIsFresh
<1>6. ASSUME NEW r \in Slots, CommitReject(r)
      PROVE  BidStep(o, d)
  <2> PICK x \in Orders, y \in Drivers :
             /\ x = req[r].order /\ y = req[r].driver
             /\ req[r].bid # None => bids[x][y] # None
    BY <1>6, PendingTyped DEF CommitReject, UnlockedOps, OrderOps, DriverOps, RequestOK
  <2> DEFINE b == BidDeclined(bids[x][y], req[r].bid)
             f == IF req[r].offer = "rejected" THEN offers[x][y] ELSE "rejected"
  <2>1. bids' = [bids EXCEPT ![x][y] = b] /\ offers' = [offers EXCEPT ![x][y] = f]
    BY <1>6 DEF CommitReject
  <2>2. b = bids[x][y] \/ (bids[x][y] # None /\ b \in Bid)
    <3>1. \A bid \in Bid : [bid EXCEPT !.status = "rejected"] \in Bid
      BY DEF Bid, BidStatus
    <3>2. bids[x][y] \in Bid \cup {None}
      OBVIOUS
    <3> QED BY <3>1, <3>2 DEF BidDeclined
  <2>3. offers[x][y] \in {"bid_sent", "rejected"} => f \in {"bid_sent", "rejected"}
    OBVIOUS
  <2> HIDE DEF b, f
  <2> QED BY <2>1, <2>2, <2>3, OneBidStep, NoneIsFresh DEF NoneIsFresh
<1>7. ASSUME NEW x \in Orders, NEW y \in Drivers, NEW mills \in RawPrices, NEW role \in StaffRoles,
             AssignDriver(x, y, mills, role)
      PROVE  BidStep(o, d)
  <2>1. \A z \in Drivers : BidsAfterAssignment(x, y)[z] = None <=> bids[x][z] = None
    <3> SUFFICES ASSUME NEW z \in Drivers, bids[x][z] # None
                 PROVE  BidsAfterAssignment(x, y)[z] # None
      BY DEF BidsAfterAssignment, HasActiveBid
    <3>1. bids[x][z] \in Bid
      OBVIOUS
    <3>2. BidsAfterAssignment(x, y)[z] \in Bid
      BY <3>1 DEF BidsAfterAssignment, HasActiveBid, Bid, BidStatus
    <3> QED BY <3>2, NoneIsFresh DEF NoneIsFresh
  <2>2. bids' = [bids EXCEPT ![x] = BidsAfterAssignment(x, y)] /\ offers' = offers
    BY <1>7 DEF AssignDriver
  <2> QED BY <2>1, <2>2, OrderBidsStep DEF BidStep
<1>8. ASSUME NEW x \in Orders, NEW role \in StaffRoles, CancelOrderManually(x, role)
      PROVE  BidStep(o, d)
  <2>1. \A z \in Drivers : BidsClosed(x)[z] = None <=> bids[x][z] = None
    <3> SUFFICES ASSUME NEW z \in Drivers, bids[x][z] # None
                 PROVE  BidsClosed(x)[z] # None
      BY DEF BidsClosed, HasActiveBid
    <3>1. bids[x][z] \in Bid
      OBVIOUS
    <3>2. BidsClosed(x)[z] \in Bid
      BY <3>1 DEF BidsClosed, HasActiveBid, Bid, BidStatus
    <3> QED BY <3>2, NoneIsFresh DEF NoneIsFresh
  <2>2. bids' = [bids EXCEPT ![x] = BidsClosed(x)] /\ offers' = offers
    BY <1>8 DEF CancelOrderManually
  <2> QED BY <2>1, <2>2, OrderBidsStep DEF BidStep
<1>9. CASE ClientNext
  BY <1>1, <1>2, <1>3, <1>9, ZenonT(40)
     DEF ClientNext, CreateOrderDraft, ConfirmDelivered, BeginPublish, BeginCancel,
         BeginEdit, CommitEdit, CommitCancel, Begin, dataVars
<1>10. CASE DriverNext
  BY <1>1, <1>4, <1>5, <1>6, <1>10, ZenonT(40)
     DEF DriverNext, BeginBid, BeginUpdateBid, BeginReject, BeginDelivery, CommitMark,
         CommitDriverCancel, Begin, dataVars
<1>11. CASE StaffNext
  BY <1>1, <1>7, <1>8, <1>11 DEF StaffNext, UpdateOrderStatus, UpdateDriverCommission
<1>12. CASE AccountNext
  BY <1>1, <1>12 DEF AccountNext, GoOffline, BlockDriver, BeginGoOnline, BeginDeleteAccount,
                     CommitGoOnline, CommitDeleteAccount, Begin, dataVars
<1>13. CASE DisputeNext
  BY <1>1, <1>13 DEF DisputeNext, OpenDispute, UpdateDispute
<1>14. CASE \E r \in Slots : Abort(r)
  BY <1>1, <1>14 DEF Abort, dataVars
<1> QED BY <1>9, <1>10, <1>11, <1>12, <1>13, <1>14 DEF Next

\* driver_order_service.py: a driver who has bid on an order has answered its
\* offer, even if the order was published again by a stale request, or the bid
\* and a decline of the same driver overlapped.
THEOREM BidsAnswerOffers == Spec => []BidAnswersOffer
<1>1. MarketInit => BidAnswersOffer
  BY DEF MarketInit, Init, BidAnswersOffer
<1>2. TypeInv /\ BidAnswersOffer /\ [Next]_vars => BidAnswersOffer'
  <2> SUFFICES ASSUME TypeInv, BidAnswersOffer, [Next]_vars PROVE BidAnswersOffer'
    OBVIOUS
  <2>1. CASE UNCHANGED vars
    BY <2>1 DEF vars, BidAnswersOffer
  <2>2. CASE Next
    BY <2>2, BidEffect DEF BidAnswersOffer, BidStep
  <2> QED BY <2>1, <2>2
<1> QED BY <1>1, <1>2, TypeInvHolds, PTL DEF Spec

-----------------------------------------------------------------------------
(* An assigned order has a price, and an accepted bid that exists.         *)

\* The part of AssignmentIsPriced that the order's own row decides.
Priced(order) ==
    /\ order.assigned = None <=> order.final = None
    /\ order.acceptedBid # None => order.acceptedBid = order.assigned
    /\ order.final # None => order.final.fee + order.final.income = order.final.price
                             /\ order.final.income >= 0

PricedInv == \A o \in Orders :
                /\ Priced(orders[o])
                /\ orders[o].acceptedBid # None => bids[o][orders[o].assigned] # None

\* Only an acceptance writes these columns: either they stay, or they are empty
\* as in a new order, or they are written together.
SameAssignment(x) == /\ orders'[x].assigned = orders[x].assigned
                     /\ orders'[x].acceptedBid = orders[x].acceptedBid
                     /\ orders'[x].final = orders[x].final

NoAssignment(x) == /\ orders'[x].assigned = None /\ orders'[x].acceptedBid = None
                   /\ orders'[x].final = None

NewAssignment(x) == /\ orders'[x].assigned \in Drivers /\ orders'[x].final \in FairIncome
                    /\ orders'[x].acceptedBid \in {None, orders'[x].assigned}
                    /\ orders'[x].acceptedBid # None => bids[x][orders'[x].assigned] # None

LEMMA HandlerAssigns ==
    ASSUME TypeInv, OrderEffect, NEW x \in Orders
    PROVE  SameAssignment(x) \/ NoAssignment(x) \/ NewAssignment(x)
<1> DEFINE Goal == SameAssignment(x) \/ NoAssignment(x) \/ NewAssignment(x)
<1> USE DEF SameAssignment, NoAssignment, NewAssignment
<1>1. \A o \in Orders : orders[o] \in Order
  BY DEF TypeInv, MarketTypeOK, TypeOK
<1>2. ASSUME NEW o \in Orders, NEW row, orders' = [orders EXCEPT ![o] = row],
             row.assigned = orders[o].assigned, row.acceptedBid = orders[o].acceptedBid,
             row.final = orders[o].final
      PROVE  Goal
  <2>1. orders'[x] = orders[x] \/ (x = o /\ orders'[x] = row)
    BY <1>2 DEF TypeInv, MarketTypeOK, TypeOK
  <2> QED BY <1>2, <2>1
<1>3. ASSUME NEW o \in Orders, NEW rt \in Routes,
             Starts(o, rt)
      PROVE  Goal
  <2> DEFINE row == [NoOrder EXCEPT !.status = "draft", !.route = rt]
  <2>1. row.assigned = None /\ row.acceptedBid = None /\ row.final = None
    BY DEF NoOrder
  <2>2. orders'[x] = orders[x] \/ orders'[x] = row
    BY <1>3 DEF Starts, TypeInv, MarketTypeOK, TypeOK
  <2> HIDE DEF row
  <2> QED BY <2>1, <2>2
<1>4. ASSUME NEW o \in Orders, NEW rt \in Routes, orders' = [orders EXCEPT ![o].route = rt]
      PROVE  Goal
  <2> DEFINE row == [orders[o] EXCEPT !.route = rt]
  <2>1. orders' = [orders EXCEPT ![o] = row]
    BY <1>4
  <2>2. /\ row.assigned = orders[o].assigned /\ row.acceptedBid = orders[o].acceptedBid
        /\ row.final = orders[o].final
    BY <1>1 DEF Order
  <2> HIDE DEF row
  <2> QED BY <1>2, <2>1, <2>2
<1>5. ASSUME NEW o \in Orders, NEW s, Restatus(o, s)
      PROVE  Goal
  <2> DEFINE row == [orders[o] EXCEPT !.status = s]
  <2>1. /\ row.assigned = orders[o].assigned /\ row.acceptedBid = orders[o].acceptedBid
        /\ row.final = orders[o].final
    BY <1>1 DEF Order
  <2> QED BY <1>2, <1>5, <2>1 DEF Restatus
<1>6. ASSUME NEW o \in Orders, NEW s, NEW paid, Settles(o, s, paid)
      PROVE  Goal
  <2> DEFINE row == [orders[o] EXCEPT !.status = s, !.paid = paid]
  <2>1. /\ row.assigned = orders[o].assigned /\ row.acceptedBid = orders[o].acceptedBid
        /\ row.final = orders[o].final
    BY <1>1 DEF Order
  <2> QED BY <1>2, <1>6, <2>1 DEF Settles
<1>7. ASSUME NEW o \in Orders, NEW d \in Drivers, NEW b \in Drivers \cup {None},
             NEW f \in FairIncome, Accepts(o, d, b, f)
      PROVE  Goal
  <2> DEFINE row == [orders[o] EXCEPT !.status = "accepted", !.assigned = d,
                                      !.acceptedBid = b, !.final = f]
  <2>1. row.assigned = d /\ row.acceptedBid = b /\ row.final = f
    BY <1>1 DEF Order
  <2>2. /\ orders'[x] = orders[x] \/ (x = o /\ orders'[x] = row)
        /\ b # None => b = d /\ bids[o][d] # None
    BY <1>7 DEF Accepts, TypeInv, MarketTypeOK, TypeOK
  <2> HIDE DEF row
  <2> QED BY <2>1, <2>2
<1>8. ASSUME UNCHANGED orders PROVE Goal
  BY <1>8
<1> HIDE DEF Goal
<1>9. Goal
  BY <1>3, <1>4, <1>5, <1>6, <1>7, <1>8 DEF OrderEffect
<1> QED BY <1>9 DEF Goal

LEMMA AssignmentEffect ==
    ASSUME TypeInv, Next, NEW x \in Orders
    PROVE  SameAssignment(x) \/ NoAssignment(x) \/ NewAssignment(x)
<1>1. ASSUME NEW o \in Orders, NEW s, Restatus(o, s)
      PROVE  SameAssignment(x)
  <2> DEFINE row == [orders[o] EXCEPT !.status = s]
  <2>1. orders'[x] = orders[x] \/ (x = o /\ orders'[x] = row)
    BY <1>1 DEF Restatus, TypeInv, MarketTypeOK, TypeOK
  <2>2. /\ row.assigned = orders[o].assigned /\ row.acceptedBid = orders[o].acceptedBid
        /\ row.final = orders[o].final
    BY DEF TypeInv, MarketTypeOK, TypeOK, Order
  <2> QED BY <2>1, <2>2 DEF SameAssignment
<1>2. ASSUME NEW k \in DisputeIds, NEW o \in Orders, NEW role \in Roles, OpenDispute(k, o, role)
      PROVE  SameAssignment(x)
  BY <1>1, <1>2 DEF OpenDispute, WriteStatus, Restatus
<1>3. ASSUME NEW k \in DisputeIds, NEW target \in ActiveDispute \cup FinalDispute,
             NEW role \in StaffRoles, UpdateDispute(k, target, role)
      PROVE  SameAssignment(x)
  <2>1. disputes[k].order \in Orders
    BY <1>3 DEF UpdateDispute, CanUpdateDispute, TypeInv, MarketTypeOK, DisputesTypeOK, Dispute
  <2>2. CASE UNCHANGED orders
    BY <2>2 DEF SameAssignment
  <2>3. CASE Restatus(disputes[k].order, RestoredStatus(k))
    BY <1>1, <2>1, <2>3
  <2> QED BY <1>3, <2>2, <2>3 DEF UpdateDispute, WriteStatus, Restatus
<1> QED BY <1>2, <1>3, HandlerEffect, HandlerAssigns DEF Next, DisputeNext

\* order_service.py, admin_order_service.py: in every interleaving, an order has
\* a driver exactly when it has a price, the accepted bid is an existing bid of
\* that driver, and the shares of driver and system add up to the price.
THEOREM AssignedIsPriced == Spec => []AssignmentIsPriced
<1>1. MarketInit => PricedInv
  BY DEF MarketInit, Init, NoOrder, PricedInv, Priced
<1>2. TypeInv /\ PricedInv /\ [Next]_vars => PricedInv'
  <2> SUFFICES ASSUME TypeInv, PricedInv, [Next]_vars PROVE PricedInv'
    OBVIOUS
  <2>1. CASE UNCHANGED vars
    BY <2>1 DEF vars, PricedInv
  <2>2. CASE Next
    <3> SUFFICES ASSUME NEW o \in Orders
                 PROVE  /\ Priced(orders'[o])
                        /\ orders'[o].acceptedBid # None => bids'[o][orders'[o].assigned] # None
      BY DEF PricedInv
    <3>1. /\ Priced(orders[o])
          /\ orders[o].acceptedBid # None => bids[o][orders[o].assigned] # None
      BY DEF PricedInv
    <3>2. \A d \in Drivers : bids[o][d] # None => bids'[o][d] # None
      BY <2>2, BidEffect DEF BidStep
    <3>3. CASE SameAssignment(o)
      <4>1. orders[o].acceptedBid # None => orders[o].assigned \in Drivers
        <5>1. orders[o].acceptedBid \in Drivers \cup {None}
          BY DEF TypeInv, MarketTypeOK, TypeOK, Order
        <5> QED BY <3>1, <5>1 DEF Priced
      <4> QED BY <3>1, <3>2, <3>3, <4>1 DEF SameAssignment, Priced
    <3>4. CASE NoAssignment(o)
      BY <3>4 DEF NoAssignment, Priced
    <3>5. CASE NewAssignment(o)
      <4>1. orders'[o].final # None /\ orders'[o].assigned # None
        BY <3>5, NoneIsFresh DEF NewAssignment, FairIncome, NoneIsFresh
      <4>2. Priced(orders'[o])
        BY <3>5, <4>1 DEF NewAssignment, FairIncome, Priced
      <4> QED BY <3>2, <3>5, <4>2 DEF NewAssignment
    <3> QED BY <2>2, <3>3, <3>4, <3>5, AssignmentEffect
  <2> QED BY <2>1, <2>2
<1>3. PricedInv => AssignmentIsPriced
  BY DEF PricedInv, Priced, AssignmentIsPriced
<1> QED BY <1>1, <1>2, <1>3, TypeInvHolds, PTL DEF Spec

-----------------------------------------------------------------------------
(* A confirmed order has been paid.  A settlement can bring "confirmed"     *)
(* back, so what a dispute remembers must be paid as well, and it must      *)
(* belong to an order that create_order_draft cannot start over.            *)

DisputesArePaid ==
    \A k \in DisputeIds : disputes[k] # None =>
       /\ orders[disputes[k].order].status # None
       /\ disputes[k].prev = "confirmed" => orders[disputes[k].order].paid

PaidInv == ConfirmedIsPaid /\ DisputesArePaid

\* No handler unsettles a payment or makes an order disappear.
LEMMA PaidStaysPaid ==
    ASSUME TypeInv, OrderEffect
    PROVE  \A o \in Orders : orders[o].status # None =>
              /\ orders'[o].status # None
              /\ orders[o].paid => orders'[o].paid
<1>1. None \notin OrderStatus
  BY NoneIsFresh DEF NoneIsFresh
<1> QED BY <1>1, RowEffect DEF RowChange, OrderStatus

LEMMA PaidByHandler ==
    ASSUME TypeInv, PaidInv, OrderEffect, UNCHANGED disputes
    PROVE  PaidInv'
<1> USE DEF TypeInv, MarketTypeOK, TypeOK, DisputesTypeOK
<1>1. ConfirmedIsPaid'
  BY RowEffect, NoneIsFresh
     DEF RowChange, PaidInv, ConfirmedIsPaid, NoneIsFresh, OrderStatus
<1>2. DisputesArePaid'
  <2> SUFFICES ASSUME NEW k \in DisputeIds, disputes[k] # None
               PROVE  /\ orders'[disputes[k].order].status # None
                      /\ disputes[k].prev = "confirmed" => orders'[disputes[k].order].paid
    BY DEF DisputesArePaid
  <2>1. disputes[k].order \in Orders
    BY DEF Dispute
  <2> QED BY <2>1, PaidStaysPaid DEF PaidInv, DisputesArePaid
<1> QED BY <1>1, <1>2 DEF PaidInv

LEMMA PaidByDispute ==
    ASSUME TypeInv, PaidInv, DisputeNext
    PROVE  PaidInv'
<1> USE DEF TypeInv, MarketTypeOK, TypeOK, DisputesTypeOK
<1>1. ASSUME NEW k \in DisputeIds, NEW o \in Orders, NEW role \in Roles, OpenDispute(k, o, role)
      PROVE  PaidInv'
  <2>1. /\ orders' = [orders EXCEPT ![o] = [orders[o] EXCEPT !.status = "disputed"]]
        /\ disputes' = [disputes EXCEPT ![k] =
                           [order |-> o, status |-> "open", prev |-> orders[o].status]]
    BY <1>1 DEF OpenDispute, WriteStatus
  <2>2. orders[o].status # None /\ None # "disputed"
    BY <1>1, NoneIsFresh
       DEF OpenDispute, MayOpen, Roles, UserDisputable, AdminDisputable, NoneIsFresh, OrderStatus
  <2>3. \A x \in Orders : orders[x] \in Order
    OBVIOUS
  <2>4. ConfirmedIsPaid'
    BY <2>1, <2>3 DEF PaidInv, ConfirmedIsPaid, Order
  <2>5. DisputesArePaid'
    BY <2>1, <2>2, <2>3 DEF PaidInv, ConfirmedIsPaid, DisputesArePaid, Order, Dispute
  <2> QED BY <2>4, <2>5 DEF PaidInv
<1>2. ASSUME NEW k \in DisputeIds, NEW target \in ActiveDispute \cup FinalDispute,
             NEW role \in StaffRoles, UpdateDispute(k, target, role)
      PROVE  PaidInv'
  <2> DEFINE o == disputes[k].order
  <2>1. disputes[k] \in Dispute /\ o \in Orders /\ disputes[k].prev \in AdminDisputable
    BY <1>2 DEF UpdateDispute, CanUpdateDispute, Dispute
  <2>2. disputes' = [disputes EXCEPT ![k].status = target]
    BY <1>2 DEF UpdateDispute
  <2>3. \/ orders' = [orders EXCEPT ![o] = [orders[o] EXCEPT !.status = disputes[k].prev]]
        \/ orders' = orders
    BY <1>2 DEF UpdateDispute, WriteStatus, RestoredStatus
  <2>4. disputes[k].prev # None
    BY <2>1, NoneIsFresh DEF NoneIsFresh, AdminDisputable, UserDisputable, OrderStatus
  <2>5. \A x \in Orders : orders[x] \in Order
    OBVIOUS
  <2>6. disputes[k].prev = "confirmed" => orders[o].paid
    BY <2>1, <1>2 DEF PaidInv, DisputesArePaid, UpdateDispute, CanUpdateDispute
  <2>7. ConfirmedIsPaid'
    <3> SUFFICES ASSUME NEW x \in Orders, orders'[x].status = "confirmed"
                 PROVE  orders'[x].paid
      BY DEF ConfirmedIsPaid
    <3>1. CASE orders'[x] = orders[x]
      BY <3>1 DEF PaidInv, ConfirmedIsPaid
    <3>2. CASE x = o /\ orders'[x] = [orders[o] EXCEPT !.status = disputes[k].prev]
      BY <2>5, <2>6, <3>2 DEF Order
    <3> QED BY <2>1, <2>3, <3>1, <3>2
  <2>8. \A x \in DisputeIds : disputes'[x] # None =>
           /\ disputes[x] # None
           /\ disputes'[x].order = disputes[x].order
           /\ disputes'[x].prev = disputes[x].prev
    BY <1>2, <2>1, <2>2 DEF Dispute, UpdateDispute, CanUpdateDispute
  <2>9. \A x \in Orders : orders[x].status # None =>
           orders'[x].status # None /\ orders'[x].paid = orders[x].paid
    BY <2>1, <2>3, <2>4, <2>5, ZenonT(40) DEF Order
  <2>10. DisputesArePaid'
    <3> SUFFICES ASSUME NEW x \in DisputeIds, disputes'[x] # None
                 PROVE  /\ orders'[disputes'[x].order].status # None
                        /\ disputes'[x].prev = "confirmed" => orders'[disputes'[x].order].paid
      BY DEF DisputesArePaid
    <3>1. disputes[x].order \in Orders
      BY <2>8 DEF Dispute
    <3> QED BY <2>8, <2>9, <3>1 DEF PaidInv, DisputesArePaid
  <2> QED BY <2>7, <2>10 DEF PaidInv
<1> QED BY <1>1, <1>2 DEF DisputeNext

\* order_service.py, admin_order_service.py, dispute_service.py: with any
\* endpoints in use, manual corrections and repeated settlements included, an
\* order that shows as confirmed has been paid.
THEOREM PaidWhenConfirmed == Spec => []ConfirmedIsPaid
<1>1. MarketInit => PaidInv
  BY NoneIsFresh DEF MarketInit, Init, DisputesInit, PaidInv, ConfirmedIsPaid, DisputesArePaid,
                     NoOrder, NoneIsFresh, OrderStatus
<1>2. TypeInv /\ PaidInv /\ [Next]_vars => PaidInv'
  <2> SUFFICES ASSUME TypeInv, PaidInv, [Next]_vars PROVE PaidInv'
    OBVIOUS
  <2>1. CASE UNCHANGED vars
    BY <2>1 DEF vars, PaidInv, ConfirmedIsPaid, DisputesArePaid
  <2> QED BY <2>1, HandlerEffect, PaidByHandler, PaidByDispute DEF Next
<1>3. PaidInv => ConfirmedIsPaid
  BY DEF PaidInv
<1> QED BY <1>1, <1>2, <1>3, TypeInvHolds, PTL DEF Spec

-----------------------------------------------------------------------------
(* What the two dispute handlers do, for the invariants below.              *)

LEMMA OpenEffect ==
    ASSUME TypeInv, NEW k \in DisputeIds, NEW o \in Orders, NEW role \in Roles,
           OpenDispute(k, o, role)
    PROVE  /\ orders'[o].status = "disputed" /\ orders'[o].assigned = orders[o].assigned
           /\ \A x \in Orders \ {o} : orders'[x] = orders[x]
           /\ orders[o].status \in AdminDisputable
           /\ ~HasActiveDispute(o)
           /\ disputes[k] = None
           /\ disputes'[k] # None /\ disputes'[k].order = o
           /\ disputes'[k].status = "open" /\ disputes'[k].prev = orders[o].status
           /\ \A j \in DisputeIds \ {k} : disputes'[j] = disputes[j]
<1> USE DEF TypeInv, MarketTypeOK, TypeOK, DisputesTypeOK
<1>1. orders' = [orders EXCEPT ![o] = [orders[o] EXCEPT !.status = "disputed"]]
  BY DEF OpenDispute, WriteStatus
<1>2. orders[o] \in Order
  OBVIOUS
<1>3. orders[o].status \in AdminDisputable
  BY DEF OpenDispute, MayOpen, AdminDisputable, Roles
<1>4. disputes' = [disputes EXCEPT ![k] =
                      [order |-> o, status |-> "open", prev |-> orders[o].status]]
  BY DEF OpenDispute
<1>5. ~HasActiveDispute(o) /\ disputes[k] = None
  BY DEF OpenDispute, NextDispute
<1>6. disputes'[k] \in Dispute
  BY <1>3, <1>4 DEF Dispute, ActiveDispute
<1> QED BY <1>1, <1>2, <1>3, <1>4, <1>5, <1>6, DisputeIsFresh DEF DisputeIsFresh, Order

LEMMA UpdateEffect ==
    ASSUME TypeInv, NEW k \in DisputeIds, NEW target \in ActiveDispute \cup FinalDispute,
           NEW role \in StaffRoles, UpdateDispute(k, target, role)
    PROVE  LET o == disputes[k].order IN
           /\ disputes[k] # None /\ disputes[k] \in Dispute
           /\ disputes'[k] # None
           /\ disputes'[k].order = o /\ disputes'[k].prev = disputes[k].prev
           /\ disputes'[k].status = target
           /\ disputes[k].status \in FinalDispute => target = disputes[k].status
           /\ \A j \in DisputeIds \ {k} : disputes'[j] = disputes[j]
           /\ \/ /\ orders[o].status = "disputed"
                 /\ target \in FinalDispute
                 /\ orders'[o].status = disputes[k].prev
                 /\ orders'[o].assigned = orders[o].assigned
              \/ /\ orders'[o] = orders[o]
                 /\ orders[o].status = "disputed" => target \in ActiveDispute
           /\ \A x \in Orders \ {o} : orders'[x] = orders[x]
<1> USE DEF TypeInv, MarketTypeOK, TypeOK, DisputesTypeOK
<1> DEFINE o == disputes[k].order
<1>1. disputes[k] # None /\ disputes[k] \in Dispute
  BY DEF UpdateDispute, CanUpdateDispute
<1>2. o \in Orders /\ orders[o] \in Order
  BY <1>1 DEF Dispute
<1>3. disputes' = [disputes EXCEPT ![k].status = target]
  BY DEF UpdateDispute
<1>4. disputes'[k] = [disputes[k] EXCEPT !.status = target]
  BY <1>3
<1>5. disputes'[k] \in Dispute
  BY <1>1, <1>4 DEF Dispute
<1>6. /\ disputes'[k] # None
      /\ disputes'[k].order = o /\ disputes'[k].prev = disputes[k].prev
      /\ disputes'[k].status = target
  BY <1>1, <1>4, <1>5, DisputeIsFresh DEF DisputeIsFresh, Dispute
<1>7. \A j \in DisputeIds \ {k} : disputes'[j] = disputes[j]
  BY <1>3
<1>8. disputes[k].status \in FinalDispute => target = disputes[k].status
  BY DEF UpdateDispute, CanUpdateDispute
<1>9. CASE RestoresOrder(k, target)
  <2>1. orders' = [orders EXCEPT ![o] = [orders[o] EXCEPT !.status = disputes[k].prev]]
    BY <1>9 DEF UpdateDispute, WriteStatus, RestoredStatus
  <2>2. orders'[o].status = disputes[k].prev /\ orders'[o].assigned = orders[o].assigned
    BY <1>2, <2>1 DEF Order
  <2>3. \A x \in Orders \ {o} : orders'[x] = orders[x]
    BY <1>2, <2>1
  <2> QED BY <1>1, <1>6, <1>7, <1>8, <1>9, <2>2, <2>3 DEF RestoresOrder
<1>10. CASE ~RestoresOrder(k, target)
  <2>1. orders' = orders
    BY <1>10 DEF UpdateDispute
  <2>2. orders[o].status = "disputed" => target \in ActiveDispute
    BY <1>1, <1>10 DEF RestoresOrder, Dispute, Restorable
  <2> QED BY <1>1, <1>6, <1>7, <1>8, <2>1, <2>2
<1> QED BY <1>9, <1>10

-----------------------------------------------------------------------------
(* An order has one active dispute at most.  Nothing but dispute_service.py *)
(* touches the table.                                                      *)

\* dispute_service.py: the test of open_dispute under the lock of the order,
\* and the finality test of update_dispute, are enough without a constraint.
THEOREM SingleActiveDispute == Spec => []OneActiveDispute
<1>1. MarketInit => OneActiveDispute
  BY DEF MarketInit, DisputesInit, OneActiveDispute
<1>2. TypeInv /\ OneActiveDispute /\ [Next]_vars => OneActiveDispute'
  <2> SUFFICES ASSUME TypeInv, OneActiveDispute, [Next]_vars PROVE OneActiveDispute'
    OBVIOUS
  <2>1. CASE UNCHANGED disputes
    BY <2>1 DEF OneActiveDispute
  <2>2. ASSUME NEW k \in DisputeIds, NEW o \in Orders, NEW role \in Roles, OpenDispute(k, o, role)
        PROVE  OneActiveDispute'
    <3>1. /\ ~HasActiveDispute(o)
          /\ disputes'[k].order = o
          /\ \A j \in DisputeIds \ {k} : disputes'[j] = disputes[j]
      BY <2>2, OpenEffect
    <3>2. \A j \in DisputeIds \ {k} :
             disputes'[j] # None /\ disputes'[j].status \in ActiveDispute => disputes'[j].order # o
      BY <3>1 DEF HasActiveDispute
    <3> QED BY <3>1, <3>2 DEF OneActiveDispute
  <2>3. ASSUME NEW k \in DisputeIds, NEW target \in ActiveDispute \cup FinalDispute,
               NEW role \in StaffRoles, UpdateDispute(k, target, role)
        PROVE  OneActiveDispute'
    <3>1. \A j \in DisputeIds : disputes'[j] # None /\ disputes'[j].status \in ActiveDispute =>
             /\ disputes[j] # None /\ disputes[j].status \in ActiveDispute
             /\ disputes'[j].order = disputes[j].order
      <4> SUFFICES ASSUME NEW j \in DisputeIds, disputes'[j] # None,
                          disputes'[j].status \in ActiveDispute
                   PROVE  /\ disputes[j] # None /\ disputes[j].status \in ActiveDispute
                          /\ disputes'[j].order = disputes[j].order
        OBVIOUS
      <4>1. CASE j = k
        <5>1. /\ disputes[k] # None /\ disputes[k] \in Dispute
              /\ disputes'[k].order = disputes[k].order /\ disputes'[k].status = target
              /\ disputes[k].status \in FinalDispute => target = disputes[k].status
          BY <2>3, UpdateEffect
        <5>2. disputes[k].status \in ActiveDispute \cup FinalDispute
          BY <5>1 DEF Dispute
        <5> QED BY <4>1, <5>1, <5>2
      <4>2. CASE j # k
        <5>1. disputes'[j] = disputes[j]
          BY <2>3, <4>2, UpdateEffect
        <5> QED BY <5>1
      <4> QED BY <4>1, <4>2
    <3> QED BY <3>1 DEF OneActiveDispute
  <2> QED BY <2>1, <2>2, <2>3 DEF Next, DisputeNext, vars
<1> QED BY <1>1, <1>2, TypeInvHolds, PTL DEF Spec

-----------------------------------------------------------------------------
(* Without manual corrections, a disputed order can be settled.            *)

\* dispute_service.py: only open_dispute makes an order disputed, and the
\* settlement that ends its active dispute restores it.
THEOREM DisputedIsNotStuck ==
    ASSUME "admin_status" \notin Ops
    PROVE  Spec => []DisputedCanBeSettled
<1>1. MarketInit => DisputedCanBeSettled
  BY NoneIsFresh DEF MarketInit, Init, NoOrder, DisputedCanBeSettled, NoneIsFresh, OrderStatus
<1>2. TypeInv /\ DisputedCanBeSettled /\ [Next]_vars => DisputedCanBeSettled'
  <2> SUFFICES ASSUME TypeInv, DisputedCanBeSettled, [Next]_vars,
                      NEW o \in Orders, orders'[o].status = "disputed"
               PROVE  HasActiveDispute(o)'
    BY DEF DisputedCanBeSettled
  <2>1. CASE UNCHANGED vars
    BY <2>1 DEF vars, DisputedCanBeSettled, HasActiveDispute
  <2>2. CASE OrderEffect /\ UNCHANGED disputes
    <3>1. orders[o].status = "disputed"
      BY <2>2, RowEffect DEF RowChange, Assigned
    <3> QED BY <2>2, <3>1 DEF DisputedCanBeSettled, HasActiveDispute
  <2>3. ASSUME NEW k \in DisputeIds, NEW x \in Orders, NEW role \in Roles, OpenDispute(k, x, role)
        PROVE  HasActiveDispute(o)'
    <3>1. CASE x = o
      <4>1. disputes'[k] # None /\ disputes'[k].order = o /\ disputes'[k].status = "open"
        BY <2>3, <3>1, OpenEffect
      <4> QED BY <4>1 DEF HasActiveDispute, ActiveDispute
    <3>2. CASE x # o
      <4>1. /\ orders'[o] = orders[o] /\ disputes[k] = None
            /\ \A j \in DisputeIds \ {k} : disputes'[j] = disputes[j]
        BY <2>3, <3>2, OpenEffect
      <4> QED BY <4>1 DEF DisputedCanBeSettled, HasActiveDispute
    <3> QED BY <3>1, <3>2
  <2>4. ASSUME NEW k \in DisputeIds, NEW target \in ActiveDispute \cup FinalDispute,
               NEW role \in StaffRoles, UpdateDispute(k, target, role)
        PROVE  HasActiveDispute(o)'
    <3> DEFINE x == disputes[k].order
    <3>1. /\ disputes[k] \in Dispute /\ disputes'[k] # None
          /\ disputes'[k].order = x /\ disputes'[k].status = target
          /\ \A j \in DisputeIds \ {k} : disputes'[j] = disputes[j]
          /\ \A y \in Orders \ {x} : orders'[y] = orders[y]
          /\ \/ orders'[x].status = disputes[k].prev
             \/ /\ orders'[x] = orders[x]
                /\ orders[x].status = "disputed" => target \in ActiveDispute
      BY <2>4, UpdateEffect
    <3>2. disputes[k].prev # "disputed"
      BY <3>1 DEF Dispute, AdminDisputable, UserDisputable
    <3>3. CASE x = o
      BY <3>1, <3>2, <3>3 DEF HasActiveDispute
    <3>4. CASE x # o
      <4>1. orders[o].status = "disputed"
        BY <3>1, <3>4
      <4>2. PICK j \in DisputeIds : /\ disputes[j] # None /\ disputes[j].order = o
                                     /\ disputes[j].status \in ActiveDispute
        BY <4>1 DEF DisputedCanBeSettled, HasActiveDispute
      <4> QED BY <3>1, <3>4, <4>2 DEF HasActiveDispute
    <3> QED BY <3>3, <3>4
  <2> QED BY <2>1, <2>2, <2>3, <2>4, HandlerEffect DEF Next, DisputeNext
<1> QED BY <1>1, <1>2, TypeInvHolds, PTL DEF Spec

-----------------------------------------------------------------------------
(* Without manual corrections, an order on its way has a driver.  Again     *)
(* what a dispute remembers must satisfy it too.                           *)

DisputesHaveDriver ==
    \A k \in DisputeIds : disputes[k] # None =>
       /\ orders[disputes[k].order].status # None
       /\ disputes[k].prev \in Assigned => orders[disputes[k].order].assigned # None

DriverInv == DeliveryHasDriver /\ DisputesHaveDriver

LEMMA DriverByHandler ==
    ASSUME TypeInv, DriverInv, OrderEffect, UNCHANGED disputes, "admin_status" \notin Ops
    PROVE  DriverInv'
<1> USE NoneIsFresh DEF NoneIsFresh
<1>1. ASSUME NEW x \in Orders
      PROVE  /\ orders'[x].status \in Assigned => orders'[x].assigned # None
             /\ orders[x].status # None =>
                   /\ orders'[x].status # None
                   /\ orders[x].assigned # None => orders'[x].assigned # None
  <2>1. RowChange(orders[x], orders'[x])
    BY RowEffect
  <2>2. orders[x].status \in Assigned => orders[x].assigned # None
    BY DEF DriverInv, DeliveryHasDriver
  <2> QED BY <2>1, <2>2 DEF RowChange, Assigned, OrderStatus
<1>2. ASSUME NEW k \in DisputeIds, disputes[k] # None
      PROVE  disputes[k].order \in Orders
  BY <1>2 DEF TypeInv, MarketTypeOK, DisputesTypeOK, Dispute
<1>3. DeliveryHasDriver'
  BY <1>1 DEF DeliveryHasDriver
<1>4. DisputesHaveDriver'
  BY <1>1, <1>2 DEF DriverInv, DisputesHaveDriver
<1> QED BY <1>3, <1>4 DEF DriverInv

LEMMA DriverByDispute ==
    ASSUME TypeInv, DriverInv, DisputeNext
    PROVE  DriverInv'
<1>1. ASSUME NEW k \in DisputeIds, NEW o \in Orders, NEW role \in Roles, OpenDispute(k, o, role)
      PROVE  DriverInv'
  <2>1. /\ orders'[o].status = "disputed" /\ orders'[o].assigned = orders[o].assigned
        /\ \A x \in Orders \ {o} : orders'[x] = orders[x]
        /\ disputes'[k] # None /\ disputes'[k].order = o
        /\ disputes'[k].prev = orders[o].status
        /\ \A j \in DisputeIds \ {k} : disputes'[j] = disputes[j]
    BY <1>1, OpenEffect
  <2>2. orders[o].status \in Assigned => orders[o].assigned # None
    BY DEF DriverInv, DeliveryHasDriver
  <2>3. None # "disputed"
    BY NoneIsFresh DEF NoneIsFresh, OrderStatus
  <2>4. DeliveryHasDriver'
    BY <2>1 DEF DriverInv, DeliveryHasDriver, Assigned
  <2>5. ASSUME NEW j \in DisputeIds, disputes'[j] # None
        PROVE  /\ orders'[disputes'[j].order].status # None
               /\ disputes'[j].prev \in Assigned => orders'[disputes'[j].order].assigned # None
    <3>1. CASE j = k
      BY <2>1, <2>2, <2>3, <3>1
    <3>2. CASE j # k
      <4>1. disputes'[j] = disputes[j] /\ disputes[j].order \in Orders
        BY <2>1, <2>5, <3>2 DEF TypeInv, MarketTypeOK, DisputesTypeOK, Dispute
      <4> QED BY <2>1, <2>3, <2>5, <4>1 DEF DriverInv, DisputesHaveDriver
    <3> QED BY <3>1, <3>2
  <2> QED BY <2>4, <2>5 DEF DriverInv, DisputesHaveDriver
<1>2. ASSUME NEW k \in DisputeIds, NEW target \in ActiveDispute \cup FinalDispute,
             NEW role \in StaffRoles, UpdateDispute(k, target, role)
      PROVE  DriverInv'
  <2> DEFINE o == disputes[k].order
  <2>1. /\ disputes[k] # None /\ disputes[k] \in Dispute
        /\ disputes'[k].order = o /\ disputes'[k].prev = disputes[k].prev
        /\ \A j \in DisputeIds \ {k} : disputes'[j] = disputes[j]
        /\ \/ /\ orders'[o].status = disputes[k].prev
              /\ orders'[o].assigned = orders[o].assigned
           \/ orders'[o] = orders[o]
        /\ \A x \in Orders \ {o} : orders'[x] = orders[x]
    BY <1>2, UpdateEffect
  <2>2. o \in Orders /\ disputes[k].prev # None
    BY <2>1, NoneIsFresh
       DEF NoneIsFresh, Dispute, AdminDisputable, UserDisputable, OrderStatus
  <2>3. disputes[k].prev \in Assigned => orders[o].assigned # None
    BY <2>1 DEF DriverInv, DisputesHaveDriver
  <2>4. DeliveryHasDriver'
    BY <2>1, <2>2, <2>3 DEF DriverInv, DeliveryHasDriver
  <2>5. \A x \in Orders : /\ orders'[x].assigned = orders[x].assigned
                          /\ orders[x].status # None => orders'[x].status # None
    BY <2>1, <2>2
  <2>6. ASSUME NEW j \in DisputeIds, disputes'[j] # None
        PROVE  /\ orders'[disputes'[j].order].status # None
               /\ disputes'[j].prev \in Assigned => orders'[disputes'[j].order].assigned # None
    <3>1. /\ disputes[j] # None /\ disputes'[j].order = disputes[j].order
          /\ disputes'[j].prev = disputes[j].prev
      BY <2>1, <2>6
    <3>2. PICK x \in Orders : x = disputes[j].order
      BY <3>1 DEF TypeInv, MarketTypeOK, DisputesTypeOK, Dispute
    <3>3. /\ orders[x].status # None
          /\ disputes[j].prev \in Assigned => orders[x].assigned # None
      BY <3>1, <3>2 DEF DriverInv, DisputesHaveDriver
    <3>4. orders'[x].status # None /\ orders'[x].assigned = orders[x].assigned
      BY <2>5, <3>3
    <3> QED BY <3>1, <3>2, <3>3, <3>4
  <2> QED BY <2>4, <2>6 DEF DriverInv, DisputesHaveDriver
<1> QED BY <1>1, <1>2 DEF DisputeNext

\* order_service.py, driver_order_service.py, dispute_service.py: however stale
\* the requests that write it, an order between acceptance and confirmation has
\* a driver; a settlement that brings such a status back finds the driver.
THEOREM DeliveryIsCarried ==
    ASSUME "admin_status" \notin Ops
    PROVE  Spec => []DeliveryHasDriver
<1>1. MarketInit => DriverInv
  BY NoneIsFresh DEF MarketInit, Init, DisputesInit, DriverInv, DeliveryHasDriver,
                     DisputesHaveDriver, NoOrder, NoneIsFresh, OrderStatus, Assigned
<1>2. TypeInv /\ DriverInv /\ [Next]_vars => DriverInv'
  <2> SUFFICES ASSUME TypeInv, DriverInv, [Next]_vars PROVE DriverInv'
    OBVIOUS
  <2>1. CASE UNCHANGED vars
    BY <2>1 DEF vars, DriverInv, DeliveryHasDriver, DisputesHaveDriver
  <2> QED BY <2>1, HandlerEffect, DriverByHandler, DriverByDispute DEF Next
<1>3. DriverInv => DeliveryHasDriver
  BY DEF DriverInv
<1> QED BY <1>1, <1>2, <1>3, TypeInvHolds, PTL DEF Spec

-----------------------------------------------------------------------------
(* Where staff assign no driver, an order has one accepted bid at most.    *)

IsAccepted(o, d) == bids[o][d] # None /\ bids[o][d].status = "accepted"

\* A step gives an order no newly accepted bid, or leaves it with only one.
LEMMA AcceptedEffect ==
    ASSUME TypeInv, Next, "assign" \notin Ops, NEW o \in Orders
    PROVE  \/ \A x \in Drivers : IsAccepted(o, x)' => IsAccepted(o, x)
           \/ \E d \in Drivers : \A x \in Drivers : IsAccepted(o, x)' => x = d
<1> DEFINE Goal == \/ \A x \in Drivers : IsAccepted(o, x)' => IsAccepted(o, x)
                   \/ \E d \in Drivers : \A x \in Drivers : IsAccepted(o, x)' => x = d
<1> USE DEF TypeInv, MarketTypeOK, TypeOK, IsAccepted
<1>1. CASE UNCHANGED bids
  BY <1>1
<1>2. ASSUME NEW o1 \in Orders, NEW d1 \in Drivers, SelectDriver(o1, d1)
      PROVE  Goal
  <2>1. bids' = [bids EXCEPT ![o1] = BidsAfterSelection(o1, d1)]
    BY <1>2 DEF SelectDriver
  <2>2. CASE o # o1
    BY <2>1, <2>2
  <2>3. CASE o = o1
    <3>1. ASSUME NEW x \in Drivers, IsAccepted(o, x)', x # d1
          PROVE  FALSE
      <4>1. bids'[o][x] = BidsAfterSelection(o, d1)[x]
        BY <2>1, <2>3
      <4>2. bids[o][x] = None \/ bids[o][x] \in Bid
        OBVIOUS
      <4> QED BY <3>1, <4>1, <4>2 DEF BidsAfterSelection, Bid
    <3> QED BY <3>1
  <2> QED BY <2>2, <2>3
<1>3. ASSUME NEW o1 \in Orders, NEW d1 \in Drivers, NEW b, bids' = [bids EXCEPT ![o1][d1] = b],
             \/ b = None \/ b.status # "accepted"
             \/ bids[o1][d1] # None /\ b.status = bids[o1][d1].status
             \/ b = bids[o1][d1]
      PROVE  Goal
  <2> SUFFICES ASSUME NEW x \in Drivers, IsAccepted(o, x)'
               PROVE  IsAccepted(o, x)
    OBVIOUS
  <2>1. CASE o = o1 /\ x = d1
    <3>1. bids'[o][x] = b
      BY <1>3, <2>1
    <3> QED BY <1>3, <2>1, <3>1
  <2>2. CASE ~(o = o1 /\ x = d1)
    <3>1. bids'[o][x] = bids[o][x]
      BY <1>3, <2>2
    <3> QED BY <3>1
  <2> QED BY <2>1, <2>2
<1>4. ASSUME NEW r \in Slots, CommitBid(r)
      PROVE  Goal
  <2>1. req[r].order \in Orders /\ req[r].driver \in Drivers
    BY <1>4, PendingTyped DEF CommitBid, UnlockedOps, OrderOps, DriverOps, RequestOK
  <2>2. bids' = [bids EXCEPT ![req[r].order][req[r].driver] =
                   [status |-> "active", price |-> req[r].price, updates |-> 0]]
    BY <1>4 DEF CommitBid
  <2> QED BY <1>3, <2>1, <2>2
<1>5. ASSUME NEW r \in Slots, CommitUpdateBid(r)
      PROVE  Goal
  <2> PICK o1 \in Orders, d1 \in Drivers : o1 = req[r].order /\ d1 = req[r].driver
    BY <1>5, PendingTyped DEF CommitUpdateBid, UnlockedOps, OrderOps, DriverOps, RequestOK
  <2> DEFINE b == Repriced(bids[o1][d1], req[r].bid, req[r].price)
  <2>1. bids' = [bids EXCEPT ![o1][d1] = b]
    BY <1>5 DEF CommitUpdateBid
  <2>2. bids[o1][d1] \in Bid
    <3>1. RequestOK(req[r]) /\ req[r].op = "update_bid"
      BY <1>5, PendingTyped DEF CommitUpdateBid, UnlockedOps
    <3>2. bids[o1][d1] # None
      BY <3>1 DEF RequestOK
    <3> QED BY <3>2
  <2>3. b.status = bids[o1][d1].status
    BY <2>2 DEF Repriced, Bid
  <2>4. bids[o1][d1] # None
    BY <2>2, NoneIsFresh DEF NoneIsFresh
  <2> QED BY <1>3, <2>1, <2>3, <2>4
<1>6. ASSUME NEW r \in Slots, CommitReject(r)
      PROVE  Goal
  <2> PICK o1 \in Orders, d1 \in Drivers :
             /\ o1 = req[r].order /\ d1 = req[r].driver
             /\ req[r].bid # None => bids[o1][d1] # None
    BY <1>6, PendingTyped DEF CommitReject, UnlockedOps, OrderOps, DriverOps, RequestOK
  <2> DEFINE b == BidDeclined(bids[o1][d1], req[r].bid)
  <2>1. bids' = [bids EXCEPT ![o1][d1] = b]
    BY <1>6 DEF CommitReject
  <2>2. b = bids[o1][d1] \/ b.status = "rejected"
    <3>1. CASE req[r].bid = None
      BY <3>1 DEF BidDeclined
    <3>2. CASE req[r].bid # None
      <4>1. bids[o1][d1] \in Bid
        BY <3>2
      <4> QED BY <4>1 DEF BidDeclined, Bid
    <3> QED BY <3>1, <3>2
  <2> QED BY <1>3, <2>1, <2>2
<1>7. ASSUME NEW o1 \in Orders, NEW role \in StaffRoles, CancelOrderManually(o1, role)
      PROVE  Goal
  <2>1. bids' = [bids EXCEPT ![o1] = BidsClosed(o1)]
    BY <1>7 DEF CancelOrderManually
  <2> SUFFICES ASSUME NEW x \in Drivers, IsAccepted(o, x)'
               PROVE  IsAccepted(o, x)
    OBVIOUS
  <2>2. CASE o # o1
    BY <2>1, <2>2
  <2>3. CASE o = o1
    <3>1. bids'[o][x] = BidsClosed(o)[x]
      BY <2>1, <2>3
    <3>2. bids[o][x] = None \/ bids[o][x] \in Bid
      OBVIOUS
    <3> QED BY <3>1, <3>2 DEF BidsClosed, HasActiveBid, Bid
  <2> QED BY <2>2, <2>3
<1>8. CASE ClientNext
  BY <1>1, <1>2, <1>8, ZenonT(40)
     DEF ClientNext, CreateOrderDraft, ConfirmDelivered, BeginPublish, BeginCancel,
         BeginEdit, CommitPublish, CommitEdit, CommitCancel, Begin, dataVars
<1>9. CASE DriverNext
  BY <1>1, <1>4, <1>5, <1>6, <1>9, ZenonT(40)
     DEF DriverNext, BeginBid, BeginUpdateBid, BeginReject, BeginDelivery, CommitMark,
         CommitDriverCancel, Begin, dataVars
<1>10. CASE StaffNext
  BY <1>1, <1>7, <1>10 DEF StaffNext, UpdateOrderStatus, UpdateDriverCommission
<1>11. CASE AccountNext
  BY <1>1, <1>11 DEF AccountNext, GoOffline, BlockDriver, BeginGoOnline, BeginDeleteAccount,
                     CommitGoOnline, CommitDeleteAccount, Begin, dataVars
<1>12. CASE DisputeNext
  BY <1>1, <1>12 DEF DisputeNext, OpenDispute, UpdateDispute
<1>13. CASE \E r \in Slots : Abort(r)
  BY <1>1, <1>13 DEF Abort, dataVars
<1> QED BY <1>8, <1>9, <1>10, <1>11, <1>12, <1>13 DEF Next

\* order_service.py: closing every other bid of the order, whatever its status,
\* is what keeps one accepted bid when a late bid or a correction has reopened
\* an order that already had one.
THEOREM OneBidWins ==
    ASSUME "assign" \notin Ops
    PROVE  Spec => []OneAcceptedBid
<1>1. MarketInit => OneAcceptedBid
  BY DEF MarketInit, Init, OneAcceptedBid
<1>2. TypeInv /\ OneAcceptedBid /\ [Next]_vars => OneAcceptedBid'
  <2> SUFFICES ASSUME TypeInv, OneAcceptedBid, [Next]_vars PROVE OneAcceptedBid'
    OBVIOUS
  <2>1. CASE UNCHANGED vars
    BY <2>1 DEF vars, OneAcceptedBid
  <2>2. CASE Next
    BY <2>2, AcceptedEffect DEF OneAcceptedBid, IsAccepted
  <2> QED BY <2>1, <2>2
<1> QED BY <1>1, <1>2, TypeInvHolds, PTL DEF Spec
=============================================================================
