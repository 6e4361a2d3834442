---------------------------- MODULE SerialProofs ----------------------------
(***************************************************************************)
(* Theorems about Marketplace with one worker thread: requests do not      *)
(* overlap, for any number of orders, drivers and disputes.  They say what *)
(* the services achieve with the tests they make, and so what an overlap   *)
(* of requests can break: the same statements are false for two threads.   *)
(***************************************************************************)
EXTENDS MarketplaceProofs

\* One worker thread.
Serial == \A r, s \in Slots : r = s

\* What a pending request has read is what it will find: the tests that its
\* Begin made still hold, and the columns it remembers have not changed.
Current(q) ==
    /\ q.op = "publish" => orders[q.order].status = "draft" /\ q.seen = "draft"
    /\ q.op = "edit" => orders[q.order].status = "draft"
    /\ q.op = "cancel" => /\ orders[q.order].status \in ClientCancelAllowed
                          /\ q.seen = orders[q.order].status
    /\ q.op = "bid" => /\ orders[q.order].status \in OpenFeed
                       /\ q.seen = orders[q.order].status
                       /\ bids[q.order][q.driver] = None
    /\ q.op = "update_bid" => /\ orders[q.order].status \in OpenFeed
                              /\ q.bid = bids[q.order][q.driver]
                              /\ CanChangePrice(q.bid, q.price)
    /\ q.op = "reject" => /\ q.bid = bids[q.order][q.driver]
                          /\ q.offer = offers[q.order][q.driver]
    /\ q.op = "availability" => InGoodStanding(q.driver)
    /\ q.op = "delete_account" => BlockingOrders(q.driver) = {}

ReadsAreCurrent == \A r \in Slots : req[r] # None => Current(req[r])

LEMMA SerialRequests ==
    ASSUME Serial, TypeInv
    PROVE  /\ FreeWorker => \A r \in Slots : req[r] = None
           /\ \A r \in Slots : Finish(r) => \A x \in Slots : req'[x] = None
BY DEF Serial, TypeInv, MarketTypeOK, TypeOK, FreeWorker, Finish

\* A request that begins has just read what it remembers.
LEMMA BeginIsCurrent ==
    ASSUME Serial, TypeInv, NEW r \in Slots, NEW q, Begin(r, q), Current(q)
    PROVE  ReadsAreCurrent'
<1>1. Current(q)'
  BY DEF Begin, dataVars, Current, InGoodStanding, BlockingOrders
<1>2. \A x \in Slots : req'[x] = q
  BY DEF Serial, Begin, TypeInv, MarketTypeOK, TypeOK
<1> QED BY <1>1, <1>2 DEF ReadsAreCurrent

LEMMA CurrentStep ==
    ASSUME Serial, TypeInv, ReadsAreCurrent, [Next]_vars
    PROVE  ReadsAreCurrent'
<1>1. CASE UNCHANGED vars
  BY <1>1 DEF vars, ReadsAreCurrent, Current, InGoodStanding, BlockingOrders
<1>2. ASSUME FreeWorker, UNCHANGED req PROVE ReadsAreCurrent'
  BY <1>2, SerialRequests DEF ReadsAreCurrent
<1>3. ASSUME NEW r \in Slots, Finish(r) PROVE ReadsAreCurrent'
  BY <1>3, SerialRequests DEF ReadsAreCurrent
<1>4. CASE ClientNext
  <2>1. ASSUME NEW r \in Slots, NEW o \in Orders, BeginPublish(r, o) PROVE ReadsAreCurrent'
    <3>1. Current(ClientRequest("publish", o, orders[o].route))
      BY <2>1 DEF BeginPublish, ClientRequest, Current
    <3> QED BY <2>1, <3>1, BeginIsCurrent DEF BeginPublish
  <2>2. ASSUME NEW r \in Slots, NEW o \in Orders, BeginCancel(r, o) PROVE ReadsAreCurrent'
    <3>1. Current(ClientRequest("cancel", o, None))
      BY <2>2 DEF BeginCancel, ClientRequest, Current
    <3> QED BY <2>2, <3>1, BeginIsCurrent DEF BeginCancel
  <2>3. ASSUME NEW r \in Slots, NEW o \in Orders, NEW rt \in Routes, BeginEdit(r, o, rt)
        PROVE  ReadsAreCurrent'
    <3>1. Current(ClientRequest("edit", o, rt))
      BY <2>3 DEF BeginEdit, ClientRequest, Current
    <3> QED BY <2>3, <3>1, BeginIsCurrent DEF BeginEdit
  <2> QED BY <1>2, <1>3, <1>4, <2>1, <2>2, <2>3, ZenonT(40)
          DEF ClientNext, CreateOrderDraft, SelectDriver, ConfirmDelivered, CommitPublish,
              CommitEdit, CommitCancel
<1>5. CASE DriverNext
  <2>1. ASSUME NEW r \in Slots, NEW o \in Orders, NEW d \in Drivers, NEW p \in Prices,
               BeginBid(r, o, d, p)
        PROVE  ReadsAreCurrent'
    <3>1. Current(DriverRequest("bid", o, d, p))
      BY <2>1 DEF BeginBid, CanBid, DriverRequest, Current
    <3> QED BY <2>1, <3>1, BeginIsCurrent DEF BeginBid
  <2>2. ASSUME NEW r \in Slots, NEW o \in Orders, NEW d \in Drivers, NEW p \in Prices,
               BeginUpdateBid(r, o, d, p)
        PROVE  ReadsAreCurrent'
    <3>1. Current(DriverRequest("update_bid", o, d, p))
      BY <2>2 DEF BeginUpdateBid, DriverRequest, Current
    <3> QED BY <2>2, <3>1, BeginIsCurrent DEF BeginUpdateBid
  <2>3. ASSUME NEW r \in Slots, NEW o \in Orders, NEW d \in Drivers, BeginReject(r, o, d)
        PROVE  ReadsAreCurrent'
    <3>1. Current(DriverRequest("reject", o, d, None))
      BY DEF DriverRequest, Current
    <3> QED BY <2>3, <3>1, BeginIsCurrent DEF BeginReject
  <2>4. ASSUME NEW r \in Slots, NEW o \in Orders, NEW d \in Drivers,
               NEW op \in {"mark", "driver_cancel"}, BeginDelivery(r, op, o, d)
        PROVE  ReadsAreCurrent'
    <3> DEFINE q == [op |-> op, order |-> o, driver |-> d, seen |-> None,
                     bid |-> None, offer |-> None, price |-> None, route |-> None,
                     online |-> FALSE]
    <3>1. Current(q)
      BY DEF Current
    <3> QED BY <2>4, <3>1, BeginIsCurrent DEF BeginDelivery
  <2> QED BY <1>3, <1>5, <2>1, <2>2, <2>3, <2>4, ZenonT(40)
          DEF DriverNext, CommitBid, CommitUpdateBid, CommitReject, CommitMark,
              CommitDriverCancel
<1>6. CASE StaffNext
  BY <1>2, <1>6 DEF StaffNext, CancelOrderManually, UpdateOrderStatus, AssignDriver,
                    UpdateDriverCommission
<1>7. CASE AccountNext
  <2>1. ASSUME NEW r \in Slots, NEW d \in Drivers, BeginGoOnline(r, d) PROVE ReadsAreCurrent'
    <3>1. Current(AccountRequest("availability", d))
      BY <2>1 DEF BeginGoOnline, AccountRequest, Current
    <3> QED BY <2>1, <3>1, BeginIsCurrent DEF BeginGoOnline
  <2>2. ASSUME NEW r \in Slots, NEW d \in Drivers, BeginDeleteAccount(r, d)
        PROVE  ReadsAreCurrent'
    <3>1. Current(AccountRequest("delete_account", d))
      BY <2>2 DEF BeginDeleteAccount, AccountRequest, Current
    <3> QED BY <2>2, <3>1, BeginIsCurrent DEF BeginDeleteAccount
  <2> QED BY <1>2, <1>3, <1>7, <2>1, <2>2
          DEF AccountNext, GoOffline, BlockDriver, CommitGoOnline, CommitDeleteAccount
<1>8. CASE DisputeNext
  BY <1>2, <1>8 DEF DisputeNext, OpenDispute, UpdateDispute
<1> QED BY <1>1, <1>3, <1>4, <1>5, <1>6, <1>7, <1>8 DEF Next, Abort

\* With one worker thread no request writes on the strength of a stale read.
LEMMA ReadsStayCurrent ==
    ASSUME Serial
    PROVE  Spec => [](TypeInv /\ ReadsAreCurrent)
<1>1. MarketInit => ReadsAreCurrent
  BY DEF MarketInit, Init, ReadsAreCurrent
<1>2. TypeInv /\ ReadsAreCurrent /\ [Next]_vars => ReadsAreCurrent'
  BY CurrentStep
<1> QED BY <1>1, <1>2, TypeInvHolds, PTL DEF Spec

-----------------------------------------------------------------------------
(* With current reads every handler is one step on the rows of one order.   *)

RowsStay(o) == /\ orders'[o] = orders[o] /\ history'[o] = history[o]
               /\ bids'[o] = bids[o] /\ offers'[o] = offers[o]

BidsStay(o) == bids'[o] = bids[o] /\ offers'[o] = offers[o]

\* A status write whose history row names the status the order had.
Records(o, s, by) == /\ orders'[o].status = s /\ orders'[o].route = orders[o].route
                     /\ history'[o].old = orders[o].status /\ history'[o].by = by

Moves(o, s, by) == Records(o, s, by) /\ SameAssignment(o)

CreateStep(o) == /\ orders[o].status = None /\ orders'[o].status = "draft"
                 /\ history'[o].old = None /\ history'[o].by = "client"
                 /\ NoAssignment(o) /\ BidsStay(o)

PublishStep(o) == /\ orders[o].status = "draft"
                  /\ Moves(o, "published", "client")
                  /\ bids'[o] = bids[o]
                  /\ \A d \in Drivers : offers'[o][d] \in {offers[o][d], "shown"}

EditStep(o) == /\ orders[o].status = "draft" /\ orders'[o].status = "draft"
               /\ history'[o] = history[o]
               /\ SameAssignment(o) /\ BidsStay(o)

CancelStep(o) == /\ orders[o].status \in ClientCancelAllowed
                 /\ Moves(o, "cancelled", "client") /\ BidsStay(o)

SelectStep(o) == \E d \in Drivers :
    /\ CanSelect(o, d)
    /\ Records(o, "accepted", "client")
    /\ orders'[o].assigned = d /\ orders'[o].acceptedBid = d
    /\ orders'[o].final.price = bids[o][d].price
    /\ bids'[o] = BidsAfterSelection(o, d)
    /\ offers'[o] = [offers[o] EXCEPT ![d] = IF @ = None THEN None ELSE "bid_sent"]

ConfirmStep(o) == CanConfirm(o) /\ Moves(o, "confirmed", "client") /\ BidsStay(o)

BidStepOn(o) == \E d \in Drivers, p \in Prices :
    /\ orders[o].status \in OpenFeed
    /\ bids[o][d] = None
    /\ bids'[o] = [bids[o] EXCEPT ![d] = [status |-> "active", price |-> p, updates |-> 0]]
    /\ offers'[o] = [offers[o] EXCEPT ![d] = "bid_sent"]
    /\ \/ orders[o].status = "published" /\ Moves(o, "bidding", "driver")
       \/ orders'[o] = orders[o] /\ history'[o] = history[o]

RepriceStep(o) == \E d \in Drivers, p \in Prices :
    /\ orders[o].status \in OpenFeed
    /\ CanChangePrice(bids[o][d], p)
    /\ bids'[o] = [bids[o] EXCEPT ![d] = Repriced(bids[o][d], bids[o][d], p)]
    /\ offers'[o] = offers[o]
    /\ orders'[o] = orders[o] /\ history'[o] = history[o]

DeclineStep(o) == \E d \in Drivers :
    /\ bids'[o] = [bids[o] EXCEPT ![d] = BidDeclined(bids[o][d], bids[o][d])]
    /\ offers'[o] = [offers[o] EXCEPT ![d] = "rejected"]
    /\ orders'[o] = orders[o] /\ history'[o] = history[o]

CarryStep(o) == /\ orders[o].status \in DOMAIN DriverTransition
                /\ Moves(o, DriverTransition[orders[o].status], "driver") /\ BidsStay(o)

DriverCancelStep(o) == /\ orders[o].status = "accepted"
                       /\ Moves(o, "cancelled", "driver") /\ BidsStay(o)

StaffCancelStep(o) == \E role \in StaffRoles :
    /\ CanCancelManually(o, role)
    /\ Moves(o, "cancelled", role)
    /\ bids'[o] = BidsClosed(o) /\ offers'[o] = offers[o]

CorrectStep(o) == \E target \in OrderStatus, role \in StaffRoles :
    /\ "admin_status" \in Ops
    /\ CanSetStatus(o, target, role)
    /\ Moves(o, target, role) /\ BidsStay(o)

AssignStep(o) == \E d \in Drivers, role \in StaffRoles :
    /\ "assign" \in Ops
    /\ CanAssign(o, d)
    /\ Records(o, "accepted", role)
    /\ orders'[o].assigned = d
    /\ orders'[o].acceptedBid = IF HasActiveBid(o, d) THEN d ELSE None
    /\ bids'[o] = BidsAfterAssignment(o, d) /\ offers'[o] = offers[o]

DisputeStep(o) == \E k \in DisputeIds, role \in Roles :
    /\ disputes[k] = None /\ disputes'[k] # None
    /\ MayOpen(o, role) /\ Moves(o, "disputed", role) /\ BidsStay(o)

SettleStep(o) == \E k \in DisputeIds, role \in StaffRoles :
    /\ "settle" \in Ops
    /\ orders[o].status = "disputed"
    /\ disputes[k] # None /\ disputes[k].order = o
    /\ Moves(o, disputes[k].prev, role) /\ BidsStay(o)

AtomicStep(o) ==
    \/ CreateStep(o) \/ PublishStep(o) \/ EditStep(o) \/ CancelStep(o) \/ SelectStep(o)
    \/ ConfirmStep(o) \/ BidStepOn(o) \/ RepriceStep(o) \/ DeclineStep(o) \/ CarryStep(o)
    \/ DriverCancelStep(o) \/ StaffCancelStep(o) \/ CorrectStep(o) \/ AssignStep(o)
    \/ DisputeStep(o) \/ SettleStep(o)

AtomicOn(o) == AtomicStep(o) /\ \A x \in Orders \ {o} : RowsStay(x)

\* A status write is a write of two rows of one order.
LEMMA WriteIsLocal ==
    ASSUME TypeInv, NEW o \in Orders, NEW row, NEW old, NEW by, WriteStatus(o, row, old, by)
    PROVE  /\ orders'[o] = row
           /\ history'[o].old = old /\ history'[o].by = by
           /\ \A x \in Orders \ {o} : orders'[x] = orders[x] /\ history'[x] = history[x]
BY DEF WriteStatus, TypeInv, MarketTypeOK, TypeOK

LEMMA StatusWriteMoves ==
    ASSUME TypeInv, NEW o \in Orders, NEW s, NEW by,
           WriteStatus(o, [orders[o] EXCEPT !.status = s], orders[o].status, by)
    PROVE  /\ Moves(o, s, by)
           /\ \A x \in Orders \ {o} : orders'[x] = orders[x] /\ history'[x] = history[x]
<1> DEFINE row == [orders[o] EXCEPT !.status = s]
<1>1. orders[o] \in Order
  BY DEF TypeInv, MarketTypeOK, TypeOK
<1>2. /\ row.status = s /\ row.route = orders[o].route
      /\ row.assigned = orders[o].assigned /\ row.acceptedBid = orders[o].acceptedBid
      /\ row.final = orders[o].final
  BY <1>1 DEF Order
<1>3. /\ orders'[o] = row /\ history'[o].old = orders[o].status /\ history'[o].by = by
      /\ \A x \in Orders \ {o} : orders'[x] = orders[x] /\ history'[x] = history[x]
  BY WriteIsLocal
<1> HIDE DEF row
<1> QED BY <1>2, <1>3 DEF Moves, Records, SameAssignment

\* A confirmation settles the payment in the same write.
LEMMA PaymentWriteMoves ==
    ASSUME TypeInv, NEW o \in Orders, NEW s, NEW paid, NEW by,
           WriteStatus(o, [orders[o] EXCEPT !.status = s, !.paid = paid], orders[o].status, by)
    PROVE  /\ Moves(o, s, by)
           /\ \A x \in Orders \ {o} : orders'[x] = orders[x] /\ history'[x] = history[x]
<1> DEFINE row == [orders[o] EXCEPT !.status = s, !.paid = paid]
<1>1. orders[o] \in Order
  BY DEF TypeInv, MarketTypeOK, TypeOK
<1>2. /\ row.status = s /\ row.route = orders[o].route
      /\ row.assigned = orders[o].assigned /\ row.acceptedBid = orders[o].acceptedBid
      /\ row.final = orders[o].final
  BY <1>1 DEF Order
<1>3. /\ orders'[o] = row /\ history'[o].old = orders[o].status /\ history'[o].by = by
      /\ \A x \in Orders \ {o} : orders'[x] = orders[x] /\ history'[x] = history[x]
  BY WriteIsLocal
<1> HIDE DEF row
<1> QED BY <1>2, <1>3 DEF Moves, Records, SameAssignment

\* An acceptance writes the driver and the price in the same write.
LEMMA AcceptanceWrites ==
    ASSUME TypeInv, NEW o \in Orders, NEW d, NEW b, NEW f, NEW by,
           WriteStatus(o, [orders[o] EXCEPT !.status = "accepted", !.assigned = d,
                                            !.acceptedBid = b, !.final = f],
                       orders[o].status, by)
    PROVE  /\ Records(o, "accepted", by)
           /\ orders'[o].assigned = d /\ orders'[o].acceptedBid = b /\ orders'[o].final = f
           /\ \A x \in Orders \ {o} : orders'[x] = orders[x] /\ history'[x] = history[x]
<1> DEFINE row == [orders[o] EXCEPT !.status = "accepted", !.assigned = d,
                                    !.acceptedBid = b, !.final = f]
<1>1. orders[o] \in Order
  BY DEF TypeInv, MarketTypeOK, TypeOK
<1>2. /\ row.status = "accepted" /\ row.route = orders[o].route
      /\ row.assigned = d /\ row.acceptedBid = b /\ row.final = f
  BY <1>1 DEF Order
<1>3. /\ orders'[o] = row /\ history'[o].old = orders[o].status /\ history'[o].by = by
      /\ \A x \in Orders \ {o} : orders'[x] = orders[x] /\ history'[x] = history[x]
  BY WriteIsLocal
<1> HIDE DEF row
<1> QED BY <1>2, <1>3 DEF Records

Atomic == (\A x \in Orders : RowsStay(x)) \/ \E o \in Orders : AtomicOn(o)

LEMMA ClientIsAtomic ==
    ASSUME TypeInv, ReadsAreCurrent, ClientNext
    PROVE  Atomic
<1> USE DEF AtomicOn, AtomicStep, RowsStay, BidsStay
<1>0. bids \in [Orders -> [Drivers -> Bid \cup {None}]]
      /\ offers \in [Orders -> [Drivers -> OfferResult \cup {None}]]
  BY DEF TypeInv, MarketTypeOK, TypeOK
<1>1. ASSUME NEW o \in Orders, NEW rt \in Routes, CreateOrderDraft(o, rt)
      PROVE  AtomicOn(o)
  <2> DEFINE row == [NoOrder EXCEPT !.status = "draft", !.route = rt]
  <2>1. row.status = "draft" /\ row.assigned = None /\ row.acceptedBid = None
        /\ row.final = None
    BY DEF NoOrder
  <2>2. /\ orders'[o] = row /\ history'[o].old = None /\ history'[o].by = "client"
        /\ \A x \in Orders \ {o} : orders'[x] = orders[x] /\ history'[x] = history[x]
    BY <1>1, WriteIsLocal DEF CreateOrderDraft
  <2> HIDE DEF row
  <2>3. CreateStep(o)
    BY <1>1, <2>1, <2>2 DEF CreateOrderDraft, CreateStep, NoAssignment
  <2> QED BY <1>1, <2>2, <2>3 DEF CreateOrderDraft
<1>2. ASSUME NEW o \in Orders, NEW d \in Drivers, SelectDriver(o, d)
      PROVE  AtomicOn(o)
  <2>1. orders[o].status = "bidding" /\ CanSelect(o, d)
    BY <1>2 DEF SelectDriver, CanSelect
  <2>2. /\ Records(o, "accepted", "client")
        /\ orders'[o].assigned = d /\ orders'[o].acceptedBid = d
        /\ orders'[o].final = OrderIncome(AgreedPrice(o, d), rate)
        /\ \A x \in Orders \ {o} : orders'[x] = orders[x] /\ history'[x] = history[x]
    <3> DEFINE f == OrderIncome(AgreedPrice(o, d), rate)
    <3>1. WriteStatus(o, [orders[o] EXCEPT !.status = "accepted", !.assigned = d,
                                           !.acceptedBid = d, !.final = f],
                      orders[o].status, "client")
      BY <1>2, <2>1 DEF SelectDriver
    <3> HIDE DEF f
    <3>2. /\ Records(o, "accepted", "client")
          /\ orders'[o].assigned = d /\ orders'[o].acceptedBid = d /\ orders'[o].final = f
          /\ \A x \in Orders \ {o} : orders'[x] = orders[x] /\ history'[x] = history[x]
      BY <3>1, AcceptanceWrites
    <3> QED BY <3>2 DEF f
  <2>3. orders'[o].final.price = bids[o][d].price
    BY <2>2 DEF OrderIncome, AgreedPrice
  <2>4. bids' = [bids EXCEPT ![o] = BidsAfterSelection(o, d)]
    BY <1>2 DEF SelectDriver
  <2>5. offers' = [offers EXCEPT ![o] =
                      [offers[o] EXCEPT ![d] = IF @ = None THEN None ELSE "bid_sent"]]
    BY <1>2 DEF SelectDriver
  <2>6. SelectStep(o)
    <3>1. bids'[o] = BidsAfterSelection(o, d)
      BY <1>0, <2>4
    <3>2. offers'[o] = [offers[o] EXCEPT ![d] = IF @ = None THEN None ELSE "bid_sent"]
      BY <1>0, <2>5
    <3> QED BY <2>1, <2>2, <2>3, <3>1, <3>2 DEF SelectStep
  <2> QED BY <1>0, <2>2, <2>4, <2>5, <2>6
<1>3. ASSUME NEW o \in Orders, ConfirmDelivered(o)
      PROVE  AtomicOn(o)
  <2>1. orders[o].status = "delivered"
    BY <1>3 DEF ConfirmDelivered, CanConfirm
  <2>2. /\ Moves(o, "confirmed", "client")
        /\ \A x \in Orders \ {o} : orders'[x] = orders[x] /\ history'[x] = history[x]
    <3>1. WriteStatus(o, [orders[o] EXCEPT !.status = "confirmed", !.paid = TRUE],
                      orders[o].status, "client")
      BY <1>3, <2>1 DEF ConfirmDelivered
    <3> QED BY <3>1, PaymentWriteMoves
  <2> QED BY <1>3, <2>2 DEF ConfirmDelivered, ConfirmStep
<1>4. ASSUME NEW r \in Slots, CommitPublish(r)
      PROVE  AtomicOn(req[r].order)
  <2> PICK o \in Orders : o = req[r].order
    BY <1>4, PendingTyped DEF CommitPublish, UnlockedOps, OrderOps, RequestOK
  <2>1. orders[o].status = "draft" /\ req[r].seen = "draft"
    BY <1>4 DEF CommitPublish, Pending, ReadsAreCurrent, Current
  <2>2. /\ Moves(o, "published", "client")
        /\ \A x \in Orders \ {o} : orders'[x] = orders[x] /\ history'[x] = history[x]
    BY <1>4, <2>1, StatusWriteMoves DEF CommitPublish
  <2>3. offers' = [offers EXCEPT ![o] = OffersAfterPublish(o, req[r].route)] /\ bids' = bids
    BY <1>4 DEF CommitPublish
  <2>4. \A d \in Drivers : offers'[o][d] \in {offers[o][d], "shown"}
    BY <1>0, <2>3 DEF OffersAfterPublish
  <2>5. PublishStep(o)
    BY <2>1, <2>2, <2>3, <2>4 DEF PublishStep
  <2> QED BY <1>0, <2>2, <2>3, <2>5
<1>5. ASSUME NEW r \in Slots, CommitEdit(r)
      PROVE  AtomicOn(req[r].order)
  <2> PICK o \in Orders : o = req[r].order
    BY <1>5, PendingTyped DEF CommitEdit, UnlockedOps, OrderOps, RequestOK
  <2>1. orders[o].status = "draft"
    BY <1>5 DEF CommitEdit, Pending, ReadsAreCurrent, Current
  <2>2. orders' = [orders EXCEPT ![o] = [orders[o] EXCEPT !.route = req[r].route]]
    BY <1>5 DEF CommitEdit
  <2>3. orders \in [Orders -> Order]
    BY DEF TypeInv, MarketTypeOK, TypeOK
  <2>4. orders'[o].status = "draft" /\ SameAssignment(o)
    BY <2>1, <2>2, <2>3 DEF Order, SameAssignment
  <2>5. \A x \in Orders \ {o} : orders'[x] = orders[x]
    BY <2>2, <2>3
  <2> QED BY <1>5, <2>1, <2>4, <2>5 DEF CommitEdit, EditStep
<1>6. ASSUME NEW r \in Slots, CommitCancel(r)
      PROVE  AtomicOn(req[r].order)
  <2> PICK o \in Orders : o = req[r].order
    BY <1>6, PendingTyped DEF CommitCancel, UnlockedOps, OrderOps, RequestOK
  <2>1. orders[o].status \in ClientCancelAllowed /\ req[r].seen = orders[o].status
    BY <1>6 DEF CommitCancel, Pending, ReadsAreCurrent, Current
  <2>2. /\ Moves(o, "cancelled", "client")
        /\ \A x \in Orders \ {o} : orders'[x] = orders[x] /\ history'[x] = history[x]
    BY <1>6, <2>1, StatusWriteMoves DEF CommitCancel
  <2> QED BY <1>6, <2>1, <2>2 DEF CommitCancel, CancelStep
<1>7. ASSUME NEW r \in Slots, NEW q, Begin(r, q) PROVE Atomic
  BY <1>7 DEF Begin, dataVars, Atomic
<1>8. \A r \in Slots : /\ CommitPublish(r) => req[r].order \in Orders
                       /\ CommitEdit(r) => req[r].order \in Orders
                       /\ CommitCancel(r) => req[r].order \in Orders
  BY PendingTyped
     DEF CommitPublish, CommitEdit, CommitCancel, UnlockedOps, OrderOps, RequestOK
<1> HIDE DEF AtomicOn
<1> QED BY <1>1, <1>2, <1>3, <1>4, <1>5, <1>6, <1>7, <1>8, ZenonT(40)
        DEF ClientNext, BeginPublish, BeginCancel, BeginEdit, Atomic

LEMMA DriverIsAtomic ==
    ASSUME TypeInv, ReadsAreCurrent, DriverNext
    PROVE  Atomic
<1> USE DEF AtomicOn, AtomicStep, RowsStay, BidsStay
<1>0. bids \in [Orders -> [Drivers -> Bid \cup {None}]]
      /\ offers \in [Orders -> [Drivers -> OfferResult \cup {None}]]
  BY DEF TypeInv, MarketTypeOK, TypeOK
<1>1. ASSUME NEW r \in Slots, CommitBid(r)
      PROVE  \E o \in Orders : AtomicOn(o)
  <2> PICK o \in Orders, d \in Drivers, p \in Prices :
             o = req[r].order /\ d = req[r].driver /\ p = req[r].price
    BY <1>1, PendingTyped DEF CommitBid, UnlockedOps, OrderOps, DriverOps, RequestOK
  <2>1. /\ orders[o].status \in OpenFeed /\ req[r].seen = orders[o].status
        /\ bids[o][d] = None
    BY <1>1 DEF CommitBid, Pending, ReadsAreCurrent, Current
  <2>2. /\ bids' = [bids EXCEPT ![o] = [bids[o] EXCEPT ![d] =
                       [status |-> "active", price |-> p, updates |-> 0]]]
        /\ offers' = [offers EXCEPT ![o] = [offers[o] EXCEPT ![d] = "bid_sent"]]
    BY <1>1 DEF CommitBid
  <2>3. /\ bids'[o] = [bids[o] EXCEPT ![d] = [status |-> "active", price |-> p, updates |-> 0]]
        /\ offers'[o] = [offers[o] EXCEPT ![d] = "bid_sent"]
        /\ \A x \in Orders \ {o} : bids'[x] = bids[x] /\ offers'[x] = offers[x]
    BY <1>0, <2>2
  <2>4. /\ \/ orders[o].status = "published" /\ Moves(o, "bidding", "driver")
           \/ orders'[o] = orders[o] /\ history'[o] = history[o]
        /\ \A x \in Orders \ {o} : orders'[x] = orders[x] /\ history'[x] = history[x]
    <3>1. CASE req[r].seen = "published"
      <4>1. WriteStatus(o, [orders[o] EXCEPT !.status = "bidding"], orders[o].status, "driver")
        BY <1>1, <2>1, <3>1 DEF CommitBid
      <4> QED BY <2>1, <3>1, <4>1, StatusWriteMoves
    <3>2. CASE req[r].seen # "published"
      BY <1>1, <3>2 DEF CommitBid
    <3> QED BY <3>1, <3>2
  <2>5. BidStepOn(o)
    BY <2>1, <2>3, <2>4 DEF BidStepOn
  <2> QED BY <2>3, <2>4, <2>5
<1>2. ASSUME NEW r \in Slots, CommitUpdateBid(r)
      PROVE  \E o \in Orders : AtomicOn(o)
  <2> PICK o \in Orders, d \in Drivers, p \in Prices :
             o = req[r].order /\ d = req[r].driver /\ p = req[r].price
    BY <1>2, PendingTyped DEF CommitUpdateBid, UnlockedOps, OrderOps, DriverOps, RequestOK
  <2>1. /\ orders[o].status \in OpenFeed
        /\ CanChangePrice(bids[o][d], p)
        /\ req[r].bid = bids[o][d]
    BY <1>2 DEF CommitUpdateBid, Pending, ReadsAreCurrent, Current
  <2>2. bids' = [bids EXCEPT ![o] = [bids[o] EXCEPT ![d] = Repriced(bids[o][d], bids[o][d], p)]]
    BY <1>2, <2>1 DEF CommitUpdateBid
  <2>3. /\ bids'[o] = [bids[o] EXCEPT ![d] = Repriced(bids[o][d], bids[o][d], p)]
        /\ \A x \in Orders \ {o} : bids'[x] = bids[x]
    BY <1>0, <2>2
  <2>4. RepriceStep(o)
    BY <1>2, <2>1, <2>3 DEF CommitUpdateBid, RepriceStep
  <2> QED BY <1>2, <2>3, <2>4 DEF CommitUpdateBid
<1>3. ASSUME NEW r \in Slots, CommitReject(r)
      PROVE  \E o \in Orders : AtomicOn(o)
  <2> PICK o \in Orders, d \in Drivers : o = req[r].order /\ d = req[r].driver
    BY <1>3, PendingTyped DEF CommitReject, UnlockedOps, OrderOps, DriverOps, RequestOK
  <2>1. req[r].bid = bids[o][d] /\ req[r].offer = offers[o][d]
    BY <1>3 DEF CommitReject, Pending, ReadsAreCurrent, Current
  <2>2. bids' = [bids EXCEPT ![o] = [bids[o] EXCEPT ![d] = BidDeclined(bids[o][d], bids[o][d])]]
    BY <1>3, <2>1 DEF CommitReject
  <2>3. offers' = [offers EXCEPT ![o] = [offers[o] EXCEPT ![d] = "rejected"]]
    BY <1>3, <2>1 DEF CommitReject
  <2>4. /\ bids'[o] = [bids[o] EXCEPT ![d] = BidDeclined(bids[o][d], bids[o][d])]
        /\ offers'[o] = [offers[o] EXCEPT ![d] = "rejected"]
        /\ \A x \in Orders \ {o} : bids'[x] = bids[x] /\ offers'[x] = offers[x]
    BY <1>0, <2>2, <2>3
  <2>5. DeclineStep(o)
    BY <1>3, <2>4 DEF CommitReject, DeclineStep
  <2> QED BY <1>3, <2>4, <2>5 DEF CommitReject
<1>4. ASSUME NEW r \in Slots, CommitMark(r)
      PROVE  \E o \in Orders : AtomicOn(o)
  <2> PICK o \in Orders : o = req[r].order
    BY <1>4, PendingTyped DEF CommitMark, UnlockedOps, OrderOps, RequestOK
  <2>1. /\ orders[o].status \in DOMAIN DriverTransition
        /\ WriteStatus(o, [orders[o] EXCEPT !.status = DriverTransition[orders[o].status]],
                       orders[o].status, "driver")
    BY <1>4 DEF CommitMark
  <2>2. /\ Moves(o, DriverTransition[orders[o].status], "driver")
        /\ \A x \in Orders \ {o} : orders'[x] = orders[x] /\ history'[x] = history[x]
    BY <2>1, StatusWriteMoves
  <2> QED BY <1>4, <2>1, <2>2 DEF CommitMark, CarryStep
<1>5. ASSUME NEW r \in Slots, CommitDriverCancel(r)
      PROVE  \E o \in Orders : AtomicOn(o)
  <2> PICK o \in Orders : o = req[r].order
    BY <1>5, PendingTyped DEF CommitDriverCancel, UnlockedOps, OrderOps, RequestOK
  <2>1. /\ orders[o].status = "accepted"
        /\ WriteStatus(o, [orders[o] EXCEPT !.status = "cancelled"], orders[o].status, "driver")
    BY <1>5 DEF CommitDriverCancel
  <2>2. /\ Moves(o, "cancelled", "driver")
        /\ \A x \in Orders \ {o} : orders'[x] = orders[x] /\ history'[x] = history[x]
    BY <2>1, StatusWriteMoves
  <2> QED BY <1>5, <2>1, <2>2 DEF CommitDriverCancel, DriverCancelStep
<1>6. ASSUME NEW r \in Slots, NEW q, Begin(r, q) PROVE Atomic
  BY <1>6 DEF Begin, dataVars, Atomic
<1> HIDE DEF AtomicOn
<1> QED BY <1>1, <1>2, <1>3, <1>4, <1>5, <1>6, ZenonT(40)
        DEF DriverNext, BeginBid, BeginUpdateBid, BeginReject, BeginDelivery, Atomic

LEMMA StaffIsAtomic ==
    ASSUME TypeInv, StaffNext
    PROVE  Atomic
<1> USE DEF AtomicOn, AtomicStep, RowsStay, BidsStay
<1>0. bids \in [Orders -> [Drivers -> Bid \cup {None}]]
  BY DEF TypeInv, MarketTypeOK, TypeOK
<1>1. ASSUME NEW o \in Orders, NEW role \in StaffRoles, CancelOrderManually(o, role)
      PROVE  AtomicOn(o)
  <2>1. /\ Moves(o, "cancelled", role)
        /\ \A x \in Orders \ {o} : orders'[x] = orders[x] /\ history'[x] = history[x]
    BY <1>1, StatusWriteMoves DEF CancelOrderManually
  <2>2. /\ CanCancelManually(o, role)
        /\ bids' = [bids EXCEPT ![o] = BidsClosed(o)] /\ offers' = offers
    BY <1>1 DEF CancelOrderManually
  <2>3. bids'[o] = BidsClosed(o) /\ \A x \in Orders \ {o} : bids'[x] = bids[x]
    BY <1>0, <2>2
  <2>4. StaffCancelStep(o)
    BY <2>1, <2>2, <2>3 DEF StaffCancelStep
  <2> QED BY <2>1, <2>2, <2>3, <2>4
<1>2. ASSUME NEW o \in Orders, NEW target \in OrderStatus, NEW role \in StaffRoles,
             "admin_status" \in Ops, UpdateOrderStatus(o, target, role)
      PROVE  AtomicOn(o)
  <2>1. /\ Moves(o, target, role)
        /\ \A x \in Orders \ {o} : orders'[x] = orders[x] /\ history'[x] = history[x]
    BY <1>2, PaymentWriteMoves DEF UpdateOrderStatus
  <2>2. CorrectStep(o)
    BY <1>2, <2>1 DEF UpdateOrderStatus, CorrectStep
  <2> QED BY <1>2, <2>1, <2>2 DEF UpdateOrderStatus
<1>3. ASSUME NEW o \in Orders, NEW d \in Drivers, NEW mills \in RawPrices,
             NEW role \in StaffRoles, "assign" \in Ops, AssignDriver(o, d, mills, role)
      PROVE  AtomicOn(o)
  <2>1. /\ Records(o, "accepted", role)
        /\ orders'[o].assigned = d
        /\ orders'[o].acceptedBid = IF HasActiveBid(o, d) THEN d ELSE None
        /\ \A x \in Orders \ {o} : orders'[x] = orders[x] /\ history'[x] = history[x]
    <3> DEFINE b == IF HasActiveBid(o, d) THEN d ELSE None
               f == OrderIncome(QuantizeMoney(mills), rate)
    <3>1. WriteStatus(o, [orders[o] EXCEPT !.status = "accepted", !.assigned = d,
                                           !.acceptedBid = b, !.final = f],
                      orders[o].status, role)
      BY <1>3 DEF AssignDriver
    <3> HIDE DEF b, f
    <3>2. /\ Records(o, "accepted", role)
          /\ orders'[o].assigned = d /\ orders'[o].acceptedBid = b /\ orders'[o].final = f
          /\ \A x \in Orders \ {o} : orders'[x] = orders[x] /\ history'[x] = history[x]
      BY <3>1, AcceptanceWrites
    <3> QED BY <3>2 DEF b
  <2>2. /\ CanAssign(o, d)
        /\ bids' = [bids EXCEPT ![o] = BidsAfterAssignment(o, d)] /\ offers' = offers
    BY <1>3 DEF AssignDriver
  <2>3. bids'[o] = BidsAfterAssignment(o, d) /\ \A x \in Orders \ {o} : bids'[x] = bids[x]
    BY <1>0, <2>2
  <2>4. AssignStep(o)
    BY <1>3, <2>1, <2>2, <2>3 DEF AssignStep
  <2> QED BY <2>1, <2>2, <2>3, <2>4
<1>4. ASSUME NEW p \in Percents, UpdateDriverCommission(p) PROVE Atomic
  BY <1>4 DEF UpdateDriverCommission, Atomic
<1> HIDE DEF AtomicOn
<1> QED BY <1>1, <1>2, <1>3, <1>4 DEF StaffNext, Atomic

LEMMA DisputeIsAtomic ==
    ASSUME TypeInv, DisputeNext
    PROVE  Atomic
<1> USE DEF AtomicOn, AtomicStep, RowsStay, BidsStay
<1>1. ASSUME NEW k \in DisputeIds, NEW o \in Orders, NEW role \in Roles, OpenDispute(k, o, role)
      PROVE  AtomicOn(o)
  <2>1. /\ Moves(o, "disputed", role)
        /\ \A x \in Orders \ {o} : orders'[x] = orders[x] /\ history'[x] = history[x]
    BY <1>1, StatusWriteMoves DEF OpenDispute
  <2>2. disputes[k] = None /\ disputes'[k] # None
    BY <1>1, OpenEffect
  <2> QED BY <1>1, <2>1, <2>2 DEF OpenDispute, DisputeStep
<1>2. ASSUME NEW k \in DisputeIds, NEW target \in ActiveDispute \cup FinalDispute,
             NEW role \in StaffRoles, "settle" \in Ops, UpdateDispute(k, target, role)
      PROVE  Atomic
  <2> PICK o \in Orders : o = disputes[k].order
    BY <1>2 DEF UpdateDispute, CanUpdateDispute, TypeInv, MarketTypeOK, DisputesTypeOK, Dispute
  <2>1. CASE RestoresOrder(k, target)
    <3>1. orders[o].status = "disputed" /\ disputes[k] # None
      BY <1>2, <2>1 DEF RestoresOrder, UpdateDispute, CanUpdateDispute
    <3>2. WriteStatus(o, [orders[o] EXCEPT !.status = disputes[k].prev], "disputed", role)
      BY <1>2, <2>1, Zenon DEF UpdateDispute, RestoredStatus
    <3>3. /\ Moves(o, disputes[k].prev, role)
          /\ \A x \in Orders \ {o} : orders'[x] = orders[x] /\ history'[x] = history[x]
      BY <3>1, <3>2, StatusWriteMoves
    <3>4. SettleStep(o)
      BY <1>2, <3>1, <3>3 DEF UpdateDispute, SettleStep
    <3>5. AtomicOn(o)
      BY <1>2, <3>3, <3>4 DEF UpdateDispute
    <3> QED BY <3>5 DEF Atomic
  <2>2. CASE ~RestoresOrder(k, target)
    BY <1>2, <2>2 DEF UpdateDispute, Atomic
  <2> QED BY <2>1, <2>2
<1> HIDE DEF AtomicOn
<1> QED BY <1>1, <1>2 DEF DisputeNext, Atomic

\* With one worker thread every step of every service either leaves the orders,
\* bids and offers alone or is one step on one order.
LEMMA NextIsAtomic ==
    ASSUME TypeInv, ReadsAreCurrent, Next
    PROVE  Atomic
<1>1. CASE AccountNext
  BY <1>1 DEF AccountNext, GoOffline, BlockDriver, BeginGoOnline, BeginDeleteAccount, Begin,
              CommitGoOnline, CommitDeleteAccount, dataVars, Atomic, RowsStay
<1>2. CASE \E r \in Slots : Abort(r)
  BY <1>2 DEF Abort, dataVars, Atomic, RowsStay
<1> QED BY <1>1, <1>2, ClientIsAtomic, DriverIsAtomic, StaffIsAtomic, DisputeIsAtomic DEF Next

-----------------------------------------------------------------------------
(* Statuses and routes: what no sequence of requests can do.               *)

LEMMA OrderMoves ==
    ASSUME TypeInv, ReadsAreCurrent, Next, NEW o \in Orders
    PROVE  RowsStay(o) \/ AtomicStep(o)
BY NextIsAtomic DEF Atomic, AtomicOn

\* order_service.py, driver_order_service.py, admin_order_service.py,
\* dispute_service.py: each status_history row names the status the order had,
\* so the rows of an order form a chain.
THEOREM HistoryIsAChain ==
    ASSUME Serial
    PROVE  Spec => HistoryIsChain
<1>1. ASSUME TypeInv, ReadsAreCurrent, Next, NEW o \in Orders, history'[o] # history[o]
      PROVE  history'[o].old = orders[o].status
  <2>1. AtomicStep(o)
    BY <1>1, OrderMoves DEF RowsStay
  <2> QED BY <1>1, <2>1
          DEF AtomicStep, CreateStep, PublishStep, EditStep, CancelStep, SelectStep, ConfirmStep,
              BidStepOn, RepriceStep, DeclineStep, CarryStep, DriverCancelStep, StaffCancelStep,
              CorrectStep, AssignStep, DisputeStep, SettleStep, Moves, Records
<1>2. TypeInv /\ ReadsAreCurrent /\ [Next]_vars =>
         [\A o \in Orders : history'[o] # history[o] => history'[o].old = orders[o].status]_vars
  BY <1>1
<1> QED BY <1>2, ReadsStayCurrent, PTL DEF Spec, HistoryIsChain

\* validate_manual_status_transition and the tests of every other service: no
\* request brings a cancelled order back.
THEOREM CancelledStays ==
    ASSUME Serial
    PROVE  Spec => CancelledIsFinal
<1>1. ASSUME TypeInv, ReadsAreCurrent, Next, NEW o \in Orders, orders[o].status = "cancelled"
      PROVE  orders'[o].status = "cancelled"
  <2>1. CASE RowsStay(o)
    BY <1>1, <2>1 DEF RowsStay
  <2>2. CASE AtomicStep(o)
    <3>1. ~CreateStep(o)
      BY <1>1, NoneIsFresh DEF CreateStep, NoneIsFresh, OrderStatus
    <3>2. ~DisputeStep(o)
      BY <1>1 DEF DisputeStep, MayOpen, UserDisputable, AdminDisputable
    <3>3. ~CarryStep(o)
      BY <1>1 DEF CarryStep, DriverTransition
    <3> QED BY <1>1, <2>2, <3>1, <3>2, <3>3
            DEF AtomicStep, PublishStep, EditStep, CancelStep, SelectStep, CanSelect,
                ConfirmStep, CanConfirm, BidStepOn, RepriceStep, DeclineStep, OpenFeed,
                DriverCancelStep, StaffCancelStep, CanCancelManually, CorrectStep,
                CanSetStatus, AssignStep, CanAssign, SettleStep, Moves, Records
  <2> QED BY <1>1, <2>1, <2>2, OrderMoves
<1>2. TypeInv /\ ReadsAreCurrent /\ [Next]_vars =>
         [\A o \in Orders : orders[o].status = "cancelled" => orders'[o].status = "cancelled"]_vars
  BY <1>1
<1> QED BY <1>2, ReadsStayCurrent, PTL DEF Spec, CancelledIsFinal

\* cancel_order: a client cancels before pickup or not at all.  (False for two
\* worker threads: the driver may pick up between the test and the write.)
THEOREM ClientCancelsInTime ==
    ASSUME Serial
    PROVE  Spec => ClientCancelsBeforePickup
<1>1. ASSUME TypeInv, ReadsAreCurrent, Next, NEW o \in Orders,
             orders[o].status # "cancelled", orders'[o].status = "cancelled",
             history'[o].by = "client"
      PROVE  orders[o].status \in ClientCancelAllowed
  <2>1. AtomicStep(o)
    BY <1>1, OrderMoves DEF RowsStay
  <2>2. ~CarryStep(o)
    BY <1>1 DEF CarryStep, DriverTransition, Moves, Records
  <2>3. /\ ~StaffCancelStep(o) /\ ~CorrectStep(o) /\ ~AssignStep(o) /\ ~SettleStep(o)
        /\ ~DriverCancelStep(o)
    BY <1>1 DEF StaffCancelStep, CorrectStep, AssignStep, SettleStep, DriverCancelStep,
                StaffRoles, Moves, Records
  <2> QED BY <1>1, <2>1, <2>2, <2>3
          DEF AtomicStep, CreateStep, PublishStep, EditStep, CancelStep, SelectStep, ConfirmStep,
              BidStepOn, RepriceStep, DeclineStep, DisputeStep, Moves, Records
<1>2. TypeInv /\ ReadsAreCurrent /\ [Next]_vars =>
         [\A o \in Orders : /\ orders[o].status # "cancelled"
                            /\ orders'[o].status = "cancelled"
                            /\ history'[o].by = "client"
                            => orders[o].status \in ClientCancelAllowed]_vars
  BY <1>1
<1> QED BY <1>2, ReadsStayCurrent, PTL DEF Spec, ClientCancelsBeforePickup

\* update_order: the route of an order that drivers have been shown stays.
THEOREM RouteIsLocked ==
    ASSUME Serial
    PROVE  Spec => PublishedRouteIsLocked
<1>1. ASSUME TypeInv, ReadsAreCurrent, Next, NEW o \in Orders,
             orders[o].status \notin {None, "draft"}
      PROVE  orders'[o].route = orders[o].route
  <2>1. CASE RowsStay(o)
    BY <2>1 DEF RowsStay
  <2>2. CASE AtomicStep(o)
    BY <1>1, <2>2
       DEF AtomicStep, CreateStep, PublishStep, EditStep, CancelStep, SelectStep, ConfirmStep,
           BidStepOn, RepriceStep, DeclineStep, CarryStep, DriverCancelStep, StaffCancelStep,
           CorrectStep, AssignStep, DisputeStep, SettleStep, Moves, Records
  <2> QED BY <1>1, <2>1, <2>2, OrderMoves
<1>2. TypeInv /\ ReadsAreCurrent /\ [Next]_vars =>
         [\A o \in Orders : orders[o].status \notin {None, "draft"} =>
                               orders'[o].route = orders[o].route]_vars
  BY <1>1
<1> QED BY <1>2, ReadsStayCurrent, PTL DEF Spec, PublishedRouteIsLocked

-----------------------------------------------------------------------------
(* Bids: what one step does to the bid and the offer of a driver.          *)

\* A bid that stays, with an offer that is not being declined under it.
KeepsBid(o, d) == /\ bids'[o][d] = bids[o][d]
                  /\ offers'[o][d] = "rejected" =>
                        \/ offers[o][d] = "rejected"
                        \/ bids[o][d] = None \/ bids[o][d].status # "active"

PlacesBid(o, d) == /\ orders[o].status \in OpenFeed
                   /\ bids[o][d] = None
                   /\ bids'[o][d] # None /\ bids'[o][d].status = "active"
                   /\ offers'[o][d] = "bid_sent"

RepricesBid(o, d) == /\ orders[o].status \in OpenFeed
                     /\ bids[o][d] # None /\ bids[o][d].status = "active"
                     /\ bids'[o][d] # None /\ bids'[o][d].status = "active"
                     /\ bids'[o][d].updates = bids[o][d].updates + 1
                     /\ offers'[o][d] = offers[o][d]

EndsBid(o, d) == /\ bids[o][d] # None /\ bids'[o][d] # None
                 /\ bids[o][d].status = "active" \/ SelectStep(o)
                 /\ bids'[o][d].status = "accepted" => SelectStep(o) \/ AssignStep(o)
                 /\ bids'[o][d].status # "active"
                 /\ bids'[o][d].price = bids[o][d].price

\* Selecting, assigning, closing and declining write the status of a bid.
LEMMA EndedBid ==
    ASSUME NEW bid \in Bid, NEW s \in {"accepted", "closed", "rejected"}, NEW new,
           new = [bid EXCEPT !.status = s]
    PROVE  /\ new \in Bid /\ new # None
           /\ new.status = s /\ new.price = bid.price
BY NoneIsFresh DEF Bid, BidStatus, NoneIsFresh

LEMMA RepricedBid ==
    ASSUME NEW bid \in Bid, NEW p \in Prices, bid.updates < MaxBidPriceUpdates, NEW new,
           new = Repriced(bid, bid, p)
    PROVE  /\ new \in Bid /\ new # None
           /\ new.status = bid.status /\ new.updates = bid.updates + 1
<1>1. bid.updates + 1 \in 0..MaxBidPriceUpdates
  BY DEF Bid, MaxBidPriceUpdates
<1>2. new \in Bid
  BY <1>1 DEF Bid, Repriced
<1>3. new.status = bid.status /\ new.updates = bid.updates + 1
  BY DEF Bid, Repriced
<1> QED BY <1>2, <1>3, NoneIsFresh DEF NoneIsFresh

LEMMA BidMoves ==
    ASSUME TypeInv, NEW o \in Orders, NEW d \in Drivers, AtomicStep(o)
    PROVE  KeepsBid(o, d) \/ PlacesBid(o, d) \/ RepricesBid(o, d) \/ EndsBid(o, d)
<1> DEFINE Goal == KeepsBid(o, d) \/ PlacesBid(o, d) \/ RepricesBid(o, d) \/ EndsBid(o, d)
<1>0. /\ bids[o] \in [Drivers -> Bid \cup {None}]
      /\ offers[o] \in [Drivers -> OfferResult \cup {None}]
      /\ bids[o][d] # None => bids[o][d] \in Bid
  BY DEF TypeInv, MarketTypeOK, TypeOK
<1>1. ASSUME BidsStay(o) PROVE Goal
  BY <1>1 DEF BidsStay, KeepsBid
<1>2. ASSUME PublishStep(o) PROVE Goal
  BY <1>2 DEF PublishStep, KeepsBid
<1>3. ASSUME SelectStep(o) PROVE Goal
  <2> PICK x \in Drivers :
             /\ bids'[o] = BidsAfterSelection(o, x)
             /\ offers'[o] = [offers[o] EXCEPT ![x] = IF @ = None THEN None ELSE "bid_sent"]
    BY <1>3 DEF SelectStep
  <2>1. CASE bids[o][d] = None
    BY <1>0, <2>1, NoneIsFresh DEF BidsAfterSelection, KeepsBid, NoneIsFresh
  <2>2. CASE bids[o][d] # None
    <3>1. bids'[o][d] = [bids[o][d] EXCEPT !.status = IF d = x THEN "accepted" ELSE "closed"]
      BY <2>2 DEF BidsAfterSelection
    <3>2. PICK s \in {"accepted", "closed", "rejected"} :
               bids'[o][d] = [bids[o][d] EXCEPT !.status = s]
      BY <3>1
    <3>3. bids[o][d] \in Bid
      BY <1>0, <2>2
    <3> HIDE DEF Goal
    <3>4. /\ bids'[o][d] # None
          /\ bids'[o][d].status = s /\ bids'[o][d].price = bids[o][d].price
      BY <3>2, <3>3, EndedBid
    <3>5. EndsBid(o, d)
      BY <1>3, <2>2, <3>4 DEF EndsBid
    <3> QED BY <3>5 DEF Goal
  <2> QED BY <2>1, <2>2
<1>4. ASSUME BidStepOn(o) PROVE Goal
  <2> PICK x \in Drivers, p \in Prices :
             /\ orders[o].status \in OpenFeed /\ bids[o][x] = None
             /\ bids'[o] = [bids[o] EXCEPT ![x] =
                               [status |-> "active", price |-> p, updates |-> 0]]
             /\ offers'[o] = [offers[o] EXCEPT ![x] = "bid_sent"]
    BY <1>4 DEF BidStepOn
  <2>1. CASE d = x
    <3>1. bids'[o][d] = [status |-> "active", price |-> p, updates |-> 0]
          /\ offers'[o][d] = "bid_sent"
      BY <1>0, <2>1
    <3>2. bids'[o][d] # None
      BY <3>1, NoneIsFresh DEF NoneIsFresh, Bid, BidStatus, MaxBidPriceUpdates
    <3> QED BY <2>1, <3>1, <3>2 DEF PlacesBid
  <2>2. CASE d # x
    BY <1>0, <2>2 DEF KeepsBid
  <2> QED BY <2>1, <2>2
<1>5. ASSUME RepriceStep(o) PROVE Goal
  <2> PICK x \in Drivers, p \in Prices :
             /\ orders[o].status \in OpenFeed
             /\ CanChangePrice(bids[o][x], p)
             /\ bids'[o] = [bids[o] EXCEPT ![x] = Repriced(bids[o][x], bids[o][x], p)]
             /\ offers'[o] = offers[o]
    BY <1>5 DEF RepriceStep
  <2>1. CASE d = x
    <3>1. bids'[o][d] = Repriced(bids[o][d], bids[o][d], p)
      BY <1>0, <2>1
    <3>2. /\ bids[o][d] \in Bid /\ bids[o][d].status = "active"
          /\ bids[o][d].updates < MaxBidPriceUpdates
      BY <1>0, <2>1 DEF CanChangePrice
    <3>3. /\ bids'[o][d] # None /\ bids'[o][d].status = "active"
          /\ bids'[o][d].updates = bids[o][d].updates + 1
      BY <3>1, <3>2, RepricedBid
    <3>4. bids[o][d] # None /\ offers'[o][d] = offers[o][d]
      BY <2>1 DEF CanChangePrice
    <3> QED BY <3>2, <3>3, <3>4 DEF RepricesBid
  <2>2. CASE d # x
    BY <1>0, <2>2 DEF KeepsBid
  <2> QED BY <2>1, <2>2
<1>6. ASSUME DeclineStep(o) PROVE Goal
  <2> PICK x \in Drivers :
             /\ bids'[o] = [bids[o] EXCEPT ![x] = BidDeclined(bids[o][x], bids[o][x])]
             /\ offers'[o] = [offers[o] EXCEPT ![x] = "rejected"]
    BY <1>6 DEF DeclineStep
  <2>1. CASE d = x /\ bids[o][d] # None /\ bids[o][d].status = "active"
    <3>1. bids'[o][d] = [bids[o][d] EXCEPT !.status = "rejected"]
      BY <1>0, <2>1 DEF BidDeclined
    <3> QED BY <1>0, <2>1, <3>1, EndedBid DEF EndsBid
  <2>2. CASE d = x /\ ~(bids[o][d] # None /\ bids[o][d].status = "active")
    BY <1>0, <2>2 DEF BidDeclined, KeepsBid
  <2>3. CASE d # x
    BY <1>0, <2>3 DEF KeepsBid
  <2> QED BY <2>1, <2>2, <2>3
<1>7. ASSUME StaffCancelStep(o) PROVE Goal
  <2>1. bids'[o] = BidsClosed(o) /\ offers'[o] = offers[o]
    BY <1>7 DEF StaffCancelStep
  <2>2. CASE HasActiveBid(o, d)
    <3>1. /\ bids'[o][d] = [bids[o][d] EXCEPT !.status = "closed"]
          /\ bids[o][d] # None /\ bids[o][d].status = "active"
      BY <2>1, <2>2 DEF BidsClosed, HasActiveBid
    <3> QED BY <1>0, <3>1, EndedBid DEF EndsBid
  <2>3. CASE ~HasActiveBid(o, d)
    BY <2>1, <2>3 DEF BidsClosed, KeepsBid
  <2> QED BY <2>2, <2>3
<1>8. ASSUME AssignStep(o) PROVE Goal
  <2> PICK x \in Drivers : bids'[o] = BidsAfterAssignment(o, x) /\ offers'[o] = offers[o]
    BY <1>8 DEF AssignStep
  <2>1. CASE HasActiveBid(o, d)
    <3>1. bids'[o][d] = [bids[o][d] EXCEPT !.status = IF d = x THEN "accepted" ELSE "closed"]
          /\ bids[o][d] # None /\ bids[o][d].status = "active"
      BY <2>1 DEF BidsAfterAssignment, HasActiveBid
    <3>2. PICK s \in {"accepted", "closed", "rejected"} :
               bids'[o][d] = [bids[o][d] EXCEPT !.status = s]
      BY <3>1
    <3> QED BY <1>0, <1>8, <3>1, <3>2, EndedBid DEF EndsBid
  <2>2. CASE ~HasActiveBid(o, d)
    BY <2>2 DEF BidsAfterAssignment, KeepsBid
  <2> QED BY <2>1, <2>2
<1> HIDE DEF Goal
<1>9. Goal
  BY <1>1, <1>2, <1>3, <1>4, <1>5, <1>6, <1>7, <1>8
     DEF AtomicStep, CreateStep, EditStep, CancelStep, ConfirmStep, CarryStep,
         DriverCancelStep, CorrectStep, DisputeStep, SettleStep
<1> QED BY <1>9 DEF Goal

\* create_bid: a bid is placed on an order that is open for bids.
THEOREM BidsFindOrderOpen ==
    ASSUME Serial
    PROVE  Spec => BidsOnOpenOrders
<1>1. ASSUME TypeInv, ReadsAreCurrent, Next, NEW o \in Orders, NEW d \in Drivers,
             bids[o][d] = None, bids'[o][d] # None
      PROVE  orders[o].status \in OpenFeed
  <2>1. AtomicStep(o)
    BY <1>1, OrderMoves DEF RowsStay
  <2> QED BY <1>1, <2>1, BidMoves DEF KeepsBid, PlacesBid, RepricesBid, EndsBid
<1>2. TypeInv /\ ReadsAreCurrent /\ [Next]_vars =>
         [\A o \in Orders, d \in Drivers :
             bids[o][d] = None /\ bids'[o][d] # None => orders[o].status \in OpenFeed]_vars
  BY <1>1
<1> QED BY <1>2, ReadsStayCurrent, PTL DEF Spec, BidsOnOpenOrders

\* update_bid: a change of a price is counted.  (False for two worker threads:
\* two requests that read the same counter write the same successor.)
THEOREM PriceChangesCounted ==
    ASSUME Serial
    PROVE  Spec => PriceChangesAreCounted
<1>1. ASSUME TypeInv, ReadsAreCurrent, Next, NEW o \in Orders, NEW d \in Drivers,
             bids[o][d] # None, bids'[o][d].price # bids[o][d].price
      PROVE  bids'[o][d].updates = bids[o][d].updates + 1
  <2>1. AtomicStep(o)
    BY <1>1, OrderMoves DEF RowsStay
  <2> QED BY <1>1, <2>1, BidMoves DEF KeepsBid, PlacesBid, RepricesBid, EndsBid
<1>2. TypeInv /\ ReadsAreCurrent /\ [Next]_vars =>
         [\A o \in Orders, d \in Drivers :
             /\ bids[o][d] # None
             /\ bids'[o][d].price # bids[o][d].price
             => bids'[o][d].updates = bids[o][d].updates + 1]_vars
  BY <1>1
<1> QED BY <1>2, ReadsStayCurrent, PTL DEF Spec, PriceChangesAreCounted

\* reject_order: the offer and the bid are declined together, so a driver who
\* declined an order cannot be selected for it.
THEOREM DeclinedCannotWin ==
    ASSUME Serial
    PROVE  Spec => []DeclinedIsNotActive
<1>1. MarketInit => DeclinedIsNotActive
  BY DEF MarketInit, Init, DeclinedIsNotActive
<1>2. TypeInv /\ ReadsAreCurrent /\ DeclinedIsNotActive /\ [Next]_vars => DeclinedIsNotActive'
  <2> SUFFICES ASSUME TypeInv, ReadsAreCurrent, DeclinedIsNotActive, [Next]_vars,
                      NEW o \in Orders, NEW d \in Drivers,
                      offers'[o][d] = "rejected", bids'[o][d] # None
               PROVE  bids'[o][d].status # "active"
    BY DEF DeclinedIsNotActive
  <2>1. offers[o][d] = "rejected" /\ bids[o][d] # None => bids[o][d].status # "active"
    BY DEF DeclinedIsNotActive
  <2>2. CASE RowsStay(o) \/ UNCHANGED vars
    BY <2>1, <2>2 DEF RowsStay, vars
  <2>3. CASE AtomicStep(o)
    BY <2>1, <2>3, BidMoves DEF KeepsBid, PlacesBid, RepricesBid, EndsBid
  <2> QED BY <2>2, <2>3, OrderMoves
<1> QED BY <1>1, <1>2, ReadsStayCurrent, PTL DEF Spec

-----------------------------------------------------------------------------
(* The price of the accepted bid.                                          *)

\* Wherever the order goes, the accepted bid has ended, at the order's price.
AcceptedPriceInv ==
    \A o \in Orders :
       LET d == orders[o].acceptedBid IN
       d # None => /\ bids[o][d] # None /\ bids[o][d].status # "active"
                   /\ orders[o].final.price = bids[o][d].price

\* select_driver_for_order, update_bid: the client pays the price of the bid
\* that was selected, whatever disputes and corrections the order goes through.
\* (False for two worker threads, where a price change overlaps the selection,
\* and when staff assign a driver, at a price they agree on.)
THEOREM PaidPriceIsTheBids ==
    ASSUME Serial, "assign" \notin Ops
    PROVE  Spec => []ClientPaysTheBid
<1>1. MarketInit => AcceptedPriceInv
  BY DEF MarketInit, Init, NoOrder, AcceptedPriceInv
<1>2. TypeInv /\ ReadsAreCurrent /\ AcceptedPriceInv /\ [Next]_vars => AcceptedPriceInv'
  <2> SUFFICES ASSUME TypeInv, ReadsAreCurrent, AcceptedPriceInv, [Next]_vars,
                      NEW o \in Orders, orders'[o].acceptedBid # None
               PROVE  LET d == orders'[o].acceptedBid IN
                      /\ bids'[o][d] # None /\ bids'[o][d].status # "active"
                      /\ orders'[o].final.price = bids'[o][d].price
    BY DEF AcceptedPriceInv
  <2>1. CASE RowsStay(o) \/ UNCHANGED vars
    BY <2>1 DEF RowsStay, vars, AcceptedPriceInv
  <2>2. CASE SelectStep(o)
    <3> PICK d \in Drivers : /\ CanSelect(o, d)
                             /\ orders'[o].acceptedBid = d
                             /\ orders'[o].final.price = bids[o][d].price
                             /\ bids'[o] = BidsAfterSelection(o, d)
      BY <2>2 DEF SelectStep
    <3>1. bids[o][d] \in Bid
      BY DEF CanSelect, TypeInv, MarketTypeOK, TypeOK
    <3>2. bids'[o][d] = [bids[o][d] EXCEPT !.status = "accepted"]
      BY DEF CanSelect, BidsAfterSelection
    <3>3. /\ bids'[o][d] # None /\ bids'[o][d].status = "accepted"
          /\ bids'[o][d].price = bids[o][d].price
      BY <3>1, <3>2, EndedBid
    <3> QED BY <3>3
  <2>3. CASE AtomicStep(o) /\ ~SelectStep(o)
    <3>1. ~CreateStep(o) /\ ~AssignStep(o)
      BY DEF CreateStep, NoAssignment, AssignStep
    <3>2. /\ orders'[o].acceptedBid = orders[o].acceptedBid
          /\ orders'[o].final = orders[o].final
      BY <2>3, <3>1
         DEF AtomicStep, PublishStep, EditStep, CancelStep, ConfirmStep, BidStepOn, RepriceStep,
             DeclineStep, CarryStep, DriverCancelStep, StaffCancelStep, CorrectStep,
             DisputeStep, SettleStep, Moves, SameAssignment
    <3> DEFINE d == orders[o].acceptedBid
    <3>3. /\ d \in Drivers /\ bids[o][d] # None /\ bids[o][d].status # "active"
          /\ orders[o].final.price = bids[o][d].price
      BY <3>2 DEF AcceptedPriceInv, TypeInv, MarketTypeOK, TypeOK, Order
    <3> HIDE DEF d
    <3>4. /\ bids'[o][d] # None /\ bids'[o][d].status # "active"
          /\ bids'[o][d].price = bids[o][d].price
      BY <2>3, <3>3, BidMoves DEF KeepsBid, PlacesBid, RepricesBid, EndsBid
    <3> QED BY <3>2, <3>3, <3>4 DEF d
  <2> QED BY <2>1, <2>2, <2>3, OrderMoves
<1>3. AcceptedPriceInv => ClientPaysTheBid
  BY DEF AcceptedPriceInv, ClientPaysTheBid
<1> QED BY <1>1, <1>2, <1>3, ReadsStayCurrent, PTL DEF Spec

-----------------------------------------------------------------------------
\* While no order has been disputed back, nor corrected by hand: an order that
\* drivers can still bid on, or that is not open for bids yet, has no driver
\* and no accepted bid.
OpenIsUnassigned ==
    \A o \in Orders : orders[o].status \in OpenFeed \cup {None, "draft"} =>
       /\ orders[o].assigned = None
       /\ \A d \in Drivers : bids[o][d] # None => bids[o][d].status # "accepted"

\* Only a settlement and a correction bring an order back to bidding.
LEMMA OpenStaysUnassigned ==
    ASSUME "settle" \notin Ops, "admin_status" \notin Ops,
           TypeInv, ReadsAreCurrent, OpenIsUnassigned, [Next]_vars
    PROVE  OpenIsUnassigned'
<1> SUFFICES ASSUME NEW o \in Orders, orders'[o].status \in OpenFeed \cup {None, "draft"}
             PROVE  /\ orders'[o].assigned = None
                    /\ \A d \in Drivers : bids'[o][d] # None => bids'[o][d].status # "accepted"
  BY DEF OpenIsUnassigned
<1>1. CASE RowsStay(o) \/ UNCHANGED vars
  BY <1>1 DEF RowsStay, vars, OpenIsUnassigned
<1>2. CASE AtomicStep(o)
  <2>1. "accepted" \notin OpenFeed \cup {None, "draft"}
    BY NoneIsFresh DEF NoneIsFresh, OpenFeed, OrderStatus
  <2>2. ~SelectStep(o) /\ ~AssignStep(o)
    BY <2>1 DEF SelectStep, AssignStep, Records
  <2>3. /\ ~CancelStep(o) /\ ~ConfirmStep(o) /\ ~CarryStep(o) /\ ~DriverCancelStep(o)
        /\ ~StaffCancelStep(o) /\ ~DisputeStep(o) /\ ~CorrectStep(o) /\ ~SettleStep(o)
    BY NoneIsFresh
       DEF NoneIsFresh, OpenFeed, OrderStatus, CancelStep, ConfirmStep, CarryStep,
           DriverTransition, DriverCancelStep, StaffCancelStep, DisputeStep, CorrectStep,
           SettleStep, Moves, Records
  <2>4. /\ orders[o].status \in OpenFeed \cup {None, "draft"}
        /\ orders'[o].assigned \in {None, orders[o].assigned}
    BY <1>2, <2>2, <2>3
       DEF AtomicStep, CreateStep, NoAssignment, PublishStep, EditStep, BidStepOn, RepriceStep,
           DeclineStep, Moves, SameAssignment, OpenFeed
  <2>5. /\ orders[o].assigned = None
        /\ \A d \in Drivers : bids[o][d] # None => bids[o][d].status # "accepted"
    BY <2>4 DEF OpenIsUnassigned
  <2>6. \A d \in Drivers : bids'[o][d] # None => bids'[o][d].status # "accepted"
    BY <1>2, <2>2, <2>5, BidMoves DEF KeepsBid, PlacesBid, RepricesBid, EndsBid
  <2> QED BY <2>4, <2>5, <2>6
<1> QED BY <1>1, <1>2, OrderMoves

LEMMA OpenIsUnassignedHolds ==
    ASSUME Serial, "settle" \notin Ops, "admin_status" \notin Ops
    PROVE  Spec => []OpenIsUnassigned
<1>1. MarketInit => OpenIsUnassigned
  BY DEF MarketInit, Init, NoOrder, OpenIsUnassigned
<1>2. TypeInv /\ ReadsAreCurrent /\ OpenIsUnassigned /\ [Next]_vars => OpenIsUnassigned'
  BY OpenStaysUnassigned
<1> QED BY <1>1, <1>2, ReadsStayCurrent, PTL DEF Spec

\* select_driver_for_order, assign_driver_manually: when an order is accepted
\* its auction is over, and nothing reopens it.  (Settling an old dispute again
\* and correcting a status by hand do; two worker threads let a bid in late.)
THEOREM AuctionEnds ==
    ASSUME Serial, "settle" \notin Ops, "admin_status" \notin Ops
    PROVE  Spec => []AuctionIsSettled
<1>1. MarketInit => AuctionIsSettled
  BY DEF MarketInit, Init, AuctionIsSettled
<1>2. TypeInv /\ ReadsAreCurrent /\ OpenIsUnassigned /\ AuctionIsSettled /\ [Next]_vars
         => AuctionIsSettled'
  <2> SUFFICES ASSUME TypeInv, ReadsAreCurrent, OpenIsUnassigned, AuctionIsSettled, [Next]_vars,
                      NEW o \in Orders, orders'[o].status \in Assigned,
                      NEW d \in Drivers, bids'[o][d] # None
               PROVE  IF orders'[o].acceptedBid = d
                      THEN bids'[o][d].status = "accepted"
                      ELSE bids'[o][d].status \in {"closed", "rejected"}
    BY DEF AuctionIsSettled
  <2>1. CASE RowsStay(o) \/ UNCHANGED vars
    BY <2>1 DEF RowsStay, vars, AuctionIsSettled
  <2>2. CASE SelectStep(o)
    <3> PICK x \in Drivers : orders'[o].acceptedBid = x /\ bids'[o] = BidsAfterSelection(o, x)
      BY <2>2 DEF SelectStep
    <3>1. bids[o][d] \in Bid
      BY DEF BidsAfterSelection, TypeInv, MarketTypeOK, TypeOK
    <3>2. bids'[o][d] = [bids[o][d] EXCEPT !.status = IF d = x THEN "accepted" ELSE "closed"]
      BY DEF BidsAfterSelection
    <3>3. bids'[o][d].status = IF d = x THEN "accepted" ELSE "closed"
      BY <3>1, <3>2 DEF Bid
    <3> QED BY <3>3
  <2>3. CASE AssignStep(o)
    <3> PICK x \in Drivers : /\ CanAssign(o, x)
                             /\ orders'[o].acceptedBid = IF HasActiveBid(o, x) THEN x ELSE None
                             /\ bids'[o] = BidsAfterAssignment(o, x)
      BY <2>3 DEF AssignStep
    <3>1. bids[o][d] # None => bids[o][d] \in Bid /\ bids[o][d].status # "accepted"
      BY DEF CanAssign, OpenIsUnassigned, TypeInv, MarketTypeOK, TypeOK
    <3>2. CASE HasActiveBid(o, d)
      <4>1. bids'[o][d] = [bids[o][d] EXCEPT !.status = IF d = x THEN "accepted" ELSE "closed"]
        BY <3>2 DEF BidsAfterAssignment
      <4>2. bids'[o][d].status = IF d = x THEN "accepted" ELSE "closed"
        BY <3>1, <3>2, <4>1 DEF Bid, HasActiveBid
      <4>3. orders'[o].acceptedBid = d <=> d = x
        BY <3>2, NoneIsFresh DEF NoneIsFresh
      <4> QED BY <4>2, <4>3
    <3>3. CASE ~HasActiveBid(o, d)
      <4>1. bids'[o][d] = bids[o][d]
        BY <3>3 DEF BidsAfterAssignment
      <4>2. bids[o][d].status \in {"closed", "rejected"}
        BY <3>1, <3>3, <4>1 DEF HasActiveBid, Bid, BidStatus
      <4>3. orders'[o].acceptedBid # d
        BY <3>3, NoneIsFresh DEF NoneIsFresh
      <4> QED BY <4>1, <4>2, <4>3
    <3> QED BY <3>2, <3>3
  <2>4. CASE AtomicStep(o) /\ ~SelectStep(o) /\ ~AssignStep(o)
    <3>1. ~CreateStep(o) /\ ~DisputeStep(o) /\ ~CorrectStep(o) /\ ~SettleStep(o)
      BY DEF CreateStep, DisputeStep, CorrectStep, SettleStep, Moves, Records, Assigned
    <3>2. orders[o].status \in Assigned /\ orders'[o].acceptedBid = orders[o].acceptedBid
      BY <2>4, <3>1
         DEF AtomicStep, PublishStep, EditStep, CancelStep, ConfirmStep, CanConfirm, BidStepOn,
             RepriceStep, DeclineStep, CarryStep, DriverTransition, DriverCancelStep,
             StaffCancelStep, Moves, Records, SameAssignment, Assigned
    <3>3. bids[o][d] # None =>
             IF orders[o].acceptedBid = d THEN bids[o][d].status = "accepted"
                                          ELSE bids[o][d].status \in {"closed", "rejected"}
      BY <3>2 DEF AuctionIsSettled
    <3>4. bids'[o][d] = bids[o][d]
      BY <2>4, <3>2, <3>3, BidMoves
         DEF KeepsBid, PlacesBid, RepricesBid, EndsBid, OpenFeed, Assigned
    <3> QED BY <3>2, <3>3, <3>4
  <2> QED BY <2>1, <2>2, <2>3, <2>4, OrderMoves
<1> QED BY <1>1, <1>2, ReadsStayCurrent, OpenIsUnassignedHolds, PTL DEF Spec

-----------------------------------------------------------------------------
(* The accounts of the drivers.                                            *)

\* Orders and accounts are written by different services.
LEMMA AccountsApart ==
    ASSUME Next
    PROVE  drivers' = drivers \/ (AccountNext /\ orders' = orders)
<1>1. CASE ClientNext \/ DriverNext
  BY <1>1 DEF ClientNext, DriverNext, CreateOrderDraft, SelectDriver, ConfirmDelivered,
              BeginPublish, BeginCancel, BeginEdit, CommitPublish, CommitEdit, CommitCancel,
              BeginReject, BeginDelivery, BeginBid, BeginUpdateBid, CommitBid, CommitUpdateBid,
              CommitReject, CommitMark, CommitDriverCancel, Begin, dataVars
<1>2. CASE StaffNext \/ DisputeNext
  BY <1>2 DEF StaffNext, DisputeNext, CancelOrderManually, UpdateOrderStatus, AssignDriver,
              UpdateDriverCommission, OpenDispute, UpdateDispute
<1>3. CASE AccountNext
  BY <1>3 DEF AccountNext, GoOffline, BlockDriver, BeginGoOnline, BeginDeleteAccount, Begin,
              CommitGoOnline, CommitDeleteAccount, dataVars
<1>4. CASE \E r \in Slots : Abort(r)
  BY <1>4 DEF Abort, dataVars
<1> QED BY <1>1, <1>2, <1>3, <1>4 DEF Next

\* What a request of the account services does to a driver: online only in good
\* standing, deleted only without an order under way.
LEMMA AccountEffect ==
    ASSUME TypeInv, ReadsAreCurrent, AccountNext, NEW d \in Drivers
    PROVE  \/ drivers'[d] = drivers[d]
           \/ /\ drivers'[d].user = drivers[d].user
              /\ drivers'[d].available => drivers'[d].verification = "approved"
           \/ drivers'[d].user = "blocked" /\ ~drivers'[d].available
           \/ /\ BlockingOrders(d) = {}
              /\ drivers'[d].verification = drivers[d].verification
              /\ drivers'[d].available => drivers[d].available
<1> DEFINE Goal == \/ drivers'[d] = drivers[d]
                   \/ /\ drivers'[d].user = drivers[d].user
                      /\ drivers'[d].available => drivers'[d].verification = "approved"
                   \/ drivers'[d].user = "blocked" /\ ~drivers'[d].available
                   \/ /\ BlockingOrders(d) = {}
                      /\ drivers'[d].verification = drivers[d].verification
                      /\ drivers'[d].available => drivers[d].available
<1>0. drivers \in [Drivers -> Driver] /\ drivers[d] \in Driver
  BY DEF TypeInv, MarketTypeOK, TypeOK
<1>1. ASSUME NEW x \in Drivers, GoOffline(x) PROVE Goal
  <2>1. drivers' = [drivers EXCEPT ![x] = [drivers[x] EXCEPT !.available = FALSE]]
    BY <1>1 DEF GoOffline
  <2>2. CASE x = d
    <3>1. drivers'[d] = [drivers[d] EXCEPT !.available = FALSE]
      BY <1>0, <2>1, <2>2
    <3>2. drivers'[d].available = FALSE /\ drivers'[d].user = drivers[d].user
      BY <1>0, <3>1 DEF Driver
    <3> QED BY <3>2
  <2>3. CASE x # d
    BY <1>0, <2>1, <2>3
  <2> QED BY <2>2, <2>3
<1>2. ASSUME NEW x \in Drivers, BlockDriver(x) PROVE Goal
  <2>1. drivers' = [drivers EXCEPT ![x] = [verification |-> "blocked", available |-> FALSE,
                                           user |-> "blocked", routes |-> {}]]
    BY <1>2 DEF BlockDriver
  <2> QED BY <1>0, <2>1
<1>3. ASSUME NEW r \in Slots, CommitGoOnline(r) PROVE Goal
  <2> PICK x \in Drivers : x = req[r].driver
    BY <1>3, PendingTyped DEF CommitGoOnline, UnlockedOps, DriverOps, RequestOK
  <2>1. InGoodStanding(x)
    BY <1>3 DEF CommitGoOnline, Pending, ReadsAreCurrent, Current
  <2>2. drivers' = [drivers EXCEPT ![x] = [drivers[x] EXCEPT !.available = TRUE]]
    BY <1>3 DEF CommitGoOnline
  <2>3. CASE x = d
    <3>1. drivers'[d] = [drivers[d] EXCEPT !.available = TRUE]
      BY <1>0, <2>2, <2>3
    <3>2. drivers'[d].verification = "approved" /\ drivers'[d].user = drivers[d].user
      BY <1>0, <2>1, <2>3, <3>1 DEF Driver, InGoodStanding
    <3> QED BY <3>2
  <2>4. CASE x # d
    BY <1>0, <2>2, <2>4
  <2> QED BY <2>3, <2>4
<1>4. ASSUME NEW r \in Slots, CommitDeleteAccount(r) PROVE Goal
  <2> PICK x \in Drivers : x = req[r].driver
    BY <1>4, PendingTyped DEF CommitDeleteAccount, UnlockedOps, DriverOps, RequestOK
  <2>1. BlockingOrders(x) = {}
    BY <1>4 DEF CommitDeleteAccount, Pending, ReadsAreCurrent, Current
  <2> DEFINE online == drivers[x].available /\ ~req[r].online
             row == [drivers[x] EXCEPT !.available = online, !.user = "deleted", !.routes = {}]
  <2>2. drivers' = [drivers EXCEPT ![x] = row]
    BY <1>4 DEF CommitDeleteAccount
  <2>3. CASE x = d
    <3>1. /\ row.verification = drivers[d].verification
          /\ row.available => drivers[d].available
      BY <1>0, <2>3 DEF Driver
    <3>2. drivers'[d] = row
      BY <1>0, <2>2, <2>3
    <3> HIDE DEF row
    <3> QED BY <2>1, <2>3, <3>1, <3>2
  <2>4. CASE x # d
    BY <1>0, <2>2, <2>4
  <2> QED BY <2>3, <2>4
<1>5. ASSUME UNCHANGED drivers PROVE Goal
  BY <1>5
<1> HIDE DEF Goal
<1>6. Goal
  BY <1>1, <1>2, <1>3, <1>4, <1>5
     DEF AccountNext, BeginGoOnline, BeginDeleteAccount, Begin, dataVars
<1> QED BY <1>6 DEF Goal

\* update_availability, block_driver: a blocked driver is not online, with any
\* services in use.  (With two worker threads, going online outlives a block.)
THEOREM BlockedStaysOffline ==
    ASSUME Serial
    PROVE  Spec => []BlockedIsOffline
<1>1. MarketInit => BlockedIsOffline
  BY DEF MarketInit, Init, BlockedIsOffline
<1>2. TypeInv /\ ReadsAreCurrent /\ BlockedIsOffline /\ [Next]_vars => BlockedIsOffline'
  <2> SUFFICES ASSUME TypeInv, ReadsAreCurrent, BlockedIsOffline, [Next]_vars,
                      NEW d \in Drivers, drivers'[d].verification = "blocked",
                      drivers'[d].available
               PROVE  FALSE
    BY DEF BlockedIsOffline
  <2>1. CASE UNCHANGED drivers
    BY <2>1 DEF BlockedIsOffline
  <2>2. CASE AccountNext
    BY <2>2, AccountEffect DEF BlockedIsOffline
  <2> QED BY <2>1, <2>2, AccountsApart DEF vars
<1> QED BY <1>1, <1>2, ReadsStayCurrent, PTL DEF Spec

\* delete_own_account, select_driver_for_order, assign_driver_manually: no order
\* is on its way with a driver whose account is gone.  (A disputed order does
\* not count as under way: settling it gives it back to a deleted driver.)
THEOREM DeletedCarryNothing ==
    ASSUME Serial, "settle" \notin Ops, "admin_status" \notin Ops
    PROVE  Spec => []DeletedDriverCarriesNothing
<1>1. MarketInit => DeletedDriverCarriesNothing
  BY DEF MarketInit, Init, DeletedDriverCarriesNothing
<1>2. TypeInv /\ ReadsAreCurrent /\ OpenIsUnassigned /\ DeletedDriverCarriesNothing /\ [Next]_vars
         => DeletedDriverCarriesNothing'
  <2> SUFFICES ASSUME TypeInv, ReadsAreCurrent, OpenIsUnassigned, DeletedDriverCarriesNothing,
                      [Next]_vars, NEW d \in Drivers, drivers'[d].user = "deleted",
                      NEW o \in Orders, orders'[o].status \in InFlight, orders'[o].assigned = d
               PROVE  FALSE
    BY DEF DeletedDriverCarriesNothing, BlockingOrders
  <2>0. OpenIsUnassigned'
    BY OpenStaysUnassigned
  <2>1. CASE UNCHANGED orders
    <3>1. o \in BlockingOrders(d)
      BY <2>1 DEF BlockingOrders
    <3>2. drivers[d].user # "deleted"
      BY <3>1 DEF DeletedDriverCarriesNothing
    <3>3. CASE UNCHANGED drivers
      BY <3>2, <3>3
    <3>4. CASE AccountNext
      BY <3>1, <3>2, <3>4, AccountEffect
    <3> QED BY <3>3, <3>4, AccountsApart DEF vars
  <2>2. CASE Next /\ drivers' = drivers
    <3>1. orders'[o].status \notin OpenFeed
      BY <2>0, NoneIsFresh DEF OpenIsUnassigned, NoneIsFresh
    <3>2. ~(orders[o].status \in InFlight /\ orders[o].assigned = d)
      BY <2>2 DEF DeletedDriverCarriesNothing, BlockingOrders
    <3>3. AtomicStep(o)
      BY <2>2, <3>2, OrderMoves DEF RowsStay
    <3>4. ~SelectStep(o) /\ ~AssignStep(o)
      BY <2>2 DEF SelectStep, AssignStep, CanSelect, CanAssign, InGoodStanding
    <3>5. ~SettleStep(o) /\ ~CorrectStep(o) /\ ~DisputeStep(o) /\ ~CreateStep(o)
      BY DEF SettleStep, CorrectStep, DisputeStep, CreateStep, Moves, Records, InFlight
    <3> QED BY <3>1, <3>2, <3>3, <3>4, <3>5
            DEF AtomicStep, PublishStep, EditStep, CancelStep, ConfirmStep, BidStepOn,
                RepriceStep, DeclineStep, CarryStep, DriverTransition, DriverCancelStep,
                StaffCancelStep, Moves, Records, SameAssignment, InFlight, OpenFeed
  <2> QED BY <2>1, <2>2, AccountsApart DEF vars
<1> QED BY <1>1, <1>2, ReadsStayCurrent, OpenIsUnassignedHolds, PTL DEF Spec

-----------------------------------------------------------------------------
(* The services implement the lifecycle that OrderLifecycle describes.     *)

\* An order that does not exist yet has no driver.
NewHasNoDriver == \A o \in Orders : orders[o].status = None => orders[o].assigned = None

LEMMA NewHasNoDriverHolds ==
    ASSUME Serial
    PROVE  Spec => []NewHasNoDriver
<1>1. MarketInit => NewHasNoDriver
  BY DEF MarketInit, Init, NoOrder, NewHasNoDriver
<1>2. TypeInv /\ ReadsAreCurrent /\ NewHasNoDriver /\ [Next]_vars => NewHasNoDriver'
  <2> SUFFICES ASSUME TypeInv, ReadsAreCurrent, NewHasNoDriver, [Next]_vars,
                      NEW o \in Orders, orders'[o].status = None
               PROVE  orders'[o].assigned = None
    BY DEF NewHasNoDriver
  <2>1. CASE orders'[o] = orders[o]
    BY <2>1 DEF NewHasNoDriver
  <2>2. CASE AtomicStep(o)
    <3>1. \A s \in OrderStatus : s # None
      BY NoneIsFresh DEF NoneIsFresh
    <3>2. ~CorrectStep(o) /\ ~SettleStep(o)
      <4>1. \A k \in DisputeIds : disputes[k] # None => disputes[k].prev \in OrderStatus
        BY DEF TypeInv, MarketTypeOK, DisputesTypeOK, Dispute, AdminDisputable, UserDisputable,
               OrderStatus
      <4> QED BY <3>1, <4>1 DEF CorrectStep, SettleStep, Moves, Records
    <3>3. /\ "draft" # None /\ "published" # None /\ "bidding" # None /\ "accepted" # None
          /\ "picked_up" # None /\ "in_transit" # None /\ "delivered" # None
          /\ "confirmed" # None /\ "cancelled" # None /\ "disputed" # None
      BY <3>1 DEF OrderStatus
    <3>4. ~CarryStep(o)
      BY <3>3 DEF CarryStep, DriverTransition, Moves, Records
    <3>5. /\ ~PublishStep(o) /\ ~EditStep(o) /\ ~CancelStep(o) /\ ~SelectStep(o)
          /\ ~ConfirmStep(o) /\ ~DriverCancelStep(o) /\ ~StaffCancelStep(o)
          /\ ~AssignStep(o) /\ ~DisputeStep(o) /\ ~CreateStep(o)
      BY <3>3 DEF PublishStep, EditStep, CancelStep, SelectStep, ConfirmStep,
                  DriverCancelStep, StaffCancelStep, AssignStep, DisputeStep,
                  CreateStep, Moves, Records
    <3>6. orders'[o] = orders[o]
      BY <2>2, <3>2, <3>3, <3>4, <3>5
         DEF AtomicStep, BidStepOn, RepriceStep, DeclineStep, Moves, Records
    <3> QED BY <2>1, <3>6
  <2> QED BY <2>1, <2>2, OrderMoves DEF RowsStay, vars
<1> QED BY <1>1, <1>2, ReadsStayCurrent, PTL DEF Spec

\* Writes of two rows of one order are a move of the lifecycle.
OthersStay(o) == \A x \in Orders \ {o} : orders'[x] = orders[x] /\ history'[x] = history[x]

LEMMA LifecycleMove ==
    ASSUME NEW o \in Orders, NEW s, NEW w,
           orders'[o].status = s, history'[o].by = w, OthersStay(o)
    PROVE  Lifecycle!Move(o, s, w)
BY DEF OthersStay, Lifecycle!Move

LEMMA LifecycleDriverStays ==
    ASSUME NEW o \in Orders, orders'[o].assigned = orders[o].assigned, OthersStay(o)
    PROVE  UNCHANGED [x \in Orders |-> orders[x].assigned]
BY DEF OthersStay

LEMMA LifecycleAdvance ==
    ASSUME NEW o \in Orders, NEW from, NEW to, NEW w, UNCHANGED disputes,
           orders[o].status = from, Moves(o, to, w), OthersStay(o)
    PROVE  Lifecycle!Advance(o, from, to, w)
<1>1. Lifecycle!Move(o, to, w)
  BY LifecycleMove DEF Moves, Records
<1>2. UNCHANGED [x \in Orders |-> orders[x].assigned]
  BY LifecycleDriverStays DEF Moves, SameAssignment
<1> QED BY <1>1, <1>2 DEF Lifecycle!Advance

\* A step that keeps status, driver and author of every order, and what its
\* disputes remember, is invisible.
LifecycleStays == UNCHANGED <<[o \in Orders |-> orders[o].status],
                              [o \in Orders |-> orders[o].assigned],
                              [o \in Orders |-> history[o].by]>>

LEMMA LifecycleCancel ==
    ASSUME NEW o \in Orders, NEW w \in {"client", "driver", "operator", "admin"},
           UNCHANGED disputes, Moves(o, "cancelled", w), OthersStay(o),
           Lifecycle!MayCancel(orders[o].status, w)
    PROVE  Lifecycle!Next
<1>1. Lifecycle!Move(o, "cancelled", w)
  BY LifecycleMove DEF Moves, Records
<1>2. UNCHANGED [x \in Orders |-> orders[x].assigned]
  BY LifecycleDriverStays DEF Moves, SameAssignment
<1>3. Lifecycle!Cancel(o, w)
  BY <1>1, <1>2 DEF Lifecycle!Cancel
<1> QED BY <1>3 DEF Lifecycle!Next, Lifecycle!Staff

LEMMA LifecycleAccept ==
    ASSUME TypeInv, NEW o \in Orders, NEW d \in Drivers, NEW w \in {"client", "operator", "admin"},
           UNCHANGED disputes, Records(o, "accepted", w), orders'[o].assigned = d, OthersStay(o),
           orders[o].status = "bidding" \/ (orders[o].status = "published" /\ w \in StaffRoles)
    PROVE  Lifecycle!Next
<1>1. Lifecycle!Move(o, "accepted", w)
  BY LifecycleMove DEF Records
<1>2. [x \in Orders |-> orders'[x].assigned] =
         [[x \in Orders |-> orders[x].assigned] EXCEPT ![o] = d]
  BY DEF OthersStay
<1>3. Lifecycle!Accept(o, d, w)
  BY <1>1, <1>2 DEF Lifecycle!Accept, Lifecycle!Staff, StaffRoles
<1> QED BY <1>3 DEF Lifecycle!Next, Lifecycle!Staff

LEMMA LifecycleSettle ==
    ASSUME TypeInv, NEW o \in Orders, NEW k \in DisputeIds, NEW w \in StaffRoles,
           disputes[k] # None, disputes[k].order = o, orders[o].status = "disputed",
           Moves(o, disputes[k].prev, w), OthersStay(o),
           \A j \in DisputeIds : /\ disputes'[j] # None <=> disputes[j] # None
                                 /\ disputes[j] # None =>
                                       /\ disputes'[j].order = disputes[j].order
                                       /\ disputes'[j].prev = disputes[j].prev
    PROVE  Lifecycle!Next
<1> DEFINE s == disputes[k].prev
           at == [x \in Orders |-> {disputes[j].prev : j \in
                    {i \in DisputeIds : disputes[i] # None /\ disputes[i].order = x}}]
<1>1. Lifecycle!Move(o, s, w)
  BY LifecycleMove DEF Moves, Records
<1>2. UNCHANGED [x \in Orders |-> orders[x].assigned]
  BY LifecycleDriverStays DEF Moves, SameAssignment
<1>3. UNCHANGED at
  OBVIOUS
<1>4. s \in at[o]
  OBVIOUS
<1>5. Lifecycle!Settle(o, s, w)
  BY <1>1, <1>2, <1>3, <1>4 DEF Lifecycle!Settle, Lifecycle!Staff, StaffRoles
<1> QED BY <1>4, <1>5 DEF Lifecycle!Next, Lifecycle!Staff, StaffRoles

LEMMA LifecycleDispute ==
    ASSUME TypeInv, NEW o \in Orders, NEW k \in DisputeIds, NEW w \in Roles,
           OpenDispute(k, o, w)
    PROVE  Lifecycle!Next
<1> DEFINE at == [x \in Orders |-> {disputes[j].prev : j \in
                    {i \in DisputeIds : disputes[i] # None /\ disputes[i].order = x}}]
<1>1. Moves(o, "disputed", w) /\ OthersStay(o)
  BY StatusWriteMoves DEF OpenDispute, OthersStay
<1>2. Lifecycle!Move(o, "disputed", w)
  BY <1>1, LifecycleMove DEF Moves, Records
<1>3. UNCHANGED [x \in Orders |-> orders[x].assigned]
  BY <1>1, LifecycleDriverStays DEF Moves, SameAssignment
<1>4. at' = [at EXCEPT ![o] = @ \cup {orders[o].status}]
  <2>1. /\ disputes[k] = None /\ disputes'[k] # None
        /\ disputes'[k].order = o /\ disputes'[k].prev = orders[o].status
        /\ \A j \in DisputeIds \ {k} : disputes'[j] = disputes[j]
    BY OpenEffect
  <2>2. \A x \in Orders : at'[x] = IF x = o THEN at[o] \cup {orders[o].status} ELSE at[x]
    <3> SUFFICES ASSUME NEW x \in Orders
                 PROVE  at'[x] = IF x = o THEN at[o] \cup {orders[o].status} ELSE at[x]
      OBVIOUS
    <3> DEFINE old == {i \in DisputeIds : disputes[i] # None /\ disputes[i].order = x}
               new == {i \in DisputeIds : disputes'[i] # None /\ disputes'[i].order = x}
    <3>1. new = IF x = o THEN old \cup {k} ELSE old
      BY <2>1
    <3>2. k \notin old /\ \A j \in old : disputes'[j].prev = disputes[j].prev
      BY <2>1
    <3>3. at[x] = {disputes[j].prev : j \in old} /\ at'[x] = {disputes'[j].prev : j \in new}
      OBVIOUS
    <3> HIDE DEF old, new, at
    <3> QED BY <2>1, <3>1, <3>2, <3>3
  <2> QED BY <2>2
<1>5. Lifecycle!MayDispute(orders[o].status, w)
  BY DEF OpenDispute, MayOpen, UserDisputable, AdminDisputable, Roles,
         Lifecycle!MayDispute, Lifecycle!Delivery, Lifecycle!Staff
<1>6. Lifecycle!RaiseDispute(o, w)
  BY <1>2, <1>3, <1>4, <1>5 DEF Lifecycle!RaiseDispute
<1> QED BY <1>6 DEF Lifecycle!Next, Lifecycle!Staff, Roles

\* A step on one order that leaves the disputes alone.
LEMMA AtomicIsLifecycle ==
    ASSUME "admin_status" \notin Ops, TypeInv, NewHasNoDriver, UNCHANGED disputes,
           NEW o \in Orders, AtomicOn(o)
    PROVE  Lifecycle!Next \/ LifecycleStays
<1> DEFINE Goal == Lifecycle!Next \/ LifecycleStays
<1>1. OthersStay(o) /\ AtomicStep(o)
  BY DEF AtomicOn, RowsStay, OthersStay
<1>2. ASSUME orders'[o].status = orders[o].status, orders'[o].assigned = orders[o].assigned,
             history'[o].by = history[o].by
      PROVE  Goal
  BY <1>1, <1>2 DEF LifecycleStays, OthersStay
<1>3. CASE CreateStep(o)
  <2>1. orders[o].assigned = None
    BY <1>3 DEF CreateStep, NewHasNoDriver
  <2>2. Lifecycle!Move(o, "draft", "client")
    BY <1>1, <1>3, LifecycleMove DEF CreateStep
  <2>3. UNCHANGED [x \in Orders |-> orders[x].assigned]
    BY <1>1, <1>3, <2>1, LifecycleDriverStays DEF CreateStep, NoAssignment
  <2>4. Lifecycle!Advance(o, None, "draft", "client")
    BY <1>3, <2>2, <2>3 DEF CreateStep, Lifecycle!Advance
  <2> QED BY <2>4 DEF Lifecycle!Next
<1>4. CASE PublishStep(o)
  <2>1. Lifecycle!Advance(o, "draft", "published", "client")
    BY <1>1, <1>4, LifecycleAdvance DEF PublishStep
  <2> QED BY <2>1 DEF Lifecycle!Next
<1>5. CASE BidStepOn(o)
  <2>1. CASE orders[o].status = "published" /\ Moves(o, "bidding", "driver")
    <3>1. Lifecycle!Advance(o, "published", "bidding", "driver")
      BY <1>1, <2>1, LifecycleAdvance
    <3> QED BY <3>1 DEF Lifecycle!Next
  <2>2. CASE orders'[o] = orders[o] /\ history'[o] = history[o]
    BY <1>2, <2>2
  <2> QED BY <1>5, <2>1, <2>2 DEF BidStepOn
<1>6. CASE EditStep(o) \/ RepriceStep(o) \/ DeclineStep(o)
  <2>1. /\ orders'[o].status = orders[o].status /\ orders'[o].assigned = orders[o].assigned
        /\ history'[o].by = history[o].by
    BY <1>6 DEF EditStep, SameAssignment, RepriceStep, DeclineStep
  <2> QED BY <1>2, <2>1
<1>7. CASE SelectStep(o)
  <2> PICK d \in Drivers : /\ orders[o].status = "bidding"
                           /\ Records(o, "accepted", "client") /\ orders'[o].assigned = d
    BY <1>7 DEF SelectStep, CanSelect
  <2> QED BY <1>1, LifecycleAccept
<1>8. CASE AssignStep(o)
  <2> PICK d \in Drivers, w \in StaffRoles :
             /\ orders[o].status \in OpenFeed
             /\ Records(o, "accepted", w) /\ orders'[o].assigned = d
    BY <1>8 DEF AssignStep, CanAssign
  <2> QED BY <1>1, LifecycleAccept DEF OpenFeed, StaffRoles
<1>9. CASE CarryStep(o)
  <2>1. \/ Lifecycle!Advance(o, "accepted", "picked_up", "driver")
        \/ Lifecycle!Advance(o, "picked_up", "in_transit", "driver")
        \/ Lifecycle!Advance(o, "in_transit", "delivered", "driver")
    <3>1. \/ orders[o].status = "accepted" /\ Moves(o, "picked_up", "driver")
          \/ orders[o].status = "picked_up" /\ Moves(o, "in_transit", "driver")
          \/ orders[o].status = "in_transit" /\ Moves(o, "delivered", "driver")
      BY <1>9 DEF CarryStep, DriverTransition
    <3> QED BY <1>1, <3>1, LifecycleAdvance
  <2> QED BY <2>1 DEF Lifecycle!Next, Lifecycle!Carry
<1>10. CASE ConfirmStep(o)
  <2>1. Lifecycle!Advance(o, "delivered", "confirmed", "client")
    BY <1>1, <1>10, LifecycleAdvance DEF ConfirmStep, CanConfirm
  <2> QED BY <2>1 DEF Lifecycle!Next
<1>11. CASE CancelStep(o)
  <2>1. Lifecycle!MayCancel(orders[o].status, "client")
    BY <1>11 DEF CancelStep, ClientCancelAllowed, Lifecycle!MayCancel
  <2> QED BY <1>1, <1>11, <2>1, LifecycleCancel DEF CancelStep
<1>12. CASE DriverCancelStep(o)
  <2>1. Lifecycle!MayCancel(orders[o].status, "driver")
    BY <1>12 DEF DriverCancelStep, Lifecycle!MayCancel
  <2> QED BY <1>1, <1>12, <2>1, LifecycleCancel DEF DriverCancelStep
<1>13. CASE StaffCancelStep(o)
  <2> PICK w \in StaffRoles : CanCancelManually(o, w) /\ Moves(o, "cancelled", w)
    BY <1>13 DEF StaffCancelStep
  <2>1. Lifecycle!MayCancel(orders[o].status, w)
    BY DEF CanCancelManually, StaffRoles, Lifecycle!MayCancel, Lifecycle!Staff
  <2> QED BY <1>1, <2>1, LifecycleCancel DEF StaffRoles
<1>14. CASE SettleStep(o)
  <2> PICK k \in DisputeIds, w \in StaffRoles :
             /\ orders[o].status = "disputed" /\ disputes[k] # None /\ disputes[k].order = o
             /\ Moves(o, disputes[k].prev, w)
    BY <1>14 DEF SettleStep
  <2> QED BY <1>1, LifecycleSettle
<1>15. ~CorrectStep(o) /\ ~DisputeStep(o)
  BY DEF CorrectStep, DisputeStep
<1> HIDE DEF Goal
<1>16. Goal
  BY <1>1, <1>3, <1>4, <1>5, <1>6, <1>7, <1>8, <1>9, <1>10, <1>11, <1>12, <1>13, <1>14, <1>15
     DEF AtomicStep, Goal
<1> QED BY <1>16 DEF Goal

\* A settlement, and the other updates of a dispute.
LEMMA UpdateIsLifecycle ==
    ASSUME TypeInv, NEW k \in DisputeIds, NEW target \in ActiveDispute \cup FinalDispute,
           NEW role \in StaffRoles, UpdateDispute(k, target, role)
    PROVE  Lifecycle!Next \/ UNCHANGED Lifecycle!vars
<1> PICK o \in Orders : o = disputes[k].order /\ disputes[k] # None
  BY DEF UpdateDispute, CanUpdateDispute, TypeInv, MarketTypeOK, DisputesTypeOK, Dispute
<1>1. \A j \in DisputeIds : /\ disputes'[j] # None <=> disputes[j] # None
                            /\ disputes[j] # None =>
                                  /\ disputes'[j].order = disputes[j].order
                                  /\ disputes'[j].prev = disputes[j].prev
  BY UpdateEffect
<1>2. CASE RestoresOrder(k, target)
  <2>1. orders[o].status = "disputed"
    BY <1>2 DEF RestoresOrder
  <2>2. WriteStatus(o, [orders[o] EXCEPT !.status = disputes[k].prev], "disputed", role)
    BY <1>2, Zenon DEF UpdateDispute, RestoredStatus
  <2>3. Moves(o, disputes[k].prev, role) /\ OthersStay(o)
    BY <2>1, <2>2, StatusWriteMoves DEF OthersStay
  <2> QED BY <1>1, <2>1, <2>3, LifecycleSettle
<1>3. CASE ~RestoresOrder(k, target)
  <2>1. UNCHANGED <<orders, history>>
    BY <1>3 DEF UpdateDispute
  <2>2. UNCHANGED [x \in Orders |-> {disputes[j].prev : j \in
                     {i \in DisputeIds : disputes[i] # None /\ disputes[i].order = x}}]
    BY <1>1
  <2> QED BY <2>1, <2>2 DEF Lifecycle!vars
<1> QED BY <1>2, <1>3

\* README.md "Order Lifecycle": with one worker thread and without corrections
\* by hand, every step of every service is a step of the lifecycle, taken by the
\* party it allows, or changes nothing the lifecycle shows.
THEOREM ServicesImplementLifecycle ==
    ASSUME Serial, "admin_status" \notin Ops
    PROVE  Spec => ImplementsLifecycle
<1>1. MarketInit => Lifecycle!Init
  BY DEF MarketInit, Init, DisputesInit, NoOrder, NoHistory, Lifecycle!Init
<1>2. TypeInv /\ ReadsAreCurrent /\ NewHasNoDriver /\ [Next]_vars
         => [Lifecycle!Next]_(Lifecycle!vars)
  <2> SUFFICES ASSUME TypeInv, ReadsAreCurrent, NewHasNoDriver, [Next]_vars
               PROVE  Lifecycle!Next \/ UNCHANGED Lifecycle!vars
    OBVIOUS
  <2>1. CASE UNCHANGED vars
    BY <2>1 DEF vars, Lifecycle!vars
  <2>2. CASE Next /\ UNCHANGED disputes
    <3>1. CASE \A x \in Orders : RowsStay(x)
      BY <2>2, <3>1 DEF RowsStay, Lifecycle!vars
    <3>2. CASE \E o \in Orders : AtomicOn(o)
      <4>1. Lifecycle!Next \/ LifecycleStays
        BY <2>2, <3>2, AtomicIsLifecycle
      <4> QED BY <2>2, <4>1 DEF LifecycleStays, Lifecycle!vars
    <3> QED BY <2>2, <3>1, <3>2, NextIsAtomic DEF Atomic
  <2>3. CASE DisputeNext
    BY <2>3, LifecycleDispute, UpdateIsLifecycle DEF DisputeNext
  <2> QED BY <2>1, <2>2, <2>3 DEF Next
<1> QED BY <1>1, <1>2, ReadsStayCurrent, NewHasNoDriverHolds, PTL
        DEF Spec, ImplementsLifecycle, Lifecycle!Spec
=============================================================================
