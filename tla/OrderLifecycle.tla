--------------------------- MODULE OrderLifecycle ---------------------------
(***************************************************************************)
(* What an order promises to those who look at it from outside: the normal *)
(* lifecycle and the exception statuses of README.md "Order Lifecycle",    *)
(* with the party that may take each step.  It knows nothing of bids,      *)
(* offers, requests or locks.                                              *)
(*                                                                         *)
(* A disputed order goes back to a status in which it was disputed once:   *)
(* not always the latest one, because update_dispute lets staff settle an  *)
(* already settled dispute again while a newer one is open.                *)
(***************************************************************************)
CONSTANTS Orders, Drivers, None

VARIABLES
    status,      \* status of each order, None before it exists
    driver,      \* the driver who carries it, None before acceptance
    by,          \* who took the latest step
    disputedAt   \* statuses in which it has been disputed

vars == <<status, driver, by, disputedAt>>

Staff == {"operator", "admin"}
Delivery == {"accepted", "picked_up", "in_transit", "delivered"}

Init == /\ status = [o \in Orders |-> None]
        /\ driver = [o \in Orders |-> None]
        /\ by = [o \in Orders |-> None]
        /\ disputedAt = [o \in Orders |-> {}]

\* o moves to status s, by role w.
Move(o, s, w) == /\ status' = [status EXCEPT ![o] = s]
                 /\ by' = [by EXCEPT ![o] = w]

Advance(o, from, to, w) == /\ status[o] = from
                           /\ Move(o, to, w)
                           /\ UNCHANGED <<driver, disputedAt>>

Carry(o) == \/ Advance(o, "accepted", "picked_up", "driver")
            \/ Advance(o, "picked_up", "in_transit", "driver")
            \/ Advance(o, "in_transit", "delivered", "driver")

Accept(o, d, w) == /\ status[o] = "bidding" \/ (status[o] = "published" /\ w \in Staff)
                   /\ Move(o, "accepted", w)
                   /\ driver' = [driver EXCEPT ![o] = d]
                   /\ UNCHANGED disputedAt

\* Before pickup the client may cancel, and the driver once accepted; staff
\* may cancel later too, a confirmed order only as an admin.
MayCancel(s, w) == \/ w = "client" /\ s \in {"draft", "published", "bidding", "accepted"}
                   \/ w = "driver" /\ s = "accepted"
                   \/ w \in Staff /\ s \notin {None, "cancelled", "confirmed"}
                   \/ w = "admin" /\ s = "confirmed"

Cancel(o, w) == /\ MayCancel(status[o], w)
                /\ Move(o, "cancelled", w)
                /\ UNCHANGED <<driver, disputedAt>>

MayDispute(s, w) == \/ s \in Delivery
                    \/ w \in Staff /\ s \in {"published", "bidding", "confirmed"}

RaiseDispute(o, w) == /\ MayDispute(status[o], w)
                      /\ Move(o, "disputed", w)
                      /\ disputedAt' = [disputedAt EXCEPT ![o] = @ \cup {status[o]}]
                      /\ UNCHANGED driver

Settle(o, s, w) == /\ status[o] = "disputed"
                   /\ s \in disputedAt[o]
                   /\ w \in Staff
                   /\ Move(o, s, w)
                   /\ UNCHANGED <<driver, disputedAt>>

Next == \E o \in Orders :
          \/ Advance(o, None, "draft", "client")
          \/ Advance(o, "draft", "published", "client")
          \/ Advance(o, "published", "bidding", "driver")
          \/ \E d \in Drivers, w \in {"client"} \cup Staff : Accept(o, d, w)
          \/ Carry(o)
          \/ Advance(o, "delivered", "confirmed", "client")
          \/ \E w \in {"client", "driver"} \cup Staff : \/ Cancel(o, w)
                                                        \/ RaiseDispute(o, w)
                                                        \/ \E s \in disputedAt[o] : Settle(o, s, w)

Spec == Init /\ [][Next]_vars
=============================================================================
