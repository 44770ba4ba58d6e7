----------------------------- MODULE BillLedger -----------------------------
(***************************************************************************)
(* What the floor and cash workspace promises about bills and orders, with *)
(* every operation one indivisible step: one open bill per table, orders   *)
(* only ever placed on an open bill, a bill closed with exactly what is on *)
(* it, and move, merge and split that take whole orders along.             *)
(***************************************************************************)
CONSTANTS
    Table, Bill, Order, Session, None,
    Total(_)    \* what a set of orders adds up to

VARIABLES bills, orders

OpenAt(t) == {b \in Bill : bills[b].state = "open" /\ bills[b].table = t}
On(b)     == {o \in Order : orders[o].state # "none" /\ orders[o].bill = b}
Due(b)    == Total({o \in On(b) : orders[o].state = "live" /\ orders[o].charged})

Init ==
    /\ bills = [b \in Bill |-> [state |-> "none", table |-> None, subtotal |-> Total({})]]
    /\ orders = [o \in Order |-> [state |-> "none", charged |-> FALSE, table |-> None,
                                  bill |-> None, session |-> None]]

\* Bill b is the open bill of table t, or the one that is opened there now.
BillFor(b, t) == b \in OpenAt(t) \/ (OpenAt(t) = {} /\ bills[b].state = "none")

Opened(b, t) ==
    IF bills[b].state = "none"
    THEN [state |-> "open", table |-> t, subtotal |-> Total({})] ELSE bills[b]

OpenBill(b, t) ==
    /\ OpenAt(t) = {} /\ bills[b].state = "none"
    /\ bills' = [bills EXCEPT ![b] = Opened(b, t)]
    /\ UNCHANGED orders

PlaceOrder(o, b, t, s) ==
    /\ orders[o].state = "none" /\ BillFor(b, t)
    /\ orders' = [orders EXCEPT ![o] = [state |-> "live", charged |-> TRUE, table |-> t,
                                        bill |-> b, session |-> s]]
    /\ bills' = [bills EXCEPT ![b] = [Opened(b, t) EXCEPT !.subtotal = Due(b)']]

CloseBill(b) ==
    /\ bills[b].state = "open"
    /\ bills' = [bills EXCEPT ![b].state = "closed"]
    /\ UNCHANGED orders

MoveBill(b, t) ==
    /\ bills[b].state = "open" /\ OpenAt(t) = {}
    /\ bills' = [bills EXCEPT ![b].table = t]
    /\ orders' = [o \in Order |-> IF o \in On(b) THEN [orders[o] EXCEPT !.table = t] ELSE orders[o]]

\* The orders os go to bill b of table t.
Rehomed(os, b, t) ==
    [o \in Order |-> IF o \in os THEN [orders[o] EXCEPT !.bill = b, !.table = t] ELSE orders[o]]

MergeBill(dst, src) ==
    /\ dst # src /\ bills[dst].state = "open" /\ bills[src].state = "open"
    /\ orders' = Rehomed(On(src), dst, bills[dst].table)
    /\ bills' = [bills EXCEPT ![dst].subtotal = Due(dst)',
                              ![src].state = "closed", ![src].subtotal = Total({})]

SplitBill(src, os, dst, t) ==
    /\ bills[src].state = "open" /\ os # {} /\ os \subseteq On(src) /\ BillFor(dst, t)
    /\ orders' = Rehomed(os, dst, t)
    /\ bills' = [bills EXCEPT ![src].subtotal = Due(src)',
                              ![dst] = [Opened(dst, t) EXCEPT !.subtotal = Due(dst)']]

\* The status of an order and the subtotal of its bill are two steps of the
\* workspace; a cancelled order stays cancelled.
CancelOrder(o) ==
    /\ orders[o].state = "live"
    /\ orders' = [orders EXCEPT ![o].state = "cancelled", ![o].charged = FALSE]
    /\ UNCHANGED bills

Recalculate(b) ==
    /\ bills[b].state # "none"
    /\ bills' = [bills EXCEPT ![b].subtotal = Due(b)]
    /\ UNCHANGED orders

Next ==
    \/ \E b \in Bill, t \in Table : OpenBill(b, t) \/ MoveBill(b, t)
    \/ \E o \in Order, b \in Bill, t \in Table, s \in Session \cup {None} : PlaceOrder(o, b, t, s)
    \/ \E b \in Bill : CloseBill(b) \/ Recalculate(b)
    \/ \E dst, src \in Bill : MergeBill(dst, src)
    \/ \E src, dst \in Bill, os \in SUBSET Order, t \in Table : SplitBill(src, os, dst, t)
    \/ \E o \in Order : CancelOrder(o)

Spec == Init /\ [][Next]_<<bills, orders>>
=============================================================================
