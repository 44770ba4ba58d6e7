------------------------------ MODULE StaffDesk ------------------------------
(***************************************************************************)
(* The pages staff work with: the service page with the forms on bills     *)
(* (floor-cash-workspace.tsx), the waiter's cart                           *)
(* (pda-order-workspace.tsx) and the boards of the stations                *)
(* (kitchen-board.tsx), over the server actions and calls behind them      *)
(* (auth-actions.ts, tenant-api.ts).                                       *)
(*                                                                         *)
(* A page is made of lists that are asked for by calls of their own, and   *)
(* then stays as it is until one of its own forms is answered: what is     *)
(* offered and sent comes from the page, what is done from the database.   *)
(* What the API does with a call is one step here; FloorBills and          *)
(* OrderProgress have the statements of each.                              *)
(***************************************************************************)
EXTENDS Integers, FiniteSets, FiniteSetsExt

CONSTANTS
    Table,        \* tables, by their numbers
    Bill, Order,  \* ids: at least as many as are ever made
    MenuItem,
    Waiting,      \* orders at the first table when the pages are opened
    Browser,
    MaxOpens,     \* bound: pages opened
    MaxTaps,      \* bound: changes of carts
    MaxCalls,     \* bound: forms sent and tables switched
    MaxFaults,    \* bound: calls that fail or whose answers are lost
    None

ASSUME TableAssumption == Table # {} /\ Table \subseteq Nat /\ IsFiniteSet(Table)
ASSUME IdAssumption ==
    /\ Waiting \subseteq Order
    /\ IsFiniteSet(Bill) /\ IsFiniteSet(Order) /\ IsFiniteSet(Browser)
    /\ Cardinality(Order) >= Cardinality(Waiting) + MaxCalls /\ Cardinality(Bill) > MaxCalls
ASSUME NoneAssumption == None \notin Table \cup Bill
ASSUME BoundAssumption == {MaxOpens, MaxTaps, MaxCalls, MaxFaults} \subseteq Nat

VARIABLES
    tables,   \* is_active of a table
    bills, orders,
    pages,    \* the lists a browser shows
    desk,     \* what it keeps itself: the chosen table, the cart, the last answer
    pc, ctx,  \* the call under way and its form
    own,      \* history: what a browser did with success, what was put in its cart
    opens, taps, calls, faults

vars   == <<tables, bills, orders, pages, desk, pc, ctx, own, opens, taps, calls, faults>>
floor  == <<tables, bills, orders>>
bounds == <<opens, taps, calls, faults>>

Kind    == {"service", "pda", "stations"}
List    == {"tables", "bills", "orders", "board"}
Status  == {"submitted", "preparing", "ready", "cancelled"}
Labels  == {"idle", "read", "call", "refused"}
Item    == Order \X MenuItem

NoLists == [tables |-> <<>>, bills |-> <<>>, orders |-> <<>>, board |-> {}]
NoPage  == [kind |-> "none", lists |-> NoLists]
NoCart  == [m \in MenuItem |-> 0]
NoDesk  == [table |-> None, cart |-> NoCart, ok |-> FALSE]
NoForm  == [op |-> "none"]
NoCtx   == [form |-> NoForm, kind |-> "none", todo |-> {}, lists |-> NoLists]
NoOrder == [bill |-> None, table |-> None, quantity |-> NoCart, items |-> [m \in MenuItem |-> "none"]]

OpenBillAt(t) == {x \in Bill : bills[x].status = "open" /\ bills[x].table = t}
OrdersOf(x)   == {o \in Order : orders[o].bill = x}
AnyOf(S)      == CHOOSE x \in S : TRUE      \* which id a new row gets does not matter
Lowest(S)     == IF S = {} THEN None ELSE Min(S)

Init ==
    /\ tables = [t \in Table |-> TRUE]
    /\ bills = [x \in Bill |-> IF x = AnyOf(Bill) /\ Waiting # {}
          THEN [status |-> "open", table |-> Min(Table)] ELSE [status |-> "none", table |-> None]]
    /\ orders = [o \in Order |-> IF o \in Waiting
          THEN [bill |-> AnyOf(Bill), table |-> Min(Table), quantity |-> [m \in MenuItem |-> 1],
                items |-> [m \in MenuItem |-> "submitted"]]
          ELSE NoOrder]
    /\ pages = [b \in Browser |-> NoPage]
    /\ desk = [b \in Browser |-> NoDesk]
    /\ pc = [b \in Browser |-> "idle"]
    /\ ctx = [b \in Browser |-> NoCtx]
    /\ own = [b \in Browser |-> [closed |-> {}, placed |-> {}, tapped |-> NoCart]]
    /\ opens = 0 /\ taps = 0 /\ calls = 0 /\ faults = 0

At(b, label)   == pc[b] = label
Goto(b, label) == pc' = [pc EXCEPT ![b] = label]

-----------------------------------------------------------------------------
(* Pages. *)

\* What a page asks for; what it only prints is left out.
ListsOf(kind) == IF kind = "stations" THEN {"board"} ELSE {"tables", "bills", "orders"}

\* listAdminTables, listTenantBills, listTenantOrders and getKitchenBoard: the
\* boards have the items that are still to be made or served.
Listed(list) ==
    CASE list = "tables" -> [t \in Table |-> [active |-> tables[t], bills |-> OpenBillAt(t)]]
      [] list = "bills"  -> bills
      [] list = "orders" -> [o \in Order |-> orders[o].table]
      [] list = "board"  -> {card \in Item \X (Status \ {"cancelled"}) : orders[card[1][1]].items[card[1][2]] = card[2]}

OpenPage(b, kind) ==
    /\ At(b, "idle") /\ opens < MaxOpens
    /\ pages' = [pages EXCEPT ![b] = NoPage]
    /\ desk' = [desk EXCEPT ![b] = NoDesk]
    /\ ctx' = [ctx EXCEPT ![b] = [NoCtx EXCEPT !.kind = kind, !.todo = ListsOf(kind)]]
    /\ Goto(b, "read")
    /\ opens' = opens + 1
    /\ UNCHANGED <<floor, own, taps, calls, faults>>

\* The calls for the lists are on their way at the same time.
ReadList(b) ==
    \E list \in ctx[b].todo :
        /\ At(b, "read")
        /\ ctx' = [ctx EXCEPT ![b].todo = @ \ {list}, ![b].lists[list] = Listed(list)]
        /\ UNCHANGED <<floor, pages, desk, pc, own, bounds>>

\* Mutant: the index of the table instead of its id.
FirstIndex(kind, given) == IF kind = "stations" THEN None ELSE 0

\* The table a workspace starts with: the first, of the waiter the first that is in use.
FirstTable(kind, given) ==
    IF kind = "stations" THEN None
    ELSE Lowest({t \in Table : kind = "pda" => given[t].active})

\* The cart is emptied by the effect on state.ok: when it becomes true.
AfterOk(d) == [d EXCEPT !.cart = IF d.ok THEN @ ELSE NoCart, !.ok = TRUE]

\* The page is shown: mounted when it was opened, given the new lists when a
\* form was answered.
ShowPage(b) ==
    LET c == ctx[b]
    IN  /\ At(b, "read") /\ c.todo = {}
        /\ pages' = [pages EXCEPT ![b] = [kind |-> c.kind, lists |-> c.lists]]
        /\ desk' = [desk EXCEPT ![b] =
              IF c.form = NoForm THEN [NoDesk EXCEPT !.table = FirstTable(c.kind, c.lists.tables)]
              ELSE IF c.form.op = "order" THEN AfterOk(@) ELSE @]
        /\ Goto(b, "idle") /\ ctx' = [ctx EXCEPT ![b] = NoCtx]
        /\ UNCHANGED <<floor, own, bounds>>

\* A form that was refused leaves the page as it is.
ShowRefusal(b) ==
    /\ At(b, "refused")
    /\ desk' = [desk EXCEPT ![b].ok = IF ctx[b].form.op = "order" THEN FALSE ELSE @]
    /\ Goto(b, "idle") /\ ctx' = [ctx EXCEPT ![b] = NoCtx]
    /\ UNCHANGED <<floor, pages, own, bounds>>

-----------------------------------------------------------------------------
(* What the pages offer. *)

Given(b)  == pages[b].lists
Active(b) == {t \in Table : Given(b).tables[t].active}

\* The table that is worked on: of a waiter, another one when the chosen table
\* went out of use.
SelectedTable(b) ==
    IF pages[b].kind = "pda" /\ desk[b].table \notin Active(b) THEN Lowest(Active(b))
    ELSE desk[b].table

\* The canvas of the floor has all tables, or those that are listed with a bill.
Canvas(b, filter) == {t \in Table : filter = "open" => Given(b).tables[t].bills # {}}

Offered(b) == IF pages[b].kind = "pda" THEN Active(b)
              ELSE UNION {Canvas(b, filter) : filter \in {"all", "open"}}

ChooseTable(b, t) ==
    /\ pages[b].kind \in {"service", "pda"} /\ taps < MaxTaps
    /\ t \in Offered(b)
    /\ t # desk[b].table
    /\ desk' = [desk EXCEPT ![b].table = t]
    /\ taps' = taps + 1
    /\ UNCHANGED <<floor, pages, pc, ctx, own, opens, calls, faults>>

ChangeCart(b, cart) ==
    /\ pages[b].kind = "pda" /\ taps < MaxTaps
    /\ desk' = [desk EXCEPT ![b].cart = cart]
    /\ taps' = taps + 1
    /\ UNCHANGED <<floor, pages, pc, ctx, opens, calls, faults>>

Increment(b, m) ==
    /\ ChangeCart(b, [desk[b].cart EXCEPT ![m] = @ + 1])
    /\ own' = [own EXCEPT ![b].tapped[m] = @ + 1]

Decrement(b, m) ==
    /\ desk[b].cart[m] > 0
    /\ ChangeCart(b, [desk[b].cart EXCEPT ![m] = @ - 1])
    /\ UNCHANGED own

ClearCart(b) ==
    /\ desk[b].cart # NoCart
    /\ ChangeCart(b, NoCart)
    /\ UNCHANGED own

\* The buttons of a page wait for the answer to its last form.
Send(b, form) ==
    /\ At(b, "idle") /\ calls < MaxCalls
    /\ ctx' = [ctx EXCEPT ![b] = [NoCtx EXCEPT !.form = form, !.kind = pages[b].kind,
                                               !.todo = ListsOf(pages[b].kind)]]
    /\ Goto(b, "call")
    /\ calls' = calls + 1
    /\ UNCHANGED <<floor, pages, desk, own, opens, taps, faults>>

SendOrder(b) ==
    LET t == SelectedTable(b)
    IN  /\ pages[b].kind = "pda" /\ t # None /\ desk[b].cart # NoCart
        /\ Send(b, [op |-> "order", table |-> t, quantity |-> desk[b].cart])

\* The tabs of the service page: the open checks, the queue of those to be paid,
\* and the closed checks.
Checks(b, tab) ==
    {x \in Bill : Given(b).bills[x].status = IF tab = "closed-checks" THEN "closed" ELSE "open"}

ShownOpen(b) == Checks(b, "open-checks")
\* The open bill of the table that is worked on.
ShownBill(b) == {x \in ShownOpen(b) : Given(b).bills[x].table = SelectedTable(b)}

SendClose(b) ==
    /\ pages[b].kind = "service"
    /\ \E x \in ShownBill(b) : Send(b, [op |-> "close", bill |-> x])

\* To a table in use at which no bill is shown.
SendMove(b) ==
    /\ pages[b].kind = "service"
    /\ \E x \in ShownBill(b), t \in Active(b) \ {SelectedTable(b)} :
          /\ Given(b).tables[t].bills = {}
          /\ Send(b, [op |-> "move", bill |-> x, table |-> t])

\* The other bill is merged into the one that is shown.
SendMerge(b) ==
    /\ pages[b].kind = "service"
    /\ \E x \in ShownBill(b) : \E y \in ShownOpen(b) \ {x} :
          Send(b, [op |-> "merge", bill |-> y, into |-> x])

\* Every order that is listed at the table may be ticked, of closed bills too.
SendSplit(b) ==
    /\ pages[b].kind = "service"
    /\ \E x \in ShownBill(b), t \in Active(b) \ {SelectedTable(b)} :
       \E os \in SUBSET {o \in Order : Given(b).orders[o] = SelectedTable(b)} \ {{}} :
          Send(b, [op |-> "split", bill |-> x, orders |-> os, table |-> t])

\* The buttons of a card.
CardMoves(status) ==
    CASE status = "submitted" -> {"preparing", "cancelled"}
      [] status = "preparing" -> {"ready", "cancelled"}
      [] status = "ready"     -> {"preparing"}

SendItemStatus(b) ==
    /\ pages[b].kind = "stations"
    /\ \E card \in Given(b).board : \E status \in CardMoves(card[2]) :
          Send(b, [op |-> "item", item |-> card[1], status |-> status])

-----------------------------------------------------------------------------
(* What the API does with a form. *)

\* Mutant: the lists of the page are asked for when the form is sent.
ReadWithTheForm(b) ==
    /\ Goto(b, "read")
    /\ ctx' = [ctx EXCEPT ![b].todo = {}, ![b].lists = Given(b)]

\* The action returns ok and has a path revalidated: the lists are read again.
Served(b) == Goto(b, "read") /\ UNCHANGED ctx

\* The answer may be lost on its way to the action, which then knows of a failure only.
Answered(b) ==
    \/ Served(b) /\ UNCHANGED faults
    \/ faults < MaxFaults /\ Goto(b, "refused") /\ UNCHANGED ctx /\ faults' = faults + 1

Refuse(b) == Goto(b, "refused") /\ UNCHANGED <<floor, ctx, own, faults>>

Serving(b, op) == At(b, "call") /\ ctx[b].form.op = op /\ UNCHANGED <<pages, desk, opens, taps, calls>>

\* own is what the browser is told of.
Own(b, told) == own' = [own EXCEPT ![b] = IF pc'[b] = "read" THEN told ELSE @]

\* GetOrCreateOpenBillAsync.
BillFor(t) == AnyOf(IF OpenBillAt(t) # {} THEN OpenBillAt(t) ELSE {x \in Bill : bills[x].status = "none"})
Opened(x, t) == [bills EXCEPT ![x] = [status |-> "open", table |-> t]]
Rehomed(os, x, t) == [o \in Order |-> IF o \in os THEN [orders[o] EXCEPT !.bill = x, !.table = t] ELSE orders[o]]

PlaceOrder(b) ==
    LET f == ctx[b].form
    IN  /\ Serving(b, "order")
        /\ IF ~tables[f.table] THEN Refuse(b)
           ELSE LET o == AnyOf({p \in Order : orders[p].bill = None})
                    x == BillFor(f.table)
                IN  /\ orders' = [orders EXCEPT ![o] =
                          [bill |-> x, table |-> f.table, quantity |-> f.quantity,
                           items |-> [m \in MenuItem |-> IF f.quantity[m] > 0 THEN "submitted" ELSE "none"]]]
                    /\ bills' = Opened(x, f.table)
                    /\ Answered(b)
                    /\ Own(b, [own[b] EXCEPT !.placed = @ \cup {o}])
                    /\ UNCHANGED tables

CloseBill(b) ==
    LET x == ctx[b].form.bill
    IN  /\ Serving(b, "close")
        /\ IF bills[x].status # "open" THEN Refuse(b)
           ELSE /\ bills' = [bills EXCEPT ![x].status = "closed"]
                /\ Answered(b)
                /\ Own(b, [own[b] EXCEPT !.closed = @ \cup {x}])
                /\ UNCHANGED <<tables, orders>>

\* Mutant: the page has looked at the target.
MoveBillAnywhere(b) ==
    LET f == ctx[b].form
    IN  /\ Serving(b, "move")
        /\ IF bills[f.bill].status # "open" \/ ~tables[f.table] THEN Refuse(b)
           ELSE /\ bills' = [bills EXCEPT ![f.bill].table = f.table]
                /\ orders' = Rehomed(OrdersOf(f.bill), f.bill, f.table)
                /\ Answered(b)
                /\ UNCHANGED <<tables, own>>

MoveBill(b) ==
    LET f == ctx[b].form
    IN  /\ Serving(b, "move")
        /\ IF bills[f.bill].status # "open" \/ ~tables[f.table] \/ OpenBillAt(f.table) # {} THEN Refuse(b)
           ELSE /\ bills' = [bills EXCEPT ![f.bill].table = f.table]
                /\ orders' = Rehomed(OrdersOf(f.bill), f.bill, f.table)
                /\ Answered(b)
                /\ UNCHANGED <<tables, own>>

MergeBill(b) ==
    LET f == ctx[b].form
    IN  /\ Serving(b, "merge")
        /\ IF bills[f.bill].status # "open" \/ bills[f.into].status # "open" THEN Refuse(b)
           ELSE /\ bills' = [bills EXCEPT ![f.bill].status = "closed"]
                /\ orders' = Rehomed(OrdersOf(f.bill), f.into, bills[f.into].table)
                /\ Answered(b)
                /\ Own(b, [own[b] EXCEPT !.closed = @ \cup {f.bill}])
                /\ UNCHANGED tables

\* Mutant: the page offers open bills only.
SplitAnyBill(b) ==
    LET f == ctx[b].form
    IN  /\ Serving(b, "split")
        /\ IF ~tables[f.table] \/ ~(f.orders \subseteq OrdersOf(f.bill)) THEN Refuse(b)
           ELSE /\ orders' = Rehomed(f.orders, BillFor(f.table), f.table)
                /\ bills' = Opened(BillFor(f.table), f.table)
                /\ Answered(b)
                /\ UNCHANGED <<tables, own>>

\* The orders have to be those of the bill.
SplitBill(b) ==
    LET f == ctx[b].form
    IN  /\ Serving(b, "split")
        /\ IF bills[f.bill].status # "open" \/ ~tables[f.table] \/ ~(f.orders \subseteq OrdersOf(f.bill))
           THEN Refuse(b)
           ELSE /\ orders' = Rehomed(f.orders, BillFor(f.table), f.table)
                /\ bills' = Opened(BillFor(f.table), f.table)
                /\ Answered(b)
                /\ UNCHANGED <<tables, own>>

UpdateKitchenItemStatus(b) ==
    LET f == ctx[b].form
        o == f.item[1]
        m == f.item[2]
    IN  /\ Serving(b, "item")
        /\ IF orders[o].items[m] = "cancelled" \/ f.status \notin CardMoves(orders[o].items[m]) THEN Refuse(b)
           ELSE /\ orders' = [orders EXCEPT ![o].items[m] = f.status]
                /\ Answered(b)
                /\ UNCHANGED <<tables, bills, own>>

\* A call fails before it reaches the API; a page whose lists fail is not shown.
CallFails(b) ==
    /\ faults < MaxFaults
    /\ faults' = faults + 1
    /\ \/ At(b, "call") /\ Goto(b, "refused") /\ UNCHANGED <<pages, desk, ctx>>
       \/ /\ At(b, "read") /\ ctx[b].todo # {}
          /\ Goto(b, "idle") /\ ctx' = [ctx EXCEPT ![b] = NoCtx]
          /\ pages' = [pages EXCEPT ![b] = NoPage] /\ desk' = [desk EXCEPT ![b] = NoDesk]
    /\ UNCHANGED <<floor, own, opens, taps, calls>>

\* A client of the API takes a table out of use or back: no page offers it.
UpdateTable(t) ==
    /\ calls < MaxCalls
    /\ tables' = [tables EXCEPT ![t] = ~@]
    /\ calls' = calls + 1
    /\ UNCHANGED <<bills, orders, pages, desk, pc, ctx, own, opens, taps, faults>>

-----------------------------------------------------------------------------
Desk(b) ==
    \/ \E kind \in Kind : OpenPage(b, kind)
    \/ \E t \in Table : ChooseTable(b, t)
    \/ \E m \in MenuItem : Increment(b, m) \/ Decrement(b, m)
    \/ ClearCart(b) \/ SendOrder(b)
    \/ SendClose(b) \/ SendMove(b) \/ SendMerge(b) \/ SendSplit(b)
    \/ SendItemStatus(b)

Handle(b) ==
    \/ ReadList(b) \/ ShowPage(b) \/ ShowRefusal(b)
    \/ PlaceOrder(b) \/ CloseBill(b) \/ MoveBill(b) \/ MergeBill(b) \/ SplitBill(b)
    \/ UpdateKitchenItemStatus(b)

Next ==
    \/ \E b \in Browser : Desk(b) \/ Handle(b) \/ CallFails(b)
    \/ \E t \in Table : UpdateTable(t)

Spec == Init /\ [][Next]_vars

-----------------------------------------------------------------------------
(* Properties. *)

TypeOK ==
    /\ tables \in [Table -> BOOLEAN]
    /\ bills \in [Bill -> [status : {"none", "open", "closed"}, table : Table \cup {None}]]
    /\ orders \in [Order -> [bill : Bill \cup {None}, table : Table \cup {None},
                             quantity : [MenuItem -> Nat], items : [MenuItem -> Status \cup {"none"}]]]
    /\ \A b \in Browser : pages[b].kind \in Kind \cup {"none"} /\ DOMAIN pages[b].lists = List
    /\ desk \in [Browser -> [table : Table \cup {None}, cart : [MenuItem -> Nat], ok : BOOLEAN]]
    /\ pc \in [Browser -> Labels]
    /\ opens \in 0..MaxOpens /\ taps \in 0..MaxTaps /\ calls \in 0..MaxCalls /\ faults \in 0..MaxFaults

\* Who was told that a bill is closed or an order placed sees it so on every page
\* from then on, also when other calls run into the ones that fill the page:
\* nobody is offered to close again what he closed.
OwnWorkIsShown ==
    \A b \in Browser : (pages[b].kind \in {"service", "pda"} /\ At(b, "idle")) =>
        /\ own[b].closed \subseteq Checks(b, "closed-checks") \ Checks(b, "payment-queue")
        /\ \A o \in own[b].placed : Given(b).orders[o] # None

\* Forms of pages that are out of date do not put two open bills at a table.
OneOpenBillPerTable == \A t \in Table : Cardinality(OpenBillAt(t)) <= 1

\* What was charged to a bill that is closed stays on it, although a page goes on
\* to list its orders at the table and to offer them for the next bill's split.
ClosedBillKeepsItsOrders ==
    [][\A x \in Bill : bills[x].status = "closed" =>
            bills'[x].status = "closed" /\ OrdersOf(x) \subseteq OrdersOf(x)']_vars

\* "The submitted result of converting a server-side cart into persisted order
\* lines": a unit that was put in the cart of a waiter once is not ordered twice
\* where no call fails.
NeverOrderedTwice ==
    \A b \in Browser, m \in MenuItem :
        MapThenSumSet(LAMBDA o : orders[o].quantity[m], own[b].placed) <= own[b].tapped[m]

=============================================================================
