----------------------------- MODULE FloorBills -----------------------------
(***************************************************************************)
(* Bills, orders and customer sessions of one tenant, as the handlers of   *)
(* the tenant API change them: TenantEndpoints.cs, CustomerBillService.cs, *)
(* CustomerSessionService.cs and TableTokenService.VerifyAsync.            *)
(*                                                                         *)
(* The three tables hold the COMMITTED rows.  A request is a program       *)
(* counter and the locals of its handler (ctx); every database statement   *)
(* that another request can tell from its neighbours is one action.  The   *)
(* database runs at READ COMMITTED: a statement reads the committed rows   *)
(* and the request's own writes, so a transaction keeps its writes in ctx  *)
(* and applies them when it commits.  Two kinds of locks make a request    *)
(* wait: the advisory lock "table:<id>" that most handlers take (lock),    *)
(* and the row and unique-index locks the database holds for the           *)
(* uncommitted writes of a transaction (HeldOrders, HeldBills, HeldSlots). *)
(*                                                                         *)
(* The ORM tracks the rows a handler loaded: a later query returns the     *)
(* loaded values again, and a save writes only the columns that differ     *)
(* from them.  The fields seen and seenInto of ctx are these loaded        *)
(* subtotals.                                                              *)
(***************************************************************************)
EXTENDS Naturals, FiniteSets, FiniteSetsExt

CONSTANTS
    Table,      \* service tables, all of them active
    Bill,       \* ids for bills: bounds how many are ever opened
    Order,      \* ids for orders: bounds how many are ever placed
    Session,    \* ids for sessions: bounds how many are ever opened
    Request,    \* slots for requests the API serves at the same time
    Kinds,      \* the handlers that are called
    Alone,      \* bound: those that run only while no other request does
    Amount,     \* what an order adds to its bill, in minor units
    MayFail,    \* may a request be cut off (cancelled, exception, crash)?
    None

AllKinds == {"order", "adminOrder", "join", "logout", "close",
             "move", "merge", "split", "status"}

ASSUME KindsAssumption  == Kinds \subseteq AllKinds /\ Alone \subseteq Kinds
ASSUME AmountAssumption == Amount \in [Order -> Nat]
ASSUME FailAssumption   == MayFail \in BOOLEAN
ASSUME NoneAssumption   ==
    /\ None \notin Table \cup Bill \cup Order \cup Session \cup Request
    /\ None \notin AllKinds

VARIABLES
    bills,      \* customer_bills: status/closed_at, table_id, subtotal_minor
    orders,     \* customer_orders: status, table_id, bill_id, session, subtotal
    sessions,   \* customer_sessions: closed_at, table_id
    lock,       \* advisory lock of a table: the request that holds it
    pc,         \* the next statement of a request
    ctx         \* the locals of a request

data == <<bills, orders, sessions>>
vars == <<bills, orders, sessions, lock, pc, ctx>>

-----------------------------------------------------------------------------
(* Values. *)

Total(S) == MapThenSumSet(LAMBDA o : Amount[o], S)
Totals   == {Total(S) : S \in SUBSET Order}
Nothing  == Total({})

OptTable == Table \cup {None}
OptBill  == Bill \cup {None}

BillRow    == [state : {"none", "open", "closed"}, table : OptTable, subtotal : Totals]
OrderRow   == [state : {"none", "live", "cancelled"}, charged : BOOLEAN,
               table : OptTable, bill : OptBill, session : Session \cup {None}]
SessionRow == [state : {"none", "open", "closed"}, table : OptTable]

NoBill    == [state |-> "none", table |-> None, subtotal |-> Nothing]
NoOrder   == [state |-> "none", charged |-> FALSE, table |-> None, bill |-> None,
              session |-> None]
NoSession == [state |-> "none", table |-> None]

Labels == {"idle", "lock1", "lock2", "closeRead", "closeSave", "getBill", "insertBill",
           "orderSave", "orderCommit", "joinSave", "moveCheck", "moveSave",
           "mergeSave", "mergeSum", "mergeCommit",
           "splitSave", "splitSumFrom", "splitSumInto", "splitCommit",
           "statusSave", "recalcRead", "recalcSum", "recalcSave"}

Ctx == [kind     : AllKinds \cup {None},
        first    : OptTable,                \* table locked first
        second   : OptTable,                \* table locked second, if any
        at       : OptTable,                \* table whose bill or sessions are wanted
        bill     : OptBill,                 \* bill the call names (source of a merge or split)
        into     : OptBill,                 \* bill that receives orders or is recalculated
        fresh    : BOOLEAN,                 \* into was inserted by this transaction
        orders   : SUBSET Order,            \* orders loaded to be moved
        order    : Order \cup {None},       \* order placed or updated
        status   : {"live", "cancelled"},   \* status asked for
        session  : Session \cup {None},     \* session that submits the order
        seen     : Totals, sum     : Totals,   \* subtotal of bill: loaded, recalculated
        seenInto : Totals, sumInto : Totals]   \* subtotal of into: loaded, recalculated

NoCtx == [kind |-> None, first |-> None, second |-> None, at |-> None,
          bill |-> None, into |-> None, fresh |-> FALSE,
          orders |-> {}, order |-> None, status |-> "live", session |-> None,
          seen |-> Nothing, sum |-> Nothing, seenInto |-> Nothing, sumInto |-> Nothing]

TypeOK ==
    /\ bills \in [Bill -> BillRow]
    /\ orders \in [Order -> OrderRow]
    /\ sessions \in [Session -> SessionRow]
    /\ lock \in [Table -> Request \cup {None}]
    /\ pc \in [Request -> Labels]
    /\ ctx \in [Request -> Ctx]

Init ==
    /\ bills = [b \in Bill |-> NoBill]
    /\ orders = [o \in Order |-> NoOrder]
    /\ sessions = [s \in Session |-> NoSession]
    /\ lock = [t \in Table |-> None]
    /\ pc = [r \in Request |-> "idle"]
    /\ ctx = [r \in Request |-> NoCtx]

-----------------------------------------------------------------------------
(* What a query returns. *)

OpenBills(t)    == {b \in Bill : bills[b].state = "open" /\ bills[b].table = t}
OpenSessions(t) == {s \in Session : sessions[s].state = "open" /\ sessions[s].table = t}
OrdersOf(b)     == {o \in Order : orders[o].state # "none" /\ orders[o].bill = b}
Billable        == {o \in Order : orders[o].state = "live" /\ orders[o].charged}

\* Mutant: the sum is asked for before the orders that are moved are saved.
ChargedToBeforeMove(r, b) == {o \in Billable : orders[o].bill = b}

\* The sum RecalculateSubtotalAsync asks for: the transaction sees the orders it
\* has moved on the bill it moved them to.
ChargedTo(r, b) ==
    {o \in Billable : b = IF o \in ctx[r].orders THEN ctx[r].into ELSE orders[o].bill}

\* Ids no row and no uncommitted insert uses.
FreshBills    == {b \in Bill : bills[b].state = "none" /\ \A q \in Request : ctx[q].into # b}
FreshOrders   == {o \in Order : orders[o].state = "none" /\ \A q \in Request : ctx[q].order # o}
FreshSessions == {s \in Session : sessions[s].state = "none"}

-----------------------------------------------------------------------------
(* Waiting.  What uncommitted writes keep locked, and what the next        *)
(* statement of a request needs.                                           *)

HeldOrders(q) ==
    IF pc[q] \in {"mergeSum", "mergeCommit", "splitSumFrom", "splitSumInto", "splitCommit"}
    THEN ctx[q].orders ELSE {}

HeldBills(q) == IF pc[q] \in {"mergeSum", "mergeCommit"} THEN {ctx[q].bill} ELSE {}

\* Entries of the unique index on the open bill of a table.
HeldSlots(q) ==
    (IF ctx[q].fresh THEN {ctx[q].at} ELSE {})
        \cup {bills[b].table : b \in {c \in HeldBills(q) : bills[c].state = "open"}}

NeededOrders(r) ==
    CASE pc[r] \in {"moveSave", "mergeSave", "splitSave"} -> ctx[r].orders
      [] pc[r] = "statusSave" -> {ctx[r].order}
      [] OTHER -> {}

NeededBills(r) ==
    CASE pc[r] \in {"closeSave", "moveSave", "mergeSave"} -> {ctx[r].bill}
      [] pc[r] \in {"orderCommit", "mergeCommit", "recalcSave"} -> {ctx[r].into}
      [] pc[r] = "splitCommit" -> {ctx[r].bill, ctx[r].into}
      [] OTHER -> {}

NeededSlots(r) ==
    CASE pc[r] = "insertBill" -> {ctx[r].at}
      [] pc[r] = "moveSave" /\ bills[ctx[r].bill].state = "open" -> {ctx[r].second}
      [] OTHER -> {}

NeededLocks(r) ==
    CASE pc[r] = "lock1" -> {ctx[r].first}
      [] pc[r] = "lock2" -> {ctx[r].second}
      [] OTHER -> {}

Blockers(r) ==
    {q \in Request \ {r} :
        \/ \E t \in NeededLocks(r) : lock[t] = q
        \/ NeededOrders(r) \cap HeldOrders(q) # {}
        \/ NeededBills(r) \cap HeldBills(q) # {}
        \/ NeededSlots(r) \cap HeldSlots(q) # {}}

\* Request r is one of a set of requests that all wait for each other.
Deadlocked(r) ==
    \E S \in SUBSET Request : r \in S /\ \A p \in S : Blockers(p) \cap S # {}

-----------------------------------------------------------------------------
(* Control. *)

Start(r, k, c, label) ==
    /\ pc[r] = "idle" /\ k \in Kinds
    /\ \A q \in Request : pc[q] # "idle" => k \notin Alone /\ ctx[q].kind \notin Alone
    /\ pc' = [pc EXCEPT ![r] = label]
    /\ ctx' = [ctx EXCEPT ![r] = [c EXCEPT !.kind = k]]
    /\ UNCHANGED <<data, lock>>

At(r, label) == pc[r] = label /\ Blockers(r) = {}

Goto(r, label) == pc' = [pc EXCEPT ![r] = label] /\ UNCHANGED <<data, lock>>

\* Mutant: the advisory locks outlive the transaction.
FinishKeepingLocks(r) ==
    /\ pc' = [pc EXCEPT ![r] = "idle"]
    /\ ctx' = [ctx EXCEPT ![r] = NoCtx]
    /\ UNCHANGED lock

\* Commit, roll back or return: the locals and the advisory locks go.
Finish(r) ==
    /\ pc' = [pc EXCEPT ![r] = "idle"]
    /\ ctx' = [ctx EXCEPT ![r] = NoCtx]
    /\ lock' = [t \in Table |-> IF lock[t] = r THEN None ELSE lock[t]]

RollBack(r) == Finish(r) /\ UNCHANGED data

AfterLocks(k) ==
    CASE k \in {"order", "adminOrder", "split"} -> "getBill"
      [] k = "close" -> "closeRead"
      [] k = "move"  -> "moveSave"
      [] k = "merge" -> "mergeSave"

AcquireFirst(r) ==
    /\ At(r, "lock1")
    /\ lock' = [lock EXCEPT ![ctx[r].first] = r]
    /\ pc' = [pc EXCEPT ![r] = IF ctx[r].second = None THEN AfterLocks(ctx[r].kind) ELSE "lock2"]
    /\ UNCHANGED <<data, ctx>>

AcquireSecond(r) ==
    /\ At(r, "lock2")
    /\ lock' = [lock EXCEPT ![ctx[r].second] = r]
    /\ pc' = [pc EXCEPT ![r] = AfterLocks(ctx[r].kind)]
    /\ UNCHANGED <<data, ctx>>

-----------------------------------------------------------------------------
(* GetOrCreateOpenBillAsync at table ctx[r].at. *)

AfterBill(k) ==
    CASE k \in {"order", "adminOrder"} -> "orderSave"
      [] k = "join"  -> "joinSave"
      [] k = "split" -> "splitSave"

\* A bill this request has loaded before keeps the subtotal loaded then.
UseBill(r, b) ==
    /\ ctx' = [ctx EXCEPT ![r].into = b,
                          ![r].seenInto = IF b = ctx[r].bill THEN ctx[r].seen
                                          ELSE bills[b].subtotal]
    /\ Goto(r, AfterBill(ctx[r].kind))

GetOpenBill(r) ==
    /\ At(r, "getBill")
    /\ IF OpenBills(ctx[r].at) = {}
       THEN Goto(r, "insertBill") /\ UNCHANGED ctx
       ELSE \E b \in OpenBills(ctx[r].at) : UseBill(r, b)

\* Mutant: no unique index on the open bill of a table.
InsertBillWithoutIndex(r) ==
    /\ pc[r] = "insertBill"
    /\ \/ \E b \in FreshBills :
            /\ ctx' = [ctx EXCEPT ![r].into = b, ![r].fresh = TRUE]
            /\ Goto(r, AfterBill(ctx[r].kind))
       \/ FreshBills = {} /\ RollBack(r)

\* The insert waits for an uncommitted one at the table; the unique index
\* then accepts it, or the bill that won is read instead.
InsertBill(r) ==
    /\ At(r, "insertBill")
    /\ \/ /\ OpenBills(ctx[r].at) = {}
          /\ \E b \in FreshBills :
                /\ ctx' = [ctx EXCEPT ![r].into = b, ![r].fresh = TRUE]
                /\ Goto(r, AfterBill(ctx[r].kind))
       \/ \E b \in OpenBills(ctx[r].at) : UseBill(r, b)
       \/ OpenBills(ctx[r].at) = {} /\ FreshBills = {} /\ RollBack(r)   \* bound: Bill

\* RecalculateSubtotalAsync writes the column only if it differs from the loaded one.
Recalculated(b, loaded, sum) == IF sum = loaded THEN bills[b].subtotal ELSE sum

\* The row of ctx[r].into after the commit, the insert included.
IntoRow(r) ==
    LET row == IF ctx[r].fresh
               THEN [state |-> "open", table |-> ctx[r].at, subtotal |-> Nothing]
               ELSE bills[ctx[r].into]
    IN  [row EXCEPT !.subtotal = IF ctx[r].sumInto = ctx[r].seenInto THEN @ ELSE ctx[r].sumInto]

Rehomed(os, b, t) ==
    [o \in Order |-> IF o \in os THEN [orders[o] EXCEPT !.bill = b, !.table = t] ELSE orders[o]]

Reseated(from, to) ==
    [s \in Session |-> IF s \in OpenSessions(from) THEN [sessions[s] EXCEPT !.table = to]
                       ELSE sessions[s]]

-----------------------------------------------------------------------------
(* CreateOrder and CreateAdminOrder. *)

\* The session is validated here and not looked at again; the checkout proof
\* is consumed before the lock is asked for.
CreateOrder(r, s) ==
    /\ sessions[s].state = "open"
    /\ Start(r, "order", [NoCtx EXCEPT !.session = s, !.first = sessions[s].table,
                                       !.at = sessions[s].table], "lock1")

CreateAdminOrder(r, t) ==
    Start(r, "adminOrder", [NoCtx EXCEPT !.first = t, !.at = t], "lock1")

\* Mutant: the new order is added to a sum that already contains it.
OrderSaveTwice(r) ==
    /\ At(r, "orderSave")
    /\ \E o \in FreshOrders :
          /\ ctx' = [ctx EXCEPT ![r].order = o,
                                ![r].sumInto = Total(ChargedTo(r, ctx[r].into) \cup {o}) + Amount[o]]
          /\ Goto(r, "orderCommit")

OrderSave(r) ==
    /\ At(r, "orderSave")
    /\ \/ \E o \in FreshOrders :
             /\ ctx' = [ctx EXCEPT ![r].order = o,
                                   ![r].sumInto = Total(ChargedTo(r, ctx[r].into) \cup {o})]
             /\ Goto(r, "orderCommit")
       \/ FreshOrders = {} /\ RollBack(r)   \* bound: Order

OrderCommit(r) ==
    /\ At(r, "orderCommit")
    /\ bills' = [bills EXCEPT ![ctx[r].into] = IntoRow(r)]
    /\ orders' = [orders EXCEPT ![ctx[r].order] =
                    [state |-> "live", charged |-> TRUE, table |-> ctx[r].at,
                     bill |-> ctx[r].into, session |-> ctx[r].session]]
    /\ Finish(r)
    /\ UNCHANGED sessions

-----------------------------------------------------------------------------
(* VerifyTableToken with a fresh token of table t, and LogoutCustomerSession. *)

VerifyTableToken(r, t) == Start(r, "join", [NoCtx EXCEPT !.at = t], "getBill")

JoinSave(r) ==
    /\ At(r, "joinSave")
    /\ \/ \E s \in FreshSessions :
             /\ sessions' = [sessions EXCEPT ![s] = [state |-> "open", table |-> ctx[r].at]]
             /\ bills' = IF ctx[r].fresh THEN [bills EXCEPT ![ctx[r].into] = IntoRow(r)] ELSE bills
             /\ Finish(r)
             /\ UNCHANGED orders
       \/ FreshSessions = {} /\ RollBack(r)   \* bound: Session

LogoutCustomerSession(s) ==
    /\ "logout" \in Kinds
    /\ sessions[s].state = "open"
    /\ sessions' = [sessions EXCEPT ![s].state = "closed"]
    /\ UNCHANGED <<bills, orders, lock, pc, ctx>>

-----------------------------------------------------------------------------
(* CloseBill. *)

\* Mutant: the handler forgets the advisory lock.
CloseBillUnlocked(r, b) ==
    /\ bills[b].state # "none"
    /\ Start(r, "close", [NoCtx EXCEPT !.bill = b], "closeRead")

\* The table to lock comes from a first read of the bill.
CloseBill(r, b) ==
    /\ bills[b].state # "none"
    /\ Start(r, "close", [NoCtx EXCEPT !.bill = b, !.first = bills[b].table], "lock1")

CloseReread(r) ==
    /\ At(r, "closeRead")
    /\ IF bills[ctx[r].bill].state = "closed" THEN RollBack(r)
       ELSE /\ ctx' = [ctx EXCEPT ![r].at = bills[ctx[r].bill].table]
            /\ Goto(r, "closeSave")

\* Mutant: closing a bill leaves the sessions of its table open.
CloseSaveOnly(r) ==
    /\ At(r, "closeSave")
    /\ bills' = [bills EXCEPT ![ctx[r].bill].state = "closed"]
    /\ Finish(r)
    /\ UNCHANGED <<orders, sessions>>

CloseSave(r) ==
    /\ At(r, "closeSave")
    /\ bills' = [bills EXCEPT ![ctx[r].bill].state = "closed"]
    /\ sessions' = [s \in Session |-> IF s \in OpenSessions(ctx[r].at)
                                      THEN [sessions[s] EXCEPT !.state = "closed"]
                                      ELSE sessions[s]]
    /\ Finish(r)
    /\ UNCHANGED orders

-----------------------------------------------------------------------------
(* MoveBill. *)

MoveBill(r, b, t) ==
    /\ bills[b].state = "open" /\ bills[b].table # t
    /\ Start(r, "move", [NoCtx EXCEPT !.bill = b, !.orders = OrdersOf(b),
                                      !.first = bills[b].table, !.second = t], "moveCheck")

MoveCheck(r) ==
    /\ At(r, "moveCheck")
    /\ IF OpenBills(ctx[r].second) = {} THEN Goto(r, "lock1") /\ UNCHANGED ctx ELSE RollBack(r)

\* Mutant: the whole loaded row is saved, the state read before the locks included.
MoveSaveRow(r) ==
    /\ At(r, "moveSave")
    /\ OpenBills(ctx[r].second) \ {ctx[r].bill} = {}
    /\ bills' = [bills EXCEPT ![ctx[r].bill] = [@ EXCEPT !.table = ctx[r].second, !.state = "open"]]
    /\ sessions' = Reseated(ctx[r].first, ctx[r].second)
    /\ Finish(r)
    /\ UNCHANGED orders

\* Mutant: the orders of a moved bill stay at the old table.
MoveSaveBillOnly(r) ==
    /\ At(r, "moveSave")
    /\ OpenBills(ctx[r].second) \ {ctx[r].bill} = {}
    /\ bills' = [bills EXCEPT ![ctx[r].bill].table = ctx[r].second]
    /\ sessions' = Reseated(ctx[r].first, ctx[r].second)
    /\ Finish(r)
    /\ UNCHANGED orders

\* Nothing read before the locks is read again.  The unique index refuses a
\* second open bill at the target table.
MoveSave(r) ==
    LET b == ctx[r].bill
        t == ctx[r].second
    IN  /\ At(r, "moveSave")
        /\ IF bills[b].state = "open" /\ OpenBills(t) \ {b} # {} THEN RollBack(r)
           ELSE /\ bills' = [bills EXCEPT ![b].table = t]
                /\ orders' = [o \in Order |-> IF o \in ctx[r].orders
                                              THEN [orders[o] EXCEPT !.table = t] ELSE orders[o]]
                /\ sessions' = Reseated(ctx[r].first, t)
                /\ Finish(r)

-----------------------------------------------------------------------------
(* MergeBill: the orders of src go to dst, src is closed. *)

MergeBill(r, dst, src) ==
    /\ dst # src /\ bills[dst].state = "open" /\ bills[src].state = "open"
    /\ Start(r, "merge", [NoCtx EXCEPT !.bill = src, !.into = dst, !.orders = OrdersOf(src),
                                       !.first = bills[dst].table, !.second = bills[src].table,
                                       !.seen = bills[src].subtotal,
                                       !.seenInto = bills[dst].subtotal], "lock1")

MergeSave(r) == At(r, "mergeSave") /\ Goto(r, "mergeSum") /\ UNCHANGED ctx

MergeSum(r) ==
    /\ At(r, "mergeSum")
    /\ ctx' = [ctx EXCEPT ![r].sumInto = Total(ChargedTo(r, ctx[r].into))]
    /\ Goto(r, "mergeCommit")

MergeCommit(r) ==
    LET src == ctx[r].bill
    IN  /\ At(r, "mergeCommit")
        /\ bills' = [bills EXCEPT ![ctx[r].into] = IntoRow(r),
                                  ![src].state = "closed",
                                  ![src].subtotal = Recalculated(src, ctx[r].seen, Nothing)]
        /\ orders' = Rehomed(ctx[r].orders, ctx[r].into, ctx[r].first)
        /\ sessions' = Reseated(ctx[r].second, ctx[r].first)
        /\ Finish(r)

-----------------------------------------------------------------------------
(* SplitBill: the chosen orders of src go to the bill of table t. *)

SplitBill(r, src, os, t) ==
    /\ bills[src].state = "open" /\ os # {} /\ os \subseteq OrdersOf(src)
    /\ Start(r, "split", [NoCtx EXCEPT !.bill = src, !.orders = os,
                                       !.first = bills[src].table, !.second = t, !.at = t,
                                       !.seen = bills[src].subtotal], "lock1")

SplitSave(r) == At(r, "splitSave") /\ Goto(r, "splitSumFrom") /\ UNCHANGED ctx

SplitSumFrom(r) ==
    /\ At(r, "splitSumFrom")
    /\ ctx' = [ctx EXCEPT ![r].sum = Total(ChargedTo(r, ctx[r].bill))]
    /\ Goto(r, "splitSumInto")

SplitSumInto(r) ==
    /\ At(r, "splitSumInto")
    /\ ctx' = [ctx EXCEPT ![r].sumInto = Total(ChargedTo(r, ctx[r].into))]
    /\ Goto(r, "splitCommit")

\* Mutant: the source of a split is not recalculated.
SplitCommitTargetOnly(r) ==
    /\ At(r, "splitCommit")
    /\ bills' = [bills EXCEPT ![ctx[r].into] = IntoRow(r)]
    /\ orders' = Rehomed(ctx[r].orders, ctx[r].into, ctx[r].second)
    /\ Finish(r)
    /\ UNCHANGED sessions

\* When the target bill is the source itself, its loaded table id is used.
SplitCommit(r) ==
    LET src == ctx[r].bill
        dst == ctx[r].into
    IN  /\ At(r, "splitCommit")
        /\ bills' = IF dst = src THEN [bills EXCEPT ![dst] = IntoRow(r)]
                    ELSE [bills EXCEPT ![src].subtotal = Recalculated(src, ctx[r].seen, ctx[r].sum),
                                       ![dst] = IntoRow(r)]
        /\ orders' = Rehomed(ctx[r].orders, dst, IF dst = src THEN ctx[r].first ELSE ctx[r].second)
        /\ Finish(r)
        /\ UNCHANGED sessions

-----------------------------------------------------------------------------
(* UpdateOrderStatus, and UpdateKitchenItemStatus as far as the bill is    *)
(* concerned: no transaction and no lock; the order is saved, then the     *)
(* bill it was loaded with is recalculated and saved.  "live" stands for   *)
(* every status but cancelled.                                             *)

UpdateOrderStatus(r, o, status) ==
    /\ orders[o].state = "live"
    /\ Start(r, "status", [NoCtx EXCEPT !.order = o, !.status = status,
                                        !.into = orders[o].bill], "statusSave")

StatusSave(r) ==
    /\ At(r, "statusSave")
    /\ orders' = [orders EXCEPT ![ctx[r].order].state = ctx[r].status,
                                ![ctx[r].order].charged = @ /\ ctx[r].status = "live"]
    /\ pc' = [pc EXCEPT ![r] = "recalcRead"]
    /\ UNCHANGED <<bills, sessions, lock, ctx>>

RecalcRead(r) ==
    /\ At(r, "recalcRead")
    /\ ctx' = [ctx EXCEPT ![r].seenInto = bills[ctx[r].into].subtotal]
    /\ Goto(r, "recalcSum")

RecalcSum(r) ==
    /\ At(r, "recalcSum")
    /\ ctx' = [ctx EXCEPT ![r].sumInto = Total(ChargedTo(r, ctx[r].into))]
    /\ Goto(r, "recalcSave")

RecalcSave(r) ==
    /\ At(r, "recalcSave")
    /\ bills' = [bills EXCEPT ![ctx[r].into] = IntoRow(r)]
    /\ Finish(r)
    /\ UNCHANGED <<orders, sessions>>

-----------------------------------------------------------------------------
(* The request is cancelled, throws, or the process stops: what is not     *)
(* committed is rolled back.  The database breaks a deadlock the same way. *)

Fail(r) == MayFail /\ pc[r] # "idle" /\ RollBack(r)

BreakDeadlock(r) == pc[r] # "idle" /\ Deadlocked(r) /\ RollBack(r)

Call(r) ==
    \/ \E s \in Session : CreateOrder(r, s)
    \/ \E t \in Table : CreateAdminOrder(r, t) \/ VerifyTableToken(r, t)
    \/ \E b \in Bill : CloseBill(r, b)
    \/ \E b \in Bill, t \in Table : MoveBill(r, b, t)
    \/ \E dst, src \in Bill : MergeBill(r, dst, src)
    \/ \E src \in Bill, os \in SUBSET Order, t \in Table : SplitBill(r, src, os, t)
    \/ \E o \in Order, status \in {"live", "cancelled"} : UpdateOrderStatus(r, o, status)

Step(r) ==
    \/ AcquireFirst(r) \/ AcquireSecond(r) \/ GetOpenBill(r) \/ InsertBill(r)
    \/ OrderSave(r) \/ OrderCommit(r) \/ JoinSave(r)
    \/ CloseReread(r) \/ CloseSave(r)
    \/ MoveCheck(r) \/ MoveSave(r)
    \/ MergeSave(r) \/ MergeSum(r) \/ MergeCommit(r)
    \/ SplitSave(r) \/ SplitSumFrom(r) \/ SplitSumInto(r) \/ SplitCommit(r)
    \/ StatusSave(r) \/ RecalcRead(r) \/ RecalcSum(r) \/ RecalcSave(r)

Next ==
    \/ \E r \in Request : Call(r) \/ Step(r) \/ Fail(r) \/ BreakDeadlock(r)
    \/ \E s \in Session : LogoutCustomerSession(s)

Spec == Init /\ [][Next]_vars

\* Locks are granted in the order they were asked for, and the database looks
\* for deadlocks: a request that is not cut off gets on.
FairSpec ==
    /\ Spec
    /\ \A r \in Request : SF_vars(Step(r)) /\ WF_vars(BreakDeadlock(r))

-----------------------------------------------------------------------------
(* Properties. *)

\* At most one bill is open at a table, whatever runs at the same time.
OneOpenBillPerTable ==
    \A b, c \in Bill :
        /\ bills[b].state = "open" /\ bills[c].state = "open"
        /\ bills[b].table = bills[c].table
        => b = c

\* A handler that writes rows it loaded before another request closed them
\* never reopens a bill or a session (bills and sessions are saved by column).
ClosedIsFinal ==
    [][/\ \A b \in Bill : bills[b].state = "closed" => bills'[b].state = "closed"
       /\ \A s \in Session : sessions[s].state = "closed" => sessions'[s].state = "closed"]_vars

\* What the guest was asked to pay: once a bill is closed no order comes to it
\* or goes, and its subtotal changes only after the status of an order on it.
ClosedBillFrozen ==
    [][\A b \in Bill : bills[b].state = "closed" =>
         /\ OrdersOf(b)' = OrdersOf(b)
         /\ \/ bills'[b].subtotal = bills[b].subtotal
            \/ \E r \in Request : pc[r] = "recalcSave" /\ ctx[r].into = b]_vars

\* Bill b asks for the sum of the live orders on it.
Exact(b) == bills[b].subtotal = Total({o \in Billable : orders[o].bill = b})

\* Every bill, open or closed, asks for the sum of the live orders on it.
SubtotalExact == \A b \in Bill : Exact(b)

\* A bill that asks for the exact sum goes on doing so through orders, moves,
\* merges, splits and recalculations: only the save of an order's status, which
\* commits before the sum is asked for, leaves the bill of that order behind.
SubtotalStaysExact ==
    [][\A b \in Bill : Exact(b) =>
         \/ Exact(b)'
         \/ \E r \in Request : pc[r] = "statusSave" /\ ctx[r].into = b]_vars

\* An order is listed at the table of its bill as long as the bill is open.
OrderAtItsBillsTable ==
    \A o \in Order : orders[o].state # "none" /\ bills[orders[o].bill].state = "open"
                      => orders[o].table = bills[orders[o].bill].table

\* An open customer session sits at a table with an open bill.
OpenSessionHasOpenBill ==
    \A s \in Session : sessions[s].state = "open" => OpenBills(sessions[s].table) # {}

\* Every request is answered: a waiting one is served or rolled back.
EveryRequestEnds == \A r \in Request : pc[r] # "idle" ~> pc[r] = "idle"

Ledger == INSTANCE BillLedger WITH
    Table <- Table, Bill <- Bill, Order <- Order, Session <- Session, None <- None,
    Total <- Total, bills <- bills, orders <- orders

\* Every step of every handler is a step of the ledger or changes no bill.
ImplementsLedger == Ledger!Spec
=============================================================================
