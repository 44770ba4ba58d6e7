-------------------------- MODULE FloorBillsProofs --------------------------
(***************************************************************************)
(* Proofs about FloorBills, for any number of tables, bills, orders,       *)
(* sessions and requests.                                                  *)
(***************************************************************************)
EXTENDS FloorBills, TLAPS

-----------------------------------------------------------------------------
(* The inductive invariant.                                                *)

\* Which handlers can be at a label.
KindsAt(label) ==
    CASE label = "idle"       -> {None}
      [] label \in {"lock1", "lock2"} -> {"order", "adminOrder", "close", "move", "merge", "split"}
      [] label \in {"closeRead", "closeSave"} -> {"close"}
      [] label \in {"getBill", "insertBill"}  -> {"order", "adminOrder", "join", "split"}
      [] label \in {"orderSave", "orderCommit"} -> {"order", "adminOrder"}
      [] label = "joinSave"   -> {"join"}
      [] label \in {"moveCheck", "moveSave"} -> {"move"}
      [] label \in {"mergeSave", "mergeSum", "mergeCommit"} -> {"merge"}
      [] label \in {"splitSave", "splitSumFrom", "splitSumInto", "splitCommit"} -> {"split"}
      [] label \in {"statusSave", "recalcRead", "recalcSum", "recalcSave"} -> {"status"}

\* Labels at which a bill may have been inserted and is not committed.
AfterInsert == {"orderSave", "orderCommit", "joinSave", "splitSave", "splitSumFrom",
                "splitSumInto", "splitCommit"}

\* A row that exists refers to rows that exist.
RowsRefer ==
    /\ \A b \in Bill : bills[b].state # "none" => bills[b].table \in Table
    /\ \A s \in Session : sessions[s].state # "none" => sessions[s].table \in Table
    /\ \A o \in Order : orders[o].state # "none" =>
          orders[o].bill \in Bill /\ bills[orders[o].bill].state # "none"

\* The locals a handler has set when it is at its label.
LocalsOf(r) ==
    /\ ctx[r].kind \in KindsAt(pc[r])
    /\ ctx[r].kind \in {"order", "adminOrder", "join", "split"} => ctx[r].at \in Table
    /\ ctx[r].kind \in {"close", "move", "merge", "split"} =>
          ctx[r].bill \in Bill /\ bills[ctx[r].bill].state # "none"
    /\ ctx[r].kind = "move" => ctx[r].second \in Table
    /\ ctx[r].kind = "merge" => ctx[r].first \in Table
    /\ pc[r] \in AfterInsert \/ ctx[r].kind \in {"merge", "status"} =>
          ctx[r].into \in Bill /\ (ctx[r].fresh \/ bills[ctx[r].into].state # "none")
    /\ pc[r] = "orderCommit" \/ ctx[r].kind = "status" => ctx[r].order \in Order
    /\ ctx[r].kind = "status" => orders[ctx[r].order].state # "none"
    /\ \A o \in ctx[r].orders : orders[o].state # "none"

LocalsSet == \A r \in Request : LocalsOf(r)

\* A bill inserted and not committed has an id of its own, and the index keeps
\* other open bills away from its table.
InsertsReserved ==
    \A r \in Request : ctx[r].fresh =>
        /\ pc[r] \in AfterInsert
        /\ bills[ctx[r].into].state = "none"
        /\ OpenBills(ctx[r].at) = {}
        /\ \A q \in Request \ {r} :
              /\ ctx[q].into # ctx[r].into
              /\ ctx[q].fresh => ctx[q].at # ctx[r].at

-----------------------------------------------------------------------------
(* Types. *)

\* The empty sum is a sum: the subtotal of a bill just inserted has its type.
LEMMA NothingType == Nothing \in Totals
  BY DEF Nothing, Totals

\* What RecalculateSubtotalAsync adds up is a subtotal, whichever orders it finds.
LEMMA TotalType == ASSUME NEW S \in SUBSET Order PROVE Total(S) \in Totals
  BY DEF Totals

\* The locals of a request that is not running are typed.
LEMMA NoCtxType == NoCtx \in Ctx
  BY NothingType DEF NoCtx, Ctx, OptTable, OptBill

\* The sum query of RecalculateSubtotalAsync returns a subtotal.
LEMMA ChargedType ==
  ASSUME NEW r, NEW b PROVE ChargedTo(r, b) \in SUBSET Order
  BY DEF ChargedTo, Billable

\* Commit, rollback and return leave the locks and the locals typed.
LEMMA FinishType ==
  ASSUME TypeOK, NEW r \in Request, Finish(r)
  PROVE  /\ lock' \in [Table -> Request \cup {None}]
         /\ pc' \in [Request -> Labels]
         /\ ctx' \in [Request -> Ctx]
  BY NoCtxType DEF Finish, TypeOK, Labels

\* A request that is rolled back leaves everything typed.
LEMMA RollBackType ==
  ASSUME TypeOK, NEW r \in Request, RollBack(r) PROVE TypeOK'
  BY FinishType DEF RollBack, data, TypeOK

\* A call whose locals are typed leaves everything typed.
LEMMA StartType ==
  ASSUME TypeOK, NEW r \in Request, NEW k, NEW c \in Ctx, NEW label \in Labels,
         Start(r, k, c, label)
  PROVE  TypeOK'
  <1>1. k \in AllKinds
    BY KindsAssumption DEF Start
  <1>2. [c EXCEPT !.kind = k] \in Ctx
    BY <1>1 DEF Ctx
  <1>3. QED
    BY <1>2 DEF Start, data, TypeOK

\* The fields of the locals have the types of the record set Ctx.
LEMMA CtxType ==
  ASSUME TypeOK, NEW r \in Request
  PROVE  /\ ctx[r] \in Ctx
         /\ ctx[r].kind \in AllKinds \cup {None}
         /\ ctx[r].first \in OptTable /\ ctx[r].second \in OptTable /\ ctx[r].at \in OptTable
         /\ ctx[r].bill \in OptBill /\ ctx[r].into \in OptBill /\ ctx[r].fresh \in BOOLEAN
         /\ ctx[r].orders \in SUBSET Order /\ ctx[r].order \in Order \cup {None}
         /\ ctx[r].status \in {"live", "cancelled"} /\ ctx[r].session \in Session \cup {None}
         /\ ctx[r].seen \in Totals /\ ctx[r].sum \in Totals
         /\ ctx[r].seenInto \in Totals /\ ctx[r].sumInto \in Totals
  BY DEF TypeOK, Ctx

\* The fields of a bill row have the types of BillRow.
LEMMA BillType ==
  ASSUME TypeOK, NEW b \in Bill
  PROVE  /\ bills[b] \in BillRow
         /\ bills[b].state \in {"none", "open", "closed"}
         /\ bills[b].table \in OptTable
         /\ bills[b].subtotal \in Totals
  BY DEF TypeOK, BillRow

\* The fields of an order row have the types of OrderRow.
LEMMA OrderType ==
  ASSUME TypeOK, NEW o \in Order
  PROVE  /\ orders[o] \in OrderRow
         /\ orders[o].state \in {"none", "live", "cancelled"}
         /\ orders[o].charged \in BOOLEAN
         /\ orders[o].table \in OptTable /\ orders[o].bill \in OptBill
         /\ orders[o].session \in Session \cup {None}
  BY DEF TypeOK, OrderRow

\* The row a commit writes for the receiving bill is a bill row.
LEMMA IntoRowType ==
  ASSUME TypeOK, NEW r \in Request, ctx[r].into \in Bill
  PROVE  IntoRow(r) \in BillRow
  <1> DEFINE row == IF ctx[r].fresh
                    THEN [state |-> "open", table |-> ctx[r].at, subtotal |-> Nothing]
                    ELSE bills[ctx[r].into]
             due == IF ctx[r].sumInto = ctx[r].seenInto THEN row.subtotal ELSE ctx[r].sumInto
  <1>1. row \in BillRow
    BY NothingType, CtxType, BillType DEF BillRow
  <1>2. due \in Totals
    BY <1>1, CtxType DEF BillRow
  <1>3. IntoRow(r) = [row EXCEPT !.subtotal = due]
    BY DEF IntoRow
  <1> HIDE DEF row, due
  <1>4. QED
    BY <1>1, <1>2, <1>3 DEF BillRow

\* A saved subtotal is a subtotal, written or left as it was.
LEMMA RecalculatedType ==
  ASSUME TypeOK, NEW b \in Bill, NEW x, NEW y \in Totals
  PROVE  Recalculated(b, x, y) \in Totals
  BY BillType DEF Recalculated

\* Merge and split move typed orders to a typed place.
LEMMA RehomedType ==
  ASSUME TypeOK, NEW os \in SUBSET Order, NEW b \in Bill, NEW t \in OptTable
  PROVE  Rehomed(os, b, t) \in [Order -> OrderRow]
  BY OrderType DEF Rehomed, OrderRow, OptBill

\* Move and merge take typed sessions to a typed table.
LEMMA ReseatedType ==
  ASSUME TypeOK, NEW t, NEW u \in OptTable
  PROVE  Reseated(t, u) \in [Session -> SessionRow]
  BY DEF Reseated, TypeOK, SessionRow

-----------------------------------------------------------------------------
(* Every action keeps the types. *)

\* Every call of a handler keeps the types.
LEMMA CallType ==
  ASSUME TypeOK, NEW r \in Request, Call(r) PROVE TypeOK'
  <1> USE NothingType, NoCtxType DEF OptTable, OptBill
  <1>1. ASSUME NEW s \in Session, CreateOrder(r, s) PROVE TypeOK'
    <2>1. [NoCtx EXCEPT !.session = s, !.first = sessions[s].table,
                        !.at = sessions[s].table] \in Ctx
      BY <1>1 DEF Ctx, TypeOK, SessionRow, NoCtx
    <2>2. QED
      BY <1>1, <2>1, StartType DEF CreateOrder, Labels
  <1>2. ASSUME NEW t \in Table, CreateAdminOrder(r, t) PROVE TypeOK'
    <2>1. [NoCtx EXCEPT !.first = t, !.at = t] \in Ctx
      BY DEF Ctx, NoCtx
    <2>2. QED
      BY <1>2, <2>1, StartType DEF CreateAdminOrder, Labels
  <1>3. ASSUME NEW t \in Table, VerifyTableToken(r, t) PROVE TypeOK'
    <2>1. [NoCtx EXCEPT !.at = t] \in Ctx
      BY DEF Ctx, NoCtx
    <2>2. QED
      BY <1>3, <2>1, StartType DEF VerifyTableToken, Labels
  <1>4. ASSUME NEW b \in Bill, CloseBill(r, b) PROVE TypeOK'
    <2>1. [NoCtx EXCEPT !.bill = b, !.first = bills[b].table] \in Ctx
      BY BillType DEF Ctx, NoCtx
    <2>2. QED
      BY <1>4, <2>1, StartType DEF CloseBill, Labels
  <1>5. ASSUME NEW b \in Bill, NEW t \in Table, MoveBill(r, b, t) PROVE TypeOK'
    <2>1. [NoCtx EXCEPT !.bill = b, !.orders = OrdersOf(b),
                        !.first = bills[b].table, !.second = t] \in Ctx
      BY BillType DEF Ctx, NoCtx, OrdersOf
    <2>2. QED
      BY <1>5, <2>1, StartType DEF MoveBill, Labels
  <1>6. ASSUME NEW dst \in Bill, NEW src \in Bill, MergeBill(r, dst, src) PROVE TypeOK'
    <2>1. [NoCtx EXCEPT !.bill = src, !.into = dst, !.orders = OrdersOf(src),
                        !.first = bills[dst].table, !.second = bills[src].table,
                        !.seen = bills[src].subtotal,
                        !.seenInto = bills[dst].subtotal] \in Ctx
      BY BillType DEF Ctx, NoCtx, OrdersOf
    <2>2. QED
      BY <1>6, <2>1, StartType DEF MergeBill, Labels
  <1>7. ASSUME NEW src \in Bill, NEW os \in SUBSET Order, NEW t \in Table,
               SplitBill(r, src, os, t)
        PROVE TypeOK'
    <2>1. [NoCtx EXCEPT !.bill = src, !.orders = os,
                        !.first = bills[src].table, !.second = t, !.at = t,
                        !.seen = bills[src].subtotal] \in Ctx
      BY BillType DEF Ctx, NoCtx
    <2>2. QED
      BY <1>7, <2>1, StartType DEF SplitBill, Labels
  <1>8. ASSUME NEW o \in Order, NEW status \in {"live", "cancelled"},
               UpdateOrderStatus(r, o, status)
        PROVE TypeOK'
    <2>1. [NoCtx EXCEPT !.order = o, !.status = status, !.into = orders[o].bill] \in Ctx
      BY OrderType DEF Ctx, NoCtx
    <2>2. QED
      BY <1>8, <2>1, StartType DEF UpdateOrderStatus, Labels
  <1>9. QED
    BY <1>1, <1>2, <1>3, <1>4, <1>5, <1>6, <1>7, <1>8 DEF Call

\* A step that only sets locals and goes to another label.
LEMMA GotoType ==
  ASSUME TypeOK, NEW r \in Request, NEW label \in Labels, Goto(r, label),
         ctx' \in [Request -> Ctx]
  PROVE  TypeOK'
  BY DEF Goto, data, TypeOK

\* A step that sets one of the locals a statement computes.
LEMMA LocalType ==
  ASSUME NEW f \in [Request -> Ctx], NEW r \in Request
  PROVE  /\ \A t \in OptTable : [f EXCEPT ![r].at = t] \in [Request -> Ctx]
         /\ \A b \in OptBill : [f EXCEPT ![r].into = b] \in [Request -> Ctx]
         /\ \A x \in BOOLEAN : [f EXCEPT ![r].fresh = x] \in [Request -> Ctx]
         /\ \A o \in Order : [f EXCEPT ![r].order = o] \in [Request -> Ctx]
         /\ \A x \in Totals : /\ [f EXCEPT ![r].sum = x] \in [Request -> Ctx]
                             /\ [f EXCEPT ![r].sumInto = x] \in [Request -> Ctx]
                             /\ [f EXCEPT ![r].seenInto = x] \in [Request -> Ctx]
  <1>1. \A t \in OptTable : [f EXCEPT ![r].at = t] \in [Request -> Ctx]
    BY DEF Ctx
  <1>2. \A b \in OptBill : [f EXCEPT ![r].into = b] \in [Request -> Ctx]
    BY DEF Ctx
  <1>3. \A x \in BOOLEAN : [f EXCEPT ![r].fresh = x] \in [Request -> Ctx]
    BY DEF Ctx
  <1>4. \A o \in Order : [f EXCEPT ![r].order = o] \in [Request -> Ctx]
    BY DEF Ctx
  <1>5. \A x \in Totals : [f EXCEPT ![r].sum = x] \in [Request -> Ctx]
    BY DEF Ctx
  <1>6. \A x \in Totals : [f EXCEPT ![r].sumInto = x] \in [Request -> Ctx]
    BY DEF Ctx
  <1>7. \A x \in Totals : [f EXCEPT ![r].seenInto = x] \in [Request -> Ctx]
    BY DEF Ctx
  <1>8. QED
    BY <1>1, <1>2, <1>3, <1>4, <1>5, <1>6, <1>7

\* The bill GetOrCreateOpenBillAsync finds keeps the types.
LEMMA UseBillType ==
  ASSUME TypeOK, LocalsSet, NEW r \in Request, NEW b \in Bill, UseBill(r, b),
         pc[r] \in {"getBill", "insertBill"}
  PROVE  TypeOK'
  <1>1. AfterBill(ctx[r].kind) \in Labels
    BY DEF LocalsSet, LocalsOf, KindsAt, AfterBill, Labels
  <1>2. \A x \in Totals : [ctx EXCEPT ![r].into = b, ![r].seenInto = x] \in [Request -> Ctx]
    <2>1. SUFFICES ASSUME NEW x \in Totals
                   PROVE  [ctx EXCEPT ![r].into = b, ![r].seenInto = x] \in [Request -> Ctx]
      OBVIOUS
    <2>2. [ctx EXCEPT ![r].into = b] \in [Request -> Ctx]
      BY LocalType DEF TypeOK, OptBill
    <2>3. QED
      BY <2>2, LocalType
  <1>3. ctx' \in [Request -> Ctx]
    BY <1>2, CtxType, BillType DEF UseBill
  <1>4. QED
    BY <1>1, <1>3, GotoType DEF UseBill

\* Taking an advisory lock keeps the types.
LEMMA AcquireType ==
  ASSUME TypeOK, LocalsSet, NEW r \in Request, AcquireFirst(r) \/ AcquireSecond(r)
  PROVE  TypeOK'
  <1>1. AfterLocks(ctx[r].kind) \in Labels
    BY DEF AcquireFirst, AcquireSecond, At, LocalsSet, LocalsOf, KindsAt, AfterLocks, Labels
  <1>2. pc' \in [Request -> Labels]
    BY <1>1 DEF AcquireFirst, AcquireSecond, TypeOK, Labels
  <1>3. lock' \in [Table -> Request \cup {None}]
    BY DEF AcquireFirst, AcquireSecond, TypeOK
  <1>4. QED
    BY <1>2, <1>3 DEF AcquireFirst, AcquireSecond, data, TypeOK

\* Both halves of GetOrCreateOpenBillAsync keep the types.
LEMMA FetchBillType ==
  ASSUME TypeOK, LocalsSet, NEW r \in Request, GetOpenBill(r) \/ InsertBill(r)
  PROVE  TypeOK'
  <1>1. CASE GetOpenBill(r)
    <2>1. CASE OpenBills(ctx[r].at) = {}
      BY <1>1, <2>1, GotoType DEF GetOpenBill, TypeOK, Labels
    <2>2. CASE OpenBills(ctx[r].at) # {}
      BY <1>1, <2>2, UseBillType DEF GetOpenBill, OpenBills, At
    <2>3. QED
      BY <2>1, <2>2
  <1>2. CASE InsertBill(r)
    <2>1. ASSUME NEW b \in FreshBills,
                 ctx' = [ctx EXCEPT ![r].into = b, ![r].fresh = TRUE],
                 Goto(r, AfterBill(ctx[r].kind))
          PROVE TypeOK'
      <3>1. AfterBill(ctx[r].kind) \in Labels
        BY <1>2 DEF InsertBill, At, LocalsSet, LocalsOf, KindsAt, AfterBill, Labels
      <3>2. ctx' \in [Request -> Ctx]
        <4>1. [ctx EXCEPT ![r].into = b] \in [Request -> Ctx]
          BY LocalType DEF TypeOK, OptBill, FreshBills
        <4>2. QED
          BY <2>1, <4>1, LocalType
      <3>3. QED
        BY <2>1, <3>1, <3>2, GotoType
    <2>2. ASSUME NEW b \in OpenBills(ctx[r].at), UseBill(r, b) PROVE TypeOK'
      BY <1>2, <2>2, UseBillType DEF InsertBill, OpenBills, At
    <2>3. QED
      BY <1>2, <2>1, <2>2, RollBackType DEF InsertBill
  <1>3. QED
    BY <1>1, <1>2

\* The steps of a handler that only read or set locals, and the unlocked
\* save of an order's status, keep the types.
LEMMA ReadType ==
  ASSUME TypeOK, LocalsSet, NEW r \in Request,
         \/ OrderSave(r) \/ CloseReread(r) \/ MoveCheck(r)
         \/ MergeSave(r) \/ MergeSum(r)
         \/ SplitSave(r) \/ SplitSumFrom(r) \/ SplitSumInto(r)
         \/ RecalcRead(r) \/ RecalcSum(r)
  PROVE  TypeOK'
  <1> DEFINE due(b) == Total(ChargedTo(r, b))
  <1>0. \A b : due(b) \in Totals
    BY ChargedType, TotalType
  <1>00. ctx \in [Request -> Ctx]
    BY DEF TypeOK
  <1> HIDE DEF due
  <1>1. CASE OrderSave(r)
    <2>1. ASSUME NEW o \in FreshOrders,
                 ctx' = [ctx EXCEPT ![r].order = o,
                            ![r].sumInto = Total(ChargedTo(r, ctx[r].into) \cup {o})],
                 Goto(r, "orderCommit")
          PROVE TypeOK'
      <3>1. Total(ChargedTo(r, ctx[r].into) \cup {o}) \in Totals
        BY ChargedType, TotalType DEF FreshOrders
      <3>2. ctx' \in [Request -> Ctx]
        <4> DEFINE x == Total(ChargedTo(r, ctx[r].into) \cup {o})
        <4>1. [ctx EXCEPT ![r].order = o] \in [Request -> Ctx]
          BY LocalType DEF TypeOK, FreshOrders
        <4>2. x \in Totals /\ ctx' = [ctx EXCEPT ![r].order = o, ![r].sumInto = x]
          BY <2>1, <3>1
        <4> HIDE DEF x
        <4>3. QED
          BY <4>1, <4>2, LocalType
      <3>3. QED
        BY <2>1, <3>2, GotoType DEF Labels
    <2>2. QED
      BY <1>1, <2>1, RollBackType DEF OrderSave
  <1>2. CASE CloseReread(r)
    <2>1. CASE bills[ctx[r].bill].state = "closed"
      BY <1>2, <2>1, RollBackType DEF CloseReread
    <2>2. CASE bills[ctx[r].bill].state # "closed"
      <3>1. bills[ctx[r].bill].table \in OptTable
        BY <1>2, BillType DEF CloseReread, At, LocalsSet, LocalsOf, KindsAt
      <3>2. ctx' \in [Request -> Ctx]
        <4>1. ctx' = [ctx EXCEPT ![r].at = bills[ctx[r].bill].table]
          BY <1>2, <2>2 DEF CloseReread
        <4>2. QED
          BY <1>00, <3>1, <4>1, LocalType
      <3>3. QED
        BY <1>2, <2>2, <3>2, GotoType DEF CloseReread, Labels
    <2>3. QED
      BY <2>1, <2>2
  <1>3. CASE MoveCheck(r)
    BY <1>3, RollBackType, GotoType DEF MoveCheck, TypeOK, Labels
  <1>4. CASE MergeSave(r) \/ SplitSave(r)
    BY <1>4, GotoType DEF MergeSave, SplitSave, TypeOK, Labels
  <1>5. CASE MergeSum(r) \/ SplitSumInto(r) \/ RecalcSum(r) \/ SplitSumFrom(r)
    <2>1. \/ ctx' = [ctx EXCEPT ![r].sumInto = due(ctx[r].into)]
          \/ ctx' = [ctx EXCEPT ![r].sum = due(ctx[r].bill)]
      BY <1>5 DEF MergeSum, SplitSumInto, RecalcSum, SplitSumFrom, due
    <2>2. ctx' \in [Request -> Ctx]
      <3>1. CASE ctx' = [ctx EXCEPT ![r].sumInto = due(ctx[r].into)]
        BY <1>00, <1>0, <3>1, LocalType
      <3>2. CASE ctx' = [ctx EXCEPT ![r].sum = due(ctx[r].bill)]
        BY <1>00, <1>0, <3>2, LocalType
      <3>3. QED
        BY <2>1, <3>1, <3>2
    <2>3. QED
      BY <1>5, <2>2, GotoType DEF MergeSum, SplitSumInto, RecalcSum, SplitSumFrom, Labels
  <1>6. CASE RecalcRead(r)
    <2>1. ctx' \in [Request -> Ctx]
      <3>1. bills[ctx[r].into].subtotal \in Totals
        BY <1>6, BillType DEF RecalcRead, At, LocalsSet, LocalsOf, KindsAt
      <3>2. QED
        BY <1>00, <1>6, <3>1, LocalType DEF RecalcRead
    <2>2. QED
      BY <1>6, <2>1, GotoType DEF RecalcRead, Labels
  <1>7. QED
    BY <1>1, <1>2, <1>3, <1>4, <1>5, <1>6

\* A row replaced by a row leaves the table of bills typed.
LEMMA BillsUpdateType ==
  ASSUME TypeOK, NEW b \in Bill
  PROVE  /\ \A row \in BillRow : [bills EXCEPT ![b] = row] \in [Bill -> BillRow]
         /\ [bills EXCEPT ![b].state = "closed"] \in [Bill -> BillRow]
         /\ \A t \in OptTable : [bills EXCEPT ![b].table = t] \in [Bill -> BillRow]
  BY DEF TypeOK, BillRow

\* The commit of every handler keeps the types.
LEMMA WriteType ==
  ASSUME TypeOK, LocalsSet, NEW r \in Request,
         \/ OrderCommit(r) \/ JoinSave(r) \/ CloseSave(r) \/ MoveSave(r) \/ MergeCommit(r)
         \/ SplitCommit(r) \/ StatusSave(r) \/ RecalcSave(r)
  PROVE  TypeOK'
  <1>1. CASE OrderCommit(r)
    <2>1. ctx[r].into \in Bill /\ ctx[r].order \in Order
      BY <1>1 DEF OrderCommit, At, LocalsSet, LocalsOf, AfterInsert
    <2>2. bills' \in [Bill -> BillRow]
      BY <1>1, <2>1, IntoRowType, BillsUpdateType DEF OrderCommit
    <2>3. orders' \in [Order -> OrderRow]
      BY <1>1, <2>1, CtxType DEF OrderCommit, TypeOK, OrderRow, OptBill
    <2>4. QED
      BY <1>1, <2>2, <2>3, FinishType DEF OrderCommit, TypeOK
  <1>2. CASE JoinSave(r)
    <2>1. ASSUME NEW s \in FreshSessions,
             sessions' = [sessions EXCEPT ![s] = [state |-> "open", table |-> ctx[r].at]],
             bills' = IF ctx[r].fresh THEN [bills EXCEPT ![ctx[r].into] = IntoRow(r)] ELSE bills,
             Finish(r), UNCHANGED orders
          PROVE TypeOK'
      <3>1. ctx[r].into \in Bill
        BY <1>2 DEF JoinSave, At, LocalsSet, LocalsOf, AfterInsert
      <3>2. bills' \in [Bill -> BillRow]
        BY <2>1, <3>1, IntoRowType, BillsUpdateType DEF TypeOK
      <3>3. sessions' \in [Session -> SessionRow]
        BY <2>1, CtxType DEF TypeOK, SessionRow, FreshSessions
      <3>4. QED
        BY <2>1, <3>2, <3>3, FinishType DEF TypeOK
    <2>2. QED
      BY <1>2, <2>1, RollBackType DEF JoinSave
  <1>3. CASE CloseSave(r)
    <2>1. ctx[r].bill \in Bill
      BY <1>3 DEF CloseSave, At, LocalsSet, LocalsOf, KindsAt
    <2>2. bills' \in [Bill -> BillRow]
      BY <1>3, <2>1, BillsUpdateType DEF CloseSave
    <2>3. sessions' \in [Session -> SessionRow]
      BY <1>3 DEF CloseSave, TypeOK, SessionRow
    <2>4. QED
      BY <1>3, <2>2, <2>3, FinishType DEF CloseSave, TypeOK
  <1>4. CASE MoveSave(r)
    <2>1. ctx[r].bill \in Bill /\ ctx[r].second \in OptTable
      BY <1>4, CtxType DEF MoveSave, At, LocalsSet, LocalsOf, KindsAt
    <2>2. CASE bills[ctx[r].bill].state = "open" /\ OpenBills(ctx[r].second) \ {ctx[r].bill} # {}
      BY <1>4, <2>2, RollBackType DEF MoveSave
    <2>3. CASE ~(bills[ctx[r].bill].state = "open" /\ OpenBills(ctx[r].second) \ {ctx[r].bill} # {})
      <3>1. bills' \in [Bill -> BillRow]
        <4>1. bills' = [bills EXCEPT ![ctx[r].bill].table = ctx[r].second]
          BY <1>4, <2>3 DEF MoveSave
        <4>2. QED
          BY <2>1, <4>1, BillsUpdateType
      <3>2. orders' \in [Order -> OrderRow]
        BY <1>4, <2>1, <2>3 DEF MoveSave, TypeOK, OrderRow
      <3>3. sessions' \in [Session -> SessionRow]
        BY <1>4, <2>1, <2>3, ReseatedType DEF MoveSave
      <3>4. QED
        BY <1>4, <2>3, <3>1, <3>2, <3>3, FinishType DEF MoveSave, TypeOK
    <2>4. QED
      BY <2>2, <2>3
  <1>5. CASE MergeCommit(r)
    <2>1. ctx[r].bill \in Bill /\ ctx[r].into \in Bill
      BY <1>5 DEF MergeCommit, At, LocalsSet, LocalsOf, KindsAt
    <2>2. bills' \in [Bill -> BillRow]
      <3> DEFINE due == Recalculated(ctx[r].bill, ctx[r].seen, Nothing)
      <3>1. due \in Totals /\ IntoRow(r) \in BillRow
        BY <2>1, RecalculatedType, NothingType, IntoRowType
      <3>2. bills' = [bills EXCEPT ![ctx[r].into] = IntoRow(r),
                                   ![ctx[r].bill].state = "closed",
                                   ![ctx[r].bill].subtotal = due]
        BY <1>5 DEF MergeCommit
      <3> HIDE DEF due
      <3>3. QED
        BY <2>1, <3>1, <3>2 DEF TypeOK, BillRow
    <2>3. orders' \in [Order -> OrderRow]
      BY <1>5, <2>1, CtxType, RehomedType DEF MergeCommit
    <2>4. sessions' \in [Session -> SessionRow]
      BY <1>5, CtxType, ReseatedType DEF MergeCommit
    <2>5. QED
      BY <1>5, <2>2, <2>3, <2>4, FinishType DEF MergeCommit, TypeOK
  <1>6. CASE SplitCommit(r)
    <2>1. ctx[r].bill \in Bill /\ ctx[r].into \in Bill
      BY <1>6 DEF SplitCommit, At, LocalsSet, LocalsOf, AfterInsert, KindsAt
    <2>2. bills' \in [Bill -> BillRow]
      <3> DEFINE due == Recalculated(ctx[r].bill, ctx[r].seen, ctx[r].sum)
      <3>1. due \in Totals /\ IntoRow(r) \in BillRow
        BY <2>1, RecalculatedType, CtxType, IntoRowType
      <3>2. bills' = IF ctx[r].into = ctx[r].bill THEN [bills EXCEPT ![ctx[r].into] = IntoRow(r)]
                     ELSE [bills EXCEPT ![ctx[r].bill].subtotal = due,
                                        ![ctx[r].into] = IntoRow(r)]
        BY <1>6 DEF SplitCommit
      <3> HIDE DEF due
      <3>3. QED
        BY <2>1, <3>1, <3>2 DEF TypeOK, BillRow
    <2>3. orders' \in [Order -> OrderRow]
      BY <1>6, <2>1, CtxType, RehomedType DEF SplitCommit
    <2>4. QED
      BY <1>6, <2>2, <2>3, FinishType DEF SplitCommit, TypeOK
  <1>7. CASE StatusSave(r)
    <2>1. ctx[r].order \in Order
      BY <1>7 DEF StatusSave, At, LocalsSet, LocalsOf, KindsAt
    <2>2. orders' \in [Order -> OrderRow]
      BY <1>7, <2>1, CtxType DEF StatusSave, TypeOK, OrderRow
    <2>3. pc' \in [Request -> Labels] /\ UNCHANGED <<bills, sessions, lock, ctx>>
      BY <1>7 DEF StatusSave, TypeOK, Labels
    <2>4. QED
      BY <2>2, <2>3 DEF TypeOK
  <1>8. CASE RecalcSave(r)
    <2>1. ctx[r].into \in Bill
      BY <1>8 DEF RecalcSave, At, LocalsSet, LocalsOf, KindsAt
    <2>2. bills' \in [Bill -> BillRow]
      BY <1>8, <2>1, IntoRowType, BillsUpdateType DEF RecalcSave
    <2>3. QED
      BY <1>8, <2>2, FinishType DEF RecalcSave, TypeOK
  <1>9. QED
    BY <1>1, <1>2, <1>3, <1>4, <1>5, <1>6, <1>7, <1>8

\* Every step of the API keeps the types.
LEMMA TypeStep ==
  ASSUME TypeOK, LocalsSet, [Next]_vars PROVE TypeOK'
  <1>1. ASSUME NEW r \in Request, Step(r) PROVE TypeOK'
    BY <1>1, AcquireType, FetchBillType, ReadType, WriteType DEF Step
  <1>2. ASSUME NEW s \in Session, LogoutCustomerSession(s) PROVE TypeOK'
    BY <1>2 DEF LogoutCustomerSession, TypeOK, SessionRow
  <1>3. CASE UNCHANGED vars
    BY <1>3 DEF vars, data, TypeOK
  <1>4. QED
    BY <1>1, <1>2, <1>3, CallType, RollBackType DEF Next, Fail, BreakDeadlock

-----------------------------------------------------------------------------
(* What a step of request r does to the committed rows.                    *)

Inserts(r, b) ==
    /\ ctx[r].fresh /\ b = ctx[r].into /\ ~ctx'[r].fresh
    /\ bills'[b].state = "open" /\ bills'[b].table = ctx[r].at

Moves(r, b) ==
    /\ pc[r] = "moveSave" /\ Blockers(r) = {} /\ b = ctx[r].bill
    /\ bills'[b].state = bills[b].state /\ bills'[b].table = ctx[r].second
    /\ bills[b].state = "open" => OpenBills(ctx[r].second) \subseteq {b}

BillEffect(r) ==
    \A b \in Bill :
        \/ bills'[b].state = bills[b].state /\ bills'[b].table = bills[b].table
        \/ /\ bills[b].state # "none" /\ bills'[b].state = "closed"
           /\ bills'[b].table = bills[b].table
        \/ Inserts(r, b)
        \/ Moves(r, b)

OrderEffect(r) ==
    \A o \in Order :
        /\ orders[o].state # "none" => orders'[o].state # "none"
        /\ orders'[o].state # "none" =>
              \/ orders[o].state # "none" /\ orders'[o].bill = orders[o].bill
              \/ /\ orders'[o].bill = ctx[r].into /\ ctx[r].into \in Bill
                 /\ bills'[ctx[r].into].state # "none"

SessionEffect ==
    \A s \in Session :
        /\ sessions[s].state = "closed" => sessions'[s].state = "closed"
        /\ sessions'[s].state # "none" =>
              \/ sessions[s].state # "none" /\ sessions'[s].table = sessions[s].table
              \/ sessions'[s].table \in Table

RowEffect(r) == BillEffect(r) /\ OrderEffect(r) /\ SessionEffect

\* A step that writes no row has the effect every step may have.
LEMMA NoRowEffect ==
  ASSUME TypeOK, NEW r \in Request, UNCHANGED data PROVE RowEffect(r)
  BY DEF data, RowEffect, BillEffect, OrderEffect, SessionEffect

\* The commit of the receiving bill opens it only if this request inserted it.
LEMMA IntoRowIs ==
  ASSUME TypeOK, NEW r \in Request, ctx[r].into \in Bill
  PROVE  /\ ctx[r].fresh => IntoRow(r).state = "open" /\ IntoRow(r).table = ctx[r].at
         /\ ~ctx[r].fresh => /\ IntoRow(r).state = bills[ctx[r].into].state
                             /\ IntoRow(r).table = bills[ctx[r].into].table
  <1> DEFINE row == IF ctx[r].fresh
                    THEN [state |-> "open", table |-> ctx[r].at, subtotal |-> Nothing]
                    ELSE bills[ctx[r].into]
             due == IF ctx[r].sumInto = ctx[r].seenInto THEN row.subtotal ELSE ctx[r].sumInto
  <1>1. row \in BillRow
    BY NothingType, CtxType, BillType DEF BillRow
  <1>2. IntoRow(r) = [row EXCEPT !.subtotal = due]
    BY DEF IntoRow
  <1>3. /\ ctx[r].fresh => row.state = "open" /\ row.table = ctx[r].at
        /\ ~ctx[r].fresh => row = bills[ctx[r].into]
    OBVIOUS
  <1> HIDE DEF row, due
  <1>4. IntoRow(r).state = row.state /\ IntoRow(r).table = row.table
    BY <1>1, <1>2 DEF BillRow
  <1>5. QED
    BY <1>3, <1>4

\* A request that ended holds no uncommitted insert.
LEMMA FinishCtx ==
  ASSUME TypeOK, NEW r \in Request, Finish(r)
  PROVE  ctx'[r] = NoCtx /\ ~ctx'[r].fresh
  BY DEF Finish, TypeOK, NoCtx

\* The commit of the row that receives orders or is recalculated.
LEMMA IntoEffect ==
  ASSUME TypeOK, NEW r \in Request, ctx[r].into \in Bill, Finish(r),
         bills' = [bills EXCEPT ![ctx[r].into] = IntoRow(r)]
  PROVE  BillEffect(r)
  BY IntoRowIs, FinishCtx DEF BillEffect, Inserts, TypeOK

\* The commit of every handler has only the effects listed in RowEffect.
LEMMA WriteEffect ==
  ASSUME TypeOK, LocalsSet, InsertsReserved, NEW r \in Request,
         \/ OrderCommit(r) \/ JoinSave(r) \/ CloseSave(r) \/ MoveSave(r) \/ MergeCommit(r)
         \/ SplitCommit(r) \/ StatusSave(r) \/ RecalcSave(r)
  PROVE  RowEffect(r)
  <1>1. CASE OrderCommit(r)
    <2>1. /\ ctx[r].into \in Bill /\ ctx[r].order \in Order
          /\ ctx[r].fresh \/ bills[ctx[r].into].state # "none"
      BY <1>1 DEF OrderCommit, At, LocalsSet, LocalsOf, AfterInsert
    <2>2. BillEffect(r)
      BY <1>1, <2>1, IntoEffect DEF OrderCommit
    <2>3. bills'[ctx[r].into].state # "none"
      BY <1>1, <2>1, IntoRowIs DEF OrderCommit, TypeOK
    <2>4. OrderEffect(r)
      BY <1>1, <2>1, <2>3 DEF OrderCommit, OrderEffect, TypeOK
    <2>5. SessionEffect
      BY <1>1 DEF OrderCommit, SessionEffect
    <2>6. QED
      BY <2>2, <2>4, <2>5 DEF RowEffect
  <1>2. CASE JoinSave(r)
    <2>1. ctx[r].into \in Bill /\ ctx[r].at \in Table
      BY <1>2 DEF JoinSave, At, LocalsSet, LocalsOf, AfterInsert, KindsAt
    <2>2. ASSUME NEW s \in FreshSessions,
             sessions' = [sessions EXCEPT ![s] = [state |-> "open", table |-> ctx[r].at]],
             bills' = IF ctx[r].fresh THEN [bills EXCEPT ![ctx[r].into] = IntoRow(r)] ELSE bills,
             Finish(r), UNCHANGED orders
          PROVE RowEffect(r)
      <3>1. BillEffect(r)
        <4>1. CASE ctx[r].fresh
          BY <2>1, <2>2, <4>1, IntoEffect
        <4>2. CASE ~ctx[r].fresh
          BY <2>2, <4>2 DEF BillEffect
        <4>3. QED
          BY <4>1, <4>2
      <3>2. OrderEffect(r)
        BY <2>2 DEF OrderEffect
      <3>3. SessionEffect
        BY <2>1, <2>2 DEF SessionEffect, TypeOK, FreshSessions
      <3>4. QED
        BY <3>1, <3>2, <3>3 DEF RowEffect
    <2>3. QED
      BY <1>2, <2>2, NoRowEffect DEF JoinSave, RollBack
  <1>3. CASE CloseSave(r)
    <2>1. ctx[r].bill \in Bill /\ bills[ctx[r].bill].state # "none"
      BY <1>3 DEF CloseSave, At, LocalsSet, LocalsOf, KindsAt
    <2>2. BillEffect(r)
      BY <1>3, <2>1, BillType DEF CloseSave, BillEffect, TypeOK, BillRow
    <2>3. OrderEffect(r)
      BY <1>3 DEF CloseSave, OrderEffect
    <2>4. SessionEffect
      BY <1>3 DEF CloseSave, SessionEffect, TypeOK, SessionRow, OpenSessions
    <2>5. QED
      BY <2>2, <2>3, <2>4 DEF RowEffect
  <1>4. CASE MoveSave(r)
    <2>1. ctx[r].bill \in Bill /\ ctx[r].second \in Table
      BY <1>4 DEF MoveSave, At, LocalsSet, LocalsOf, KindsAt
    <2>2. CASE bills[ctx[r].bill].state = "open" /\ OpenBills(ctx[r].second) \ {ctx[r].bill} # {}
      BY <1>4, <2>2, NoRowEffect DEF MoveSave, RollBack
    <2>3. CASE ~(bills[ctx[r].bill].state = "open" /\ OpenBills(ctx[r].second) \ {ctx[r].bill} # {})
      <3>1. /\ bills' = [bills EXCEPT ![ctx[r].bill].table = ctx[r].second]
            /\ orders' = [o \in Order |-> IF o \in ctx[r].orders
                            THEN [orders[o] EXCEPT !.table = ctx[r].second] ELSE orders[o]]
            /\ sessions' = Reseated(ctx[r].first, ctx[r].second)
        BY <1>4, <2>3 DEF MoveSave
      <3>2. pc[r] = "moveSave" /\ Blockers(r) = {}
        BY <1>4 DEF MoveSave, At
      <3>3. BillEffect(r)
        BY <2>1, <2>3, <3>1, <3>2 DEF BillEffect, Moves, TypeOK, BillRow
      <3>4. OrderEffect(r)
        BY <3>1 DEF OrderEffect, TypeOK, OrderRow
      <3>5. SessionEffect
        BY <2>1, <3>1 DEF SessionEffect, Reseated, TypeOK, SessionRow
      <3>6. QED
        BY <3>3, <3>4, <3>5 DEF RowEffect
    <2>4. QED
      BY <2>2, <2>3
  <1>5. CASE MergeCommit(r)
    <2>1. /\ ctx[r].bill \in Bill /\ ctx[r].into \in Bill /\ ctx[r].first \in Table
          /\ bills[ctx[r].bill].state # "none"
          /\ ctx[r].fresh \/ bills[ctx[r].into].state # "none"
          /\ \A o \in ctx[r].orders : orders[o].state # "none"
      BY <1>5 DEF MergeCommit, At, LocalsSet, LocalsOf, KindsAt
    <2>2. ~ctx[r].fresh
      BY <1>5 DEF MergeCommit, At, InsertsReserved, AfterInsert
    <2>3. \A b \in Bill : /\ bills'[b].table = bills[b].table
                          /\ b = ctx[r].bill => bills'[b].state = "closed"
                          /\ b # ctx[r].bill => bills'[b].state = bills[b].state
      <3> DEFINE due == Recalculated(ctx[r].bill, ctx[r].seen, Nothing)
      <3>1. bills' = [bills EXCEPT ![ctx[r].into] = IntoRow(r),
                                   ![ctx[r].bill].state = "closed",
                                   ![ctx[r].bill].subtotal = due]
        BY <1>5 DEF MergeCommit
      <3>2. /\ IntoRow(r) \in BillRow
            /\ IntoRow(r).state = bills[ctx[r].into].state
            /\ IntoRow(r).table = bills[ctx[r].into].table
        BY <2>1, <2>2, IntoRowType, IntoRowIs
      <3> HIDE DEF due
      <3>3. QED
        BY <2>1, <3>1, <3>2 DEF TypeOK, BillRow
    <2>4. BillEffect(r)
      BY <2>1, <2>3 DEF BillEffect
    <2>5. OrderEffect(r)
      <3>1. orders' = Rehomed(ctx[r].orders, ctx[r].into, ctx[r].first)
        BY <1>5 DEF MergeCommit
      <3>2. bills'[ctx[r].into].state # "none"
        BY <2>1, <2>2, <2>3
      <3>3. QED
        BY <2>1, <3>1, <3>2 DEF OrderEffect, Rehomed, TypeOK, OrderRow
    <2>6. SessionEffect
      BY <1>5, <2>1 DEF MergeCommit, SessionEffect, Reseated, TypeOK, SessionRow
    <2>7. QED
      BY <2>4, <2>5, <2>6 DEF RowEffect
  <1>6. CASE SplitCommit(r)
    <2>1. /\ ctx[r].bill \in Bill /\ ctx[r].into \in Bill
          /\ bills[ctx[r].bill].state # "none"
          /\ ctx[r].fresh \/ bills[ctx[r].into].state # "none"
          /\ \A o \in ctx[r].orders : orders[o].state # "none"
      BY <1>6 DEF SplitCommit, At, LocalsSet, LocalsOf, AfterInsert, KindsAt
    <2>2. Finish(r)
      BY <1>6 DEF SplitCommit
    <2>3. \A b \in Bill \ {ctx[r].into} : bills'[b].table = bills[b].table
                                          /\ bills'[b].state = bills[b].state
      BY <1>6, <2>1 DEF SplitCommit, TypeOK, BillRow
    <2>4. bills'[ctx[r].into] = IntoRow(r)
      BY <1>6, <2>1 DEF SplitCommit, TypeOK
    <2>5. BillEffect(r)
      BY <2>1, <2>2, <2>3, <2>4, IntoRowIs, FinishCtx DEF BillEffect, Inserts
    <2>6. OrderEffect(r)
      <3>1. PICK t : orders' = Rehomed(ctx[r].orders, ctx[r].into, t)
        BY <1>6 DEF SplitCommit
      <3>2. bills'[ctx[r].into].state # "none"
        BY <2>1, <2>4, IntoRowIs
      <3>3. QED
        BY <2>1, <3>1, <3>2 DEF OrderEffect, Rehomed, TypeOK, OrderRow
    <2>7. SessionEffect
      BY <1>6 DEF SplitCommit, SessionEffect
    <2>8. QED
      BY <2>5, <2>6, <2>7 DEF RowEffect
  <1>7. CASE StatusSave(r)
    <2>1. ctx[r].order \in Order /\ orders[ctx[r].order].state # "none"
      BY <1>7 DEF StatusSave, At, LocalsSet, LocalsOf, KindsAt
    <2>2. OrderEffect(r)
      BY <1>7, <2>1, CtxType DEF StatusSave, OrderEffect, TypeOK, OrderRow
    <2>3. QED
      BY <1>7, <2>2 DEF StatusSave, RowEffect, BillEffect, SessionEffect
  <1>8. CASE RecalcSave(r)
    <2>1. ctx[r].into \in Bill
      BY <1>8 DEF RecalcSave, At, LocalsSet, LocalsOf, KindsAt
    <2>2. BillEffect(r)
      BY <1>8, <2>1, IntoEffect DEF RecalcSave
    <2>3. QED
      BY <1>8, <2>2 DEF RecalcSave, RowEffect, OrderEffect, SessionEffect
  <1>9. QED
    BY <1>1, <1>2, <1>3, <1>4, <1>5, <1>6, <1>7, <1>8

\* Every step of a request has only the effects listed in RowEffect.
LEMMA StepEffect ==
  ASSUME TypeOK, LocalsSet, InsertsReserved, NEW r \in Request,
         Call(r) \/ Step(r) \/ Fail(r) \/ BreakDeadlock(r)
  PROVE  RowEffect(r)
  <1>1. CASE \/ OrderCommit(r) \/ JoinSave(r) \/ CloseSave(r) \/ MoveSave(r) \/ MergeCommit(r)
             \/ SplitCommit(r) \/ StatusSave(r) \/ RecalcSave(r)
    BY <1>1, WriteEffect
  <1>2. CASE \/ Call(r) \/ Fail(r) \/ BreakDeadlock(r)
             \/ AcquireFirst(r) \/ AcquireSecond(r) \/ GetOpenBill(r) \/ InsertBill(r)
             \/ OrderSave(r) \/ CloseReread(r) \/ MoveCheck(r) \/ MergeSave(r) \/ MergeSum(r)
             \/ SplitSave(r) \/ SplitSumFrom(r) \/ SplitSumInto(r)
             \/ RecalcRead(r) \/ RecalcSum(r)
    <2>1. UNCHANGED data
      BY <1>2 DEF Call, CreateOrder, CreateAdminOrder, VerifyTableToken, CloseBill, MoveBill,
         MergeBill, SplitBill, UpdateOrderStatus, Start, Fail, BreakDeadlock, RollBack,
         AcquireFirst, AcquireSecond, GetOpenBill, InsertBill, UseBill, OrderSave, CloseReread,
         MoveCheck, MergeSave, MergeSum, SplitSave, SplitSumFrom, SplitSumInto,
         RecalcRead, RecalcSum, Goto
    <2>2. QED
      BY <2>1, NoRowEffect
  <1>3. QED
    BY <1>1, <1>2 DEF Step

-----------------------------------------------------------------------------
(* What a step of request r does to the locals.                            *)

CtxEffect(r) ==
    /\ \A q \in Request \ {r} : ctx'[q] = ctx[q] /\ pc'[q] = pc[q]
    /\ \/ ctx'[r].into \in {ctx[r].into, None} \cup FreshBills
       \/ ctx'[r].into \in Bill /\ bills[ctx'[r].into].state # "none"
    /\ ctx'[r].fresh =>
          /\ UNCHANGED bills /\ pc'[r] \in AfterInsert /\ ctx'[r].at = ctx[r].at
          /\ \/ ctx[r].fresh /\ ctx'[r].into = ctx[r].into
             \/ /\ pc[r] = "insertBill" /\ Blockers(r) = {}
                /\ OpenBills(ctx[r].at) = {} /\ ctx'[r].into \in FreshBills

\* The locals of the request that takes the step, and those of the others.
StepLocals(r) == LocalsOf(r)' /\ CtxEffect(r)

\* A request that ended is idle with empty locals.
LEMMA FinishLocals ==
  ASSUME TypeOK, NEW r \in Request, Finish(r) PROVE StepLocals(r)
  <1>1. ctx'[r] = NoCtx /\ pc'[r] = "idle"
    BY DEF Finish, TypeOK
  <1>0. KindsAt("idle") = {None}
    BY DEF KindsAt
  <1>2. LocalsOf(r)'
    BY <1>0, <1>1, NoneAssumption DEF LocalsOf, NoCtx, AfterInsert, AllKinds
  <1>3. CtxEffect(r)
    BY <1>1 DEF CtxEffect, NoCtx, Finish, TypeOK
  <1>4. QED
    BY <1>2, <1>3 DEF StepLocals

\* A call sets the locals its handler uses later, to rows that exist.
LEMMA StartLocals ==
  ASSUME TypeOK, NEW r \in Request, NEW k, NEW c \in Ctx, NEW label,
         Start(r, k, c, label), k \in KindsAt(label), label \notin AfterInsert,
         ~c.fresh, c.into = None \/ (c.into \in Bill /\ bills[c.into].state # "none"),
         k \in {"order", "adminOrder", "join", "split"} => c.at \in Table,
         k \in {"close", "move", "merge", "split"} =>
            c.bill \in Bill /\ bills[c.bill].state # "none",
         k = "move" => c.second \in Table,
         k = "merge" => c.first \in Table,
         k \in {"merge", "status"} => c.into # None,
         k = "status" => c.order \in Order /\ orders[c.order].state # "none",
         label # "orderCommit",
         \A o \in c.orders : orders[o].state # "none"
  PROVE  StepLocals(r)
  <1>1. /\ pc'[r] = label /\ ctx'[r] = [c EXCEPT !.kind = k] /\ UNCHANGED data
        /\ \A q \in Request \ {r} : ctx'[q] = ctx[q] /\ pc'[q] = pc[q]
    BY DEF Start, TypeOK
  <1>2. /\ ctx'[r].kind = k /\ ctx'[r].first = c.first /\ ctx'[r].second = c.second
        /\ ctx'[r].at = c.at /\ ctx'[r].bill = c.bill /\ ctx'[r].into = c.into
        /\ ctx'[r].fresh = c.fresh /\ ctx'[r].orders = c.orders /\ ctx'[r].order = c.order
    BY <1>1 DEF Ctx
  <1>3. LocalsOf(r)'
    BY <1>1, <1>2 DEF LocalsOf, data
  <1>4. CtxEffect(r)
    BY <1>1, <1>2 DEF CtxEffect
  <1>5. QED
    BY <1>3, <1>4 DEF StepLocals

\* Each of the nine calls sets the locals its handler uses later.
LEMMA CallLocals ==
  ASSUME TypeOK, RowsRefer, NEW r \in Request, Call(r) PROVE StepLocals(r)
  <1> USE NothingType, NoCtxType DEF OptTable, OptBill, AfterInsert, KindsAt
  <1>1. ASSUME NEW s \in Session, CreateOrder(r, s) PROVE StepLocals(r)
    <2> DEFINE c == [NoCtx EXCEPT !.session = s, !.first = sessions[s].table,
                                  !.at = sessions[s].table]
    <2>1. sessions[s].table \in Table
      BY <1>1 DEF CreateOrder, RowsRefer
    <2>2. c \in Ctx /\ c.at \in Table /\ c.into = None /\ ~c.fresh /\ c.orders = {}
      BY <2>1 DEF Ctx, NoCtx
    <2>3. Start(r, "order", c, "lock1")
      BY <1>1 DEF CreateOrder
    <2> HIDE DEF c
    <2>4. QED
      BY <2>2, <2>3, StartLocals
  <1>2. ASSUME NEW t \in Table, CreateAdminOrder(r, t) PROVE StepLocals(r)
    <2> DEFINE c == [NoCtx EXCEPT !.first = t, !.at = t]
    <2>1. c \in Ctx /\ c.at \in Table /\ c.into = None /\ ~c.fresh /\ c.orders = {}
      BY DEF Ctx, NoCtx
    <2>2. Start(r, "adminOrder", c, "lock1")
      BY <1>2 DEF CreateAdminOrder
    <2> HIDE DEF c
    <2>3. QED
      BY <2>1, <2>2, StartLocals
  <1>3. ASSUME NEW t \in Table, VerifyTableToken(r, t) PROVE StepLocals(r)
    <2> DEFINE c == [NoCtx EXCEPT !.at = t]
    <2>1. c \in Ctx /\ c.at \in Table /\ c.into = None /\ ~c.fresh /\ c.orders = {}
      BY DEF Ctx, NoCtx
    <2>2. Start(r, "join", c, "getBill")
      BY <1>3 DEF VerifyTableToken
    <2> HIDE DEF c
    <2>3. QED
      BY <2>1, <2>2, StartLocals
  <1>4. ASSUME NEW b \in Bill, CloseBill(r, b) PROVE StepLocals(r)
    <2> DEFINE c == [NoCtx EXCEPT !.bill = b, !.first = bills[b].table]
    <2>1. c \in Ctx /\ c.bill = b /\ c.into = None /\ ~c.fresh /\ c.orders = {}
      BY BillType DEF Ctx, NoCtx
    <2>2. Start(r, "close", c, "lock1") /\ bills[b].state # "none"
      BY <1>4 DEF CloseBill
    <2> HIDE DEF c
    <2>3. QED
      BY <2>1, <2>2, StartLocals
  <1>5. ASSUME NEW b \in Bill, NEW t \in Table, MoveBill(r, b, t) PROVE StepLocals(r)
    <2> DEFINE c == [NoCtx EXCEPT !.bill = b, !.orders = OrdersOf(b),
                                  !.first = bills[b].table, !.second = t]
    <2>1. /\ c \in Ctx /\ c.bill = b /\ c.second = t /\ c.into = None /\ ~c.fresh
          /\ c.orders = OrdersOf(b)
      BY BillType DEF Ctx, NoCtx, OrdersOf
    <2>2. Start(r, "move", c, "moveCheck") /\ bills[b].state # "none"
      BY <1>5 DEF MoveBill
    <2>3. \A o \in OrdersOf(b) : orders[o].state # "none"
      BY DEF OrdersOf
    <2> HIDE DEF c
    <2>4. QED
      BY <2>1, <2>2, <2>3, StartLocals
  <1>6. ASSUME NEW dst \in Bill, NEW src \in Bill, MergeBill(r, dst, src) PROVE StepLocals(r)
    <2> DEFINE c == [NoCtx EXCEPT !.bill = src, !.into = dst, !.orders = OrdersOf(src),
                        !.first = bills[dst].table, !.second = bills[src].table,
                        !.seen = bills[src].subtotal, !.seenInto = bills[dst].subtotal]
    <2>1. /\ c \in Ctx /\ c.bill = src /\ c.into = dst /\ c.first = bills[dst].table /\ ~c.fresh
          /\ c.orders = OrdersOf(src)
      BY BillType DEF Ctx, NoCtx, OrdersOf
    <2>2. /\ Start(r, "merge", c, "lock1")
          /\ bills[src].state # "none" /\ bills[dst].state # "none"
      BY <1>6 DEF MergeBill
    <2>3. bills[dst].table \in Table /\ dst # None
      BY <2>2, NoneAssumption DEF RowsRefer
    <2>4. \A o \in OrdersOf(src) : orders[o].state # "none"
      BY DEF OrdersOf
    <2> HIDE DEF c
    <2>5. QED
      BY <2>1, <2>2, <2>3, <2>4, StartLocals
  <1>7. ASSUME NEW src \in Bill, NEW os \in SUBSET Order, NEW t \in Table,
               SplitBill(r, src, os, t)
        PROVE StepLocals(r)
    <2> DEFINE c == [NoCtx EXCEPT !.bill = src, !.orders = os,
                        !.first = bills[src].table, !.second = t, !.at = t,
                        !.seen = bills[src].subtotal]
    <2>1. c \in Ctx /\ c.bill = src /\ c.at = t /\ c.into = None /\ ~c.fresh /\ c.orders = os
      BY BillType DEF Ctx, NoCtx
    <2>2. Start(r, "split", c, "lock1") /\ bills[src].state # "none"
      BY <1>7 DEF SplitBill
    <2>3. \A o \in os : orders[o].state # "none"
      BY <1>7 DEF SplitBill, OrdersOf
    <2> HIDE DEF c
    <2>4. QED
      BY <2>1, <2>2, <2>3, StartLocals
  <1>8. ASSUME NEW o \in Order, NEW status \in {"live", "cancelled"},
               UpdateOrderStatus(r, o, status)
        PROVE StepLocals(r)
    <2> DEFINE c == [NoCtx EXCEPT !.order = o, !.status = status, !.into = orders[o].bill]
    <2>1. /\ c \in Ctx /\ c.order = o /\ c.into = orders[o].bill /\ ~c.fresh /\ c.orders = {}
      BY OrderType DEF Ctx, NoCtx
    <2>2. Start(r, "status", c, "statusSave") /\ orders[o].state # "none"
      BY <1>8 DEF UpdateOrderStatus
    <2>3. c.into \in Bill /\ c.into # None /\ bills[c.into].state # "none"
      BY <2>1, <2>2, NoneAssumption DEF RowsRefer
    <2> HIDE DEF c
    <2>4. QED
      BY <2>1, <2>2, <2>3, StartLocals
  <1>9. QED
    BY <1>1, <1>2, <1>3, <1>4, <1>5, <1>6, <1>7, <1>8 DEF Call

\* A statement that changes no row, keeps what LocalsOf speaks of and goes to a
\* label of the same handler.
LEMMA GotoLocals ==
  ASSUME TypeOK, LocalsSet, InsertsReserved, NEW r \in Request, NEW label,
         UNCHANGED <<bills, orders>>, pc' = [pc EXCEPT ![r] = label],
         \A q \in Request \ {r} : ctx'[q] = ctx[q],
         ctx'[r].kind = ctx[r].kind, ctx'[r].first = ctx[r].first,
         ctx'[r].second = ctx[r].second, ctx'[r].at = ctx[r].at \/ ctx[r].kind = "close",
         ctx'[r].bill = ctx[r].bill, ctx'[r].into = ctx[r].into, ctx'[r].fresh = ctx[r].fresh,
         ctx'[r].orders = ctx[r].orders, ctx'[r].order = ctx[r].order,
         ctx[r].kind \in KindsAt(label), label # "orderCommit",
         label \in AfterInsert <=> pc[r] \in AfterInsert
  PROVE  StepLocals(r)
  <1>1. pc'[r] = label /\ \A q \in Request \ {r} : pc'[q] = pc[q]
    BY DEF TypeOK
  <1>2. LocalsOf(r)
    BY DEF LocalsSet
  <1>3. LocalsOf(r)'
    BY <1>1, <1>2 DEF LocalsOf
  <1>4. ctx[r].fresh => pc[r] \in AfterInsert /\ ctx[r].kind # "close"
    BY <1>2 DEF InsertsReserved, LocalsOf, AfterInsert, KindsAt
  <1>5. CtxEffect(r)
    BY <1>1, <1>4 DEF CtxEffect
  <1>6. QED
    BY <1>3, <1>5 DEF StepLocals

\* Waiting for the advisory locks loses no local.
LEMMA AcquireLocals ==
  ASSUME TypeOK, LocalsSet, InsertsReserved, NEW r \in Request, AcquireFirst(r) \/ AcquireSecond(r)
  PROVE  StepLocals(r)
  <1>1. pc[r] \in {"lock1", "lock2"} /\ UNCHANGED <<bills, orders>> /\ ctx' = ctx
    BY DEF AcquireFirst, AcquireSecond, At, data
  <1>2. PICK label : /\ pc' = [pc EXCEPT ![r] = label]
                     /\ label = AfterLocks(ctx[r].kind) \/ label = "lock2"
    BY DEF AcquireFirst, AcquireSecond
  <1>3. ctx[r].kind \in KindsAt("lock1")
    BY <1>1 DEF LocalsSet, LocalsOf, KindsAt
  <1>4. /\ ctx[r].kind \in KindsAt(label)
        /\ label # "orderCommit" /\ label \notin AfterInsert /\ pc[r] \notin AfterInsert
    BY <1>1, <1>2, <1>3 DEF KindsAt, AfterLocks, AfterInsert
  <1>5. QED
    BY <1>1, <1>2, <1>4, GotoLocals

\* The reads between the locks and the commit keep the locals meaningful.
LEMMA ReadLocals ==
  ASSUME TypeOK, LocalsSet, InsertsReserved, NEW r \in Request,
         \/ CloseReread(r) \/ MoveCheck(r)
         \/ MergeSave(r) \/ MergeSum(r)
         \/ SplitSave(r) \/ SplitSumFrom(r) \/ SplitSumInto(r)
         \/ StatusSave(r) \/ RecalcRead(r) \/ RecalcSum(r)
  PROVE  StepLocals(r)
  <1>0. CASE RollBack(r)
    BY <1>0, FinishLocals DEF RollBack
  <1>k. ctx[r].kind \in KindsAt(pc[r])
    BY DEF LocalsSet, LocalsOf
  <1>1. CASE CloseReread(r) /\ ~RollBack(r)
    <2>1. /\ pc[r] = "closeRead" /\ pc' = [pc EXCEPT ![r] = "closeSave"]
          /\ UNCHANGED <<bills, orders>>
          /\ ctx' = [ctx EXCEPT ![r].at = bills[ctx[r].bill].table]
      BY <1>1 DEF CloseReread, At, Goto, data
    <2>2. ctx[r].kind = "close"
      BY <1>k, <2>1 DEF KindsAt
    <2>3. QED
      BY <2>1, <2>2, GotoLocals DEF TypeOK, Ctx, KindsAt, AfterInsert
  <1>2. CASE MoveCheck(r) /\ ~RollBack(r)
    <2>1. /\ pc[r] = "moveCheck" /\ pc' = [pc EXCEPT ![r] = "lock1"]
          /\ UNCHANGED <<bills, orders, ctx>>
      BY <1>2 DEF MoveCheck, At, Goto, data
    <2>2. QED
      BY <1>k, <2>1, GotoLocals DEF KindsAt, AfterInsert
  <1>3. CASE MergeSave(r)
    <2>1. /\ pc[r] = "mergeSave" /\ pc' = [pc EXCEPT ![r] = "mergeSum"]
          /\ UNCHANGED <<bills, orders, ctx>>
      BY <1>3 DEF MergeSave, At, Goto, data
    <2>2. QED
      BY <1>k, <2>1, GotoLocals DEF KindsAt, AfterInsert
  <1>4. CASE MergeSum(r)
    <2>1. PICK x : /\ pc[r] = "mergeSum" /\ pc' = [pc EXCEPT ![r] = "mergeCommit"]
                   /\ UNCHANGED <<bills, orders>>
                   /\ ctx' = [ctx EXCEPT ![r].sumInto = x]
      BY <1>4 DEF MergeSum, At, Goto, data
    <2>2. QED
      BY <1>k, <2>1, GotoLocals DEF TypeOK, Ctx, KindsAt, AfterInsert
  <1>5. CASE SplitSave(r)
    <2>1. /\ pc[r] = "splitSave" /\ pc' = [pc EXCEPT ![r] = "splitSumFrom"]
          /\ UNCHANGED <<bills, orders, ctx>>
      BY <1>5 DEF SplitSave, At, Goto, data
    <2>2. QED
      BY <1>k, <2>1, GotoLocals DEF KindsAt, AfterInsert
  <1>6. CASE SplitSumFrom(r)
    <2>1. PICK x : /\ pc[r] = "splitSumFrom" /\ pc' = [pc EXCEPT ![r] = "splitSumInto"]
                   /\ UNCHANGED <<bills, orders>>
                   /\ ctx' = [ctx EXCEPT ![r].sum = x]
      BY <1>6 DEF SplitSumFrom, At, Goto, data
    <2>2. QED
      BY <1>k, <2>1, GotoLocals DEF TypeOK, Ctx, KindsAt, AfterInsert
  <1>7. CASE SplitSumInto(r)
    <2>1. PICK x : /\ pc[r] = "splitSumInto" /\ pc' = [pc EXCEPT ![r] = "splitCommit"]
                   /\ UNCHANGED <<bills, orders>>
                   /\ ctx' = [ctx EXCEPT ![r].sumInto = x]
      BY <1>7 DEF SplitSumInto, At, Goto, data
    <2>2. QED
      BY <1>k, <2>1, GotoLocals DEF TypeOK, Ctx, KindsAt, AfterInsert
  <1>8. CASE StatusSave(r)
    <2>1. /\ pc[r] = "statusSave" /\ pc' = [pc EXCEPT ![r] = "recalcRead"]
          /\ UNCHANGED <<bills, ctx>>
      BY <1>8 DEF StatusSave, At
    <2>2. LocalsOf(r) /\ ctx[r].kind = "status" /\ ~ctx[r].fresh
      BY <1>k, <2>1 DEF LocalsSet, KindsAt, InsertsReserved, AfterInsert
    <2>3. \A o \in Order : orders[o].state # "none" => orders'[o].state # "none"
      BY <1>8, <2>2, CtxType DEF StatusSave, TypeOK, OrderRow, LocalsOf
    <2>4. pc'[r] = "recalcRead" /\ \A q \in Request \ {r} : pc'[q] = pc[q]
      BY <2>1 DEF TypeOK
    <2>5. LocalsOf(r)'
      BY <2>1, <2>2, <2>3, <2>4, CtxType DEF LocalsOf, KindsAt, AfterInsert
    <2>6. CtxEffect(r)
      BY <2>1, <2>2, <2>4 DEF CtxEffect
    <2>7. QED
      BY <2>5, <2>6 DEF StepLocals
  <1>9. CASE RecalcRead(r)
    <2>1. PICK x : /\ pc[r] = "recalcRead" /\ pc' = [pc EXCEPT ![r] = "recalcSum"]
                   /\ UNCHANGED <<bills, orders>>
                   /\ ctx' = [ctx EXCEPT ![r].seenInto = x]
      BY <1>9 DEF RecalcRead, At, Goto, data
    <2>2. QED
      BY <1>k, <2>1, GotoLocals DEF TypeOK, Ctx, KindsAt, AfterInsert
  <1>10. CASE RecalcSum(r)
    <2>1. PICK x : /\ pc[r] = "recalcSum" /\ pc' = [pc EXCEPT ![r] = "recalcSave"]
                   /\ UNCHANGED <<bills, orders>>
                   /\ ctx' = [ctx EXCEPT ![r].sumInto = x]
      BY <1>10 DEF RecalcSum, At, Goto, data
    <2>2. QED
      BY <1>k, <2>1, GotoLocals DEF TypeOK, Ctx, KindsAt, AfterInsert
  <1>11. QED
    BY <1>0, <1>1, <1>2, <1>3, <1>4, <1>5, <1>6, <1>7, <1>8, <1>9, <1>10

\* GetOrCreateOpenBillAsync has found or inserted a bill.
LEMMA BillLocals ==
  ASSUME TypeOK, LocalsSet, InsertsReserved, NEW r \in Request, NEW b \in Bill,
         pc[r] \in {"getBill", "insertBill"},
         UNCHANGED <<bills, orders>>, pc' = [pc EXCEPT ![r] = AfterBill(ctx[r].kind)],
         \A q \in Request \ {r} : ctx'[q] = ctx[q],
         ctx'[r].kind = ctx[r].kind, ctx'[r].first = ctx[r].first,
         ctx'[r].second = ctx[r].second, ctx'[r].at = ctx[r].at,
         ctx'[r].bill = ctx[r].bill, ctx'[r].into = b,
         ctx'[r].orders = ctx[r].orders, ctx'[r].order = ctx[r].order,
         \/ ~ctx'[r].fresh /\ bills[b].state # "none"
         \/ /\ pc[r] = "insertBill" /\ Blockers(r) = {}
            /\ OpenBills(ctx[r].at) = {} /\ b \in FreshBills /\ ctx'[r].fresh
  PROVE  StepLocals(r)
  <1>1. LocalsOf(r) /\ ctx[r].kind \in {"order", "adminOrder", "join", "split"}
    BY DEF LocalsSet, LocalsOf, KindsAt
  <1>2. /\ pc'[r] = AfterBill(ctx[r].kind)
        /\ \A q \in Request \ {r} : pc'[q] = pc[q]
    BY DEF TypeOK
  <1>3. /\ pc'[r] \in AfterInsert /\ pc'[r] # "orderCommit"
        /\ ctx[r].kind \in KindsAt(pc'[r])
    BY <1>1, <1>2 DEF AfterBill, AfterInsert, KindsAt
  <1>4. LocalsOf(r)'
    BY <1>1, <1>3 DEF LocalsOf
  <1>5. CtxEffect(r)
    BY <1>2, <1>3 DEF CtxEffect
  <1>6. QED
    BY <1>4, <1>5 DEF StepLocals

\* The open bill that was found is a bill that exists.
LEMMA UseBillLocals ==
  ASSUME TypeOK, LocalsSet, InsertsReserved, NEW r \in Request, NEW b \in OpenBills(ctx[r].at),
         UseBill(r, b), pc[r] \in {"getBill", "insertBill"}
  PROVE  StepLocals(r)
  <1>1. b \in Bill /\ bills[b].state # "none"
    BY DEF OpenBills
  <1>2. PICK x : ctx' = [ctx EXCEPT ![r].into = b, ![r].seenInto = x]
    BY DEF UseBill
  <1>3. pc' = [pc EXCEPT ![r] = AfterBill(ctx[r].kind)] /\ UNCHANGED <<bills, orders>>
    BY DEF UseBill, Goto, data
  <1>4. ~ctx[r].fresh
    BY DEF InsertsReserved, AfterInsert
  <1>5. /\ \A q \in Request \ {r} : ctx'[q] = ctx[q]
        /\ ctx'[r].kind = ctx[r].kind /\ ctx'[r].first = ctx[r].first
        /\ ctx'[r].second = ctx[r].second /\ ctx'[r].at = ctx[r].at
        /\ ctx'[r].bill = ctx[r].bill /\ ctx'[r].into = b /\ ctx'[r].fresh = ctx[r].fresh
        /\ ctx'[r].orders = ctx[r].orders /\ ctx'[r].order = ctx[r].order
    BY <1>2 DEF TypeOK, Ctx
  <1>6. QED
    BY <1>1, <1>3, <1>4, <1>5, BillLocals

\* After GetOrCreateOpenBillAsync the request has a bill: one that exists,
\* or one it inserted under an id and an index entry of its own.
LEMMA FetchLocals ==
  ASSUME TypeOK, LocalsSet, InsertsReserved, NEW r \in Request, GetOpenBill(r) \/ InsertBill(r)
  PROVE  StepLocals(r)
  <1>1. CASE GetOpenBill(r) /\ OpenBills(ctx[r].at) # {}
    BY <1>1, UseBillLocals DEF GetOpenBill, At
  <1>2. CASE GetOpenBill(r) /\ OpenBills(ctx[r].at) = {}
    <2>1. /\ pc[r] = "getBill" /\ pc' = [pc EXCEPT ![r] = "insertBill"]
          /\ UNCHANGED <<bills, orders, ctx>>
      BY <1>2 DEF GetOpenBill, At, Goto, data
    <2>2. ctx[r].kind \in KindsAt("insertBill")
      BY <2>1 DEF LocalsSet, LocalsOf, KindsAt
    <2>3. QED
      BY <2>1, <2>2, GotoLocals DEF AfterInsert
  <1>3. CASE InsertBill(r)
    <2>1. pc[r] = "insertBill" /\ Blockers(r) = {}
      BY <1>3 DEF InsertBill, At
    <2>2. ASSUME NEW b \in FreshBills, OpenBills(ctx[r].at) = {},
                 ctx' = [ctx EXCEPT ![r].into = b, ![r].fresh = TRUE],
                 Goto(r, AfterBill(ctx[r].kind))
          PROVE StepLocals(r)
      <3>1. b \in Bill
        BY DEF FreshBills
      <3>2. /\ pc' = [pc EXCEPT ![r] = AfterBill(ctx[r].kind)]
            /\ UNCHANGED <<bills, orders>>
        BY <2>2 DEF Goto, data
      <3>3. /\ \A q \in Request \ {r} : ctx'[q] = ctx[q]
            /\ ctx'[r].kind = ctx[r].kind /\ ctx'[r].first = ctx[r].first
            /\ ctx'[r].second = ctx[r].second /\ ctx'[r].at = ctx[r].at
            /\ ctx'[r].bill = ctx[r].bill /\ ctx'[r].into = b /\ ctx'[r].fresh
            /\ ctx'[r].orders = ctx[r].orders /\ ctx'[r].order = ctx[r].order
        BY <2>2 DEF TypeOK, Ctx
      <3>4. QED
        BY <2>1, <2>2, <3>1, <3>2, <3>3, BillLocals
    <2>3. ASSUME NEW b \in OpenBills(ctx[r].at), UseBill(r, b) PROVE StepLocals(r)
      BY <2>1, <2>3, UseBillLocals
    <2>4. CASE RollBack(r)
      BY <2>4, FinishLocals DEF RollBack
    <2>5. QED
      BY <1>3, <2>2, <2>3, <2>4 DEF InsertBill
  <1>4. QED
    BY <1>1, <1>2, <1>3

\* The order that is about to be committed has an id.
LEMMA OrderSaveLocals ==
  ASSUME TypeOK, LocalsSet, InsertsReserved, NEW r \in Request, OrderSave(r)
  PROVE  StepLocals(r)
  <1>1. ASSUME NEW o \in FreshOrders, NEW x,
               ctx' = [ctx EXCEPT ![r].order = o, ![r].sumInto = x], Goto(r, "orderCommit")
        PROVE StepLocals(r)
    <2>1. pc[r] = "orderSave" /\ o \in Order
      BY DEF OrderSave, At, FreshOrders
    <2>2. LocalsOf(r) /\ ctx[r].kind \in {"order", "adminOrder"}
      BY <2>1 DEF LocalsSet, LocalsOf, KindsAt
    <2>3. /\ pc'[r] = "orderCommit" /\ UNCHANGED <<bills, orders>>
          /\ \A q \in Request \ {r} : pc'[q] = pc[q]
      BY <1>1 DEF Goto, data, TypeOK
    <2>4. /\ \A q \in Request \ {r} : ctx'[q] = ctx[q]
          /\ ctx'[r].kind = ctx[r].kind /\ ctx'[r].first = ctx[r].first
          /\ ctx'[r].second = ctx[r].second /\ ctx'[r].at = ctx[r].at
          /\ ctx'[r].bill = ctx[r].bill /\ ctx'[r].into = ctx[r].into
          /\ ctx'[r].fresh = ctx[r].fresh
          /\ ctx'[r].orders = ctx[r].orders /\ ctx'[r].order = o
      BY <1>1 DEF TypeOK, Ctx
    <2>5. LocalsOf(r)'
      BY <2>1, <2>2, <2>3, <2>4 DEF LocalsOf, KindsAt, AfterInsert
    <2>6. CtxEffect(r)
      BY <2>1, <2>3, <2>4 DEF CtxEffect, AfterInsert
    <2>7. QED
      BY <2>5, <2>6 DEF StepLocals
  <1>2. QED
    BY <1>1, FinishLocals DEF OrderSave, RollBack

\* Every step of a request keeps its locals meaningful and disturbs no other's.
LEMMA LocalsStep ==
  ASSUME TypeOK, RowsRefer, LocalsSet, InsertsReserved, NEW r \in Request,
         Call(r) \/ Step(r) \/ Fail(r) \/ BreakDeadlock(r)
  PROVE  StepLocals(r)
  <1>1. CASE \/ OrderCommit(r) \/ JoinSave(r) \/ CloseSave(r) \/ MoveSave(r) \/ MergeCommit(r)
             \/ SplitCommit(r) \/ RecalcSave(r) \/ Fail(r) \/ BreakDeadlock(r)
    <2>1. Finish(r)
      BY <1>1 DEF OrderCommit, JoinSave, CloseSave, MoveSave, MergeCommit, SplitCommit,
                  RecalcSave, Fail, BreakDeadlock, RollBack
    <2>2. QED
      BY <2>1, FinishLocals
  <1>2. QED
    BY <1>1, CallLocals, AcquireLocals, FetchLocals, OrderSaveLocals, ReadLocals DEF Step

-----------------------------------------------------------------------------
(* The inductive invariant is kept.                                        *)

IInv == TypeOK /\ RowsRefer /\ LocalsSet /\ InsertsReserved /\ OneOpenBillPerTable

\* Neither an insert nor a move puts a second open bill at a table, because the
\* unique index makes them wait for each other.
LEMMA ReservedStep ==
  ASSUME IInv, NEW r \in Request, TypeOK', RowEffect(r), StepLocals(r)
  PROVE  InsertsReserved' /\ OneOpenBillPerTable'
  <1> USE DEF IInv, StepLocals, CtxEffect, RowEffect
  <1>1. ASSUME NEW q \in Request \ {r}, ctx[q].fresh
        PROVE  /\ bills'[ctx[q].into].state = "none"
               /\ \A b \in Bill : bills'[b].state = "open" => bills'[b].table # ctx[q].at
    <2>1. /\ pc[q] \in AfterInsert /\ ctx[q].into \in Bill
          /\ bills[ctx[q].into].state = "none"
          /\ OpenBills(ctx[q].at) = {} /\ ctx[r].into # ctx[q].into
          /\ ctx[r].fresh => ctx[r].at # ctx[q].at
      BY <1>1 DEF InsertsReserved, LocalsSet, LocalsOf
    <2>2. \A b \in Bill : Moves(r, b) /\ bills[b].state = "open" => ctx[r].second # ctx[q].at
      <3>1. SUFFICES ASSUME NEW b \in Bill, Moves(r, b), bills[b].state = "open"
                     PROVE  ctx[r].second # ctx[q].at
        OBVIOUS
      <3>2. NeededSlots(r) = {ctx[r].second}
        BY <3>1 DEF Moves, NeededSlots
      <3>3. ctx[q].at \in HeldSlots(q)
        BY <1>1 DEF HeldSlots
      <3>4. NeededSlots(r) \cap HeldSlots(q) = {}
        BY <3>1 DEF Moves, Blockers
      <3>5. QED
        BY <3>2, <3>3, <3>4
    <2>3. bills'[ctx[q].into].state = "none"
      <3>1. ~Inserts(r, ctx[q].into)
        BY <2>1 DEF Inserts
      <3>2. Moves(r, ctx[q].into) => bills'[ctx[q].into].state = bills[ctx[q].into].state
        BY DEF Moves
      <3>3. QED
        BY <2>1, <3>1, <3>2 DEF BillEffect
    <2>4. ASSUME NEW b \in Bill, bills'[b].state = "open" PROVE bills'[b].table # ctx[q].at
      <3>1. CASE Inserts(r, b)
        BY <2>1, <3>1 DEF Inserts
      <3>2. CASE Moves(r, b)
        BY <2>2, <2>4, <3>2 DEF Moves
      <3>3. CASE bills'[b].state = bills[b].state /\ bills'[b].table = bills[b].table
        BY <2>1, <2>4, <3>3 DEF OpenBills
      <3>4. QED
        BY <2>4, <3>1, <3>2, <3>3 DEF BillEffect
    <2>5. QED
      BY <2>3, <2>4
  <1>2. ASSUME NEW q \in Request \ {r}, ctx[q].fresh
        PROVE  ctx'[r].into # ctx[q].into /\ (ctx'[r].fresh => ctx'[r].at # ctx[q].at)
    <2>1. /\ ctx[q].into \in Bill /\ bills[ctx[q].into].state = "none"
          /\ ctx[r].into # ctx[q].into
          /\ ctx[r].fresh => ctx[r].at # ctx[q].at
      BY <1>2 DEF InsertsReserved, LocalsSet, LocalsOf
    <2>2. ctx'[r].into # ctx[q].into
      BY <2>1, NoneAssumption DEF FreshBills
    <2>3. ASSUME pc[r] = "insertBill", Blockers(r) = {} PROVE ctx[r].at # ctx[q].at
      <3>1. ctx[q].at \in HeldSlots(q) /\ NeededSlots(r) = {ctx[r].at}
        BY <1>2, <2>3 DEF HeldSlots, NeededSlots
      <3>2. NeededSlots(r) \cap HeldSlots(q) = {}
        BY <2>3 DEF Blockers
      <3>3. QED
        BY <3>1, <3>2
    <2>4. QED
      BY <2>1, <2>2, <2>3
  <1>3. ASSUME ctx'[r].fresh
        PROVE  /\ pc'[r] \in AfterInsert /\ bills'[ctx'[r].into].state = "none"
               /\ \A b \in Bill : bills'[b].state = "open" => bills'[b].table # ctx'[r].at
               /\ \A q \in Request \ {r} : ctx'[q].into # ctx'[r].into
                                           /\ (ctx'[q].fresh => ctx'[q].at # ctx'[r].at)
    <2>1. UNCHANGED bills /\ pc'[r] \in AfterInsert /\ ctx'[r].at = ctx[r].at
      BY <1>3
    <2>2. bills[ctx'[r].into].state = "none" /\ OpenBills(ctx[r].at) = {}
      <3>1. CASE ctx[r].fresh
        BY <1>3, <3>1 DEF InsertsReserved, FreshBills
      <3>2. CASE ~ctx[r].fresh
        BY <1>3, <3>2 DEF FreshBills
      <3>3. QED
        BY <3>1, <3>2
    <2>3. \A b \in Bill : bills'[b].state = "open" => bills'[b].table # ctx'[r].at
      BY <2>1, <2>2 DEF OpenBills
    <2>4. ASSUME NEW q \in Request \ {r} PROVE ctx[q].into # ctx'[r].into
      BY <1>3 DEF InsertsReserved, FreshBills
    <2>5. ASSUME NEW q \in Request \ {r}
          PROVE  /\ ctx'[q].into # ctx'[r].into
                 /\ ctx'[q].fresh => ctx'[q].at # ctx'[r].at
      <3>1. ctx'[q] = ctx[q]
        OBVIOUS
      <3>2. QED
        BY <1>2, <1>3, <2>4, <3>1
    <2>6. QED
      BY <2>1, <2>2, <2>3, <2>5
  <1>4. InsertsReserved'
    <2>1. SUFFICES ASSUME NEW q \in Request, ctx'[q].fresh
                   PROVE  /\ pc'[q] \in AfterInsert
                          /\ bills'[ctx'[q].into].state = "none"
                          /\ \A b \in Bill : bills'[b].state = "open"
                                                => bills'[b].table # ctx'[q].at
                          /\ \A p \in Request \ {q} :
                                /\ ctx'[p].into # ctx'[q].into
                                /\ ctx'[p].fresh => ctx'[p].at # ctx'[q].at
      BY DEF InsertsReserved, OpenBills
    <2>2. CASE q = r
      BY <1>3, <2>1, <2>2
    <2>3. CASE q # r
      <3>1. ctx'[q] = ctx[q] /\ pc'[q] = pc[q] /\ ctx[q].fresh
        BY <2>1, <2>3
      <3>2. /\ bills'[ctx'[q].into].state = "none"
            /\ \A b \in Bill : bills'[b].state = "open" => bills'[b].table # ctx'[q].at
        BY <1>1, <2>3, <3>1
      <3>3. ASSUME NEW p \in Request \ {q}
            PROVE  ctx'[p].into # ctx'[q].into /\ (ctx'[p].fresh => ctx'[p].at # ctx'[q].at)
        BY <1>2, <2>3, <3>1 DEF InsertsReserved
      <3>4. QED
        BY <3>1, <3>2, <3>3 DEF InsertsReserved
    <2>4. QED
      BY <2>2, <2>3
  <1>5. OneOpenBillPerTable'
    <2>1. ASSUME NEW b \in Bill, NEW c \in Bill, b # c, bills'[b].state = "open",
                 bills'[c].state = "open", bills'[b].table = bills'[c].table,
                 Inserts(r, b) \/ Moves(r, b)
          PROVE  FALSE
      <3>1. /\ ~Inserts(r, c) /\ ~Moves(r, c)
            /\ bills[c].state = "open" /\ bills'[c].table = bills[c].table
        <4>1. ~(Inserts(r, b) /\ Moves(r, c)) /\ ~(Moves(r, b) /\ Inserts(r, c))
          BY DEF Inserts, Moves, InsertsReserved, AfterInsert
        <4>2. ~Inserts(r, c) /\ ~Moves(r, c)
          BY <2>1, <4>1 DEF Inserts, Moves
        <4>3. QED
          BY <2>1, <4>2 DEF BillEffect
      <3>2. CASE Inserts(r, b)
        BY <2>1, <3>1, <3>2 DEF Inserts, InsertsReserved, OpenBills
      <3>3. CASE Moves(r, b)
        BY <2>1, <3>1, <3>3 DEF Moves, OpenBills
      <3>4. QED
        BY <2>1, <3>2, <3>3
    <2>2. SUFFICES ASSUME NEW b \in Bill, NEW c \in Bill, b # c, bills'[b].state = "open",
                          bills'[c].state = "open", bills'[b].table = bills'[c].table
                   PROVE  FALSE
      BY DEF OneOpenBillPerTable
    <2>3. CASE Inserts(r, b) \/ Moves(r, b)
      BY <2>1, <2>2, <2>3
    <2>4. CASE Inserts(r, c) \/ Moves(r, c)
      BY <2>1, <2>2, <2>4
    <2>5. CASE ~(Inserts(r, b) \/ Moves(r, b) \/ Inserts(r, c) \/ Moves(r, c))
      BY <2>2, <2>5 DEF BillEffect, OneOpenBillPerTable
    <2>6. QED
      BY <2>3, <2>4, <2>5
  <1>6. QED
    BY <1>4, <1>5

\* No row and no local is left referring to a row that does not exist.
LEMMA ReferStep ==
  ASSUME IInv, NEW r \in Request, TypeOK', RowEffect(r), StepLocals(r)
  PROVE  RowsRefer' /\ LocalsSet'
  <1> USE DEF IInv, StepLocals, CtxEffect, RowEffect
  <1>1. \A b \in Bill : bills[b].state # "none" => bills'[b].state # "none"
    BY DEF BillEffect, Inserts, Moves
  <1>2. ASSUME NEW b \in Bill, bills'[b].state # "none" PROVE bills'[b].table \in Table
    <2>1. CASE Inserts(r, b)
      <3>1. ctx[r].at \in Table
        BY <2>1 DEF Inserts, InsertsReserved, LocalsSet, LocalsOf, KindsAt, AfterInsert
      <3>2. QED
        BY <2>1, <3>1 DEF Inserts
    <2>2. CASE Moves(r, b)
      <3>1. ctx[r].second \in Table
        BY <2>2 DEF Moves, LocalsSet, LocalsOf, KindsAt
      <3>2. QED
        BY <2>2, <3>1 DEF Moves
    <2>3. CASE ~Inserts(r, b) /\ ~Moves(r, b)
      BY <1>2, <2>3 DEF BillEffect, RowsRefer
    <2>4. QED
      BY <2>1, <2>2, <2>3
  <1>3. RowsRefer'
    BY <1>1, <1>2 DEF RowsRefer, OrderEffect, SessionEffect
  <1>4. ASSUME NEW q \in Request PROVE LocalsOf(q)'
    <2>1. CASE q = r
      BY <2>1
    <2>2. CASE q # r
      <3>1. ctx'[q] = ctx[q] /\ pc'[q] = pc[q] /\ LocalsOf(q)
        BY <2>2 DEF LocalsSet
      <3>2. \A o \in Order : orders[o].state # "none" => orders'[o].state # "none"
        BY DEF OrderEffect
      <3>3. QED
        BY <1>1, <3>1, <3>2, CtxType DEF LocalsOf
    <2>3. QED
      BY <2>1, <2>2
  <1>5. QED
    BY <1>3, <1>4 DEF LocalsSet

\* The empty database satisfies the inductive invariant.
LEMMA InitInv == Init => IInv
  <1> SUFFICES ASSUME Init PROVE IInv
    OBVIOUS
  <1>1. TypeOK
    BY NothingType, NoCtxType DEF Init, TypeOK, BillRow, OrderRow, SessionRow, NoBill, NoOrder,
       NoSession, OptTable, OptBill, Labels
  <1>2. RowsRefer /\ InsertsReserved /\ OneOpenBillPerTable
    BY DEF Init, RowsRefer, InsertsReserved, OneOpenBillPerTable, NoBill, NoOrder, NoSession, NoCtx
  <1>3. LocalsSet
    <2>1. KindsAt("idle") = {None}
      BY DEF KindsAt
    <2>2. QED
      BY <2>1, NoneAssumption DEF Init, LocalsSet, LocalsOf, NoCtx, AfterInsert, AllKinds
  <1>4. QED
    BY <1>1, <1>2, <1>3 DEF IInv

\* Every step of the API preserves the inductive invariant.
LEMMA NextInv == IInv /\ [Next]_vars => IInv'
  <1> SUFFICES ASSUME IInv, [Next]_vars PROVE IInv'
    OBVIOUS
  <1>1. TypeOK'
    BY TypeStep DEF IInv
  <1>2. ASSUME NEW r \in Request, Call(r) \/ Step(r) \/ Fail(r) \/ BreakDeadlock(r) PROVE IInv'
    <2>1. RowEffect(r) /\ StepLocals(r)
      BY <1>2, StepEffect, LocalsStep DEF IInv
    <2>2. QED
      BY <1>1, <2>1, ReservedStep, ReferStep DEF IInv
  <1>3. ASSUME NEW s \in Session, LogoutCustomerSession(s) PROVE IInv'
    <2>1. /\ UNCHANGED <<bills, orders, lock, pc, ctx>>
          /\ sessions[s].state = "open"
          /\ sessions' = [sessions EXCEPT ![s].state = "closed"]
      BY <1>3 DEF LogoutCustomerSession
    <2>2. RowsRefer'
      BY <2>1 DEF IInv, RowsRefer, TypeOK, SessionRow
    <2>3. LocalsSet' /\ InsertsReserved' /\ OneOpenBillPerTable'
      BY <2>1 DEF IInv, LocalsSet, LocalsOf, InsertsReserved, OneOpenBillPerTable, OpenBills
    <2>4. QED
      BY <1>1, <2>2, <2>3 DEF IInv
  <1>4. CASE UNCHANGED vars
    BY <1>1, <1>4 DEF IInv, vars, data, RowsRefer, LocalsSet, LocalsOf, InsertsReserved,
       OneOpenBillPerTable, OpenBills
  <1>5. QED
    BY <1>2, <1>3, <1>4 DEF Next

-----------------------------------------------------------------------------
(* Theorems.                                                               *)

\* The inductive invariant holds in every reachable state: rows and locals
\* refer to rows that exist, an uncommitted bill has its id and its table's
\* index entry to itself, and no table has two open bills.
THEOREM Invariance == Spec => []IInv
  BY InitInv, NextInv, PTL DEF Spec

\* Every row and every local keeps its type, whatever the handlers interleave.
THEOREM TypeCorrect == Spec => []TypeOK
  BY Invariance, PTL DEF IInv

\* No interleaving of the handlers opens two bills at one table.
THEOREM OneBill == Spec => []OneOpenBillPerTable
  BY Invariance, PTL DEF IInv

\* No handler reopens a bill or a session that another one closed.
THEOREM ClosedStays == Spec => ClosedIsFinal
  <1>1. ASSUME IInv, [Next]_vars
        PROVE  /\ \A b \in Bill : bills[b].state = "closed" => bills'[b].state = "closed"
               /\ \A s \in Session : sessions[s].state = "closed" => sessions'[s].state = "closed"
    <2>1. ASSUME NEW r \in Request, RowEffect(r)
          PROVE  /\ \A b \in Bill : bills[b].state = "closed" => bills'[b].state = "closed"
                 /\ \A s \in Session : sessions[s].state = "closed" => sessions'[s].state = "closed"
      BY <1>1, <2>1 DEF IInv, InsertsReserved, RowEffect, BillEffect, SessionEffect, Inserts, Moves
    <2>2. ASSUME NEW s \in Session, LogoutCustomerSession(s)
          PROVE  /\ UNCHANGED bills
                 /\ \A t \in Session : sessions[t].state = "closed" => sessions'[t].state = "closed"
      BY <1>1, <2>2 DEF LogoutCustomerSession, IInv, TypeOK, SessionRow
    <2>3. CASE UNCHANGED vars
      BY <2>3 DEF vars, data
    <2>4. QED
      BY <1>1, <2>1, <2>2, <2>3, StepEffect DEF Next, IInv
  <1>2. QED
    BY <1>1, Invariance, PTL DEF Spec, ClosedIsFinal


-----------------------------------------------------------------------------
(***************************************************************************)
(* That the handlers of FloorBills implement BillLedger, for any number of *)
(* tables, bills, orders, sessions and requests, as long as the handlers   *)
(* that act on rows they read without the advisory lock (move, merge,      *)
(* split and the status of an order) run alone; and what follows from it.  *)
(***************************************************************************)

\* Move, merge and split load rows before they ask for the lock, a change of
\* status takes no lock at all: none of them is called beside another request.
ReadersAlone == {"move", "merge", "split", "status"} \cap Kinds \subseteq Alone

\* A scan of a table's code takes no lock either.
JoinAlone == {"join"} \cap Kinds \subseteq Alone

-----------------------------------------------------------------------------
(* The inductive invariant: what each handler knows about the rows between *)
(* its reads and its commit.                                               *)

Orderers == {"order", "adminOrder"}

\* A request that runs alone has no other beside it.
OnlyAlone ==
    \A r \in Request :
        /\ ctx[r].kind \in Kinds \cup {None}
        /\ ctx[r].kind \in Alone => \A q \in Request \ {r} : pc[q] = "idle"

\* The orders a bill is charged for.
OnBill(b) == {o \in Billable : orders[o].bill = b}

\* The bill that receives orders is open at the table it is wanted for, with
\* the subtotal that was loaded, or was inserted by this transaction.
IntoLoaded(r) ==
    IF ctx[r].fresh THEN ctx[r].seenInto = Nothing
    ELSE /\ bills[ctx[r].into].state = "open" /\ bills[ctx[r].into].table = ctx[r].at
         /\ bills[ctx[r].into].subtotal = ctx[r].seenInto

OrderLocals(r) == ctx[r].kind \in Orderers =>
    /\ ctx[r].first = ctx[r].at /\ ctx[r].second = None /\ pc[r] # "lock2"
    /\ ctx[r].bill = None /\ ctx[r].orders = {}
    /\ pc[r] # "lock1" => lock[ctx[r].at] = r
    /\ pc[r] \in {"lock1", "getBill", "insertBill"} => ctx[r].seenInto = Nothing
    /\ pc[r] \in {"orderSave", "orderCommit"} => IntoLoaded(r)
    /\ pc[r] = "orderCommit" =>
          /\ orders[ctx[r].order].state = "none"
          /\ \A q \in Request \ {r} : ctx[q].order # ctx[r].order
          /\ ctx[r].sumInto = Total(OnBill(ctx[r].into) \cup {ctx[r].order})

JoinLocals(r) == ctx[r].kind = "join" =>
    /\ ctx[r].bill = None /\ ctx[r].sumInto = Nothing
    /\ pc[r] \in {"getBill", "insertBill"} \/ ctx[r].fresh => ctx[r].seenInto = Nothing

CloseLocals(r) == ctx[r].kind = "close" =>
    /\ ctx[r].first = bills[ctx[r].bill].table /\ ctx[r].second = None /\ pc[r] # "lock2"
    /\ pc[r] # "lock1" => lock[ctx[r].first] = r
    /\ pc[r] = "closeSave" => ctx[r].at = ctx[r].first /\ bills[ctx[r].bill].state = "open"

MoveLocals(r) == ctx[r].kind = "move" =>
    /\ bills[ctx[r].bill].state = "open" /\ bills[ctx[r].bill].table = ctx[r].first
    /\ ctx[r].second # ctx[r].first /\ ctx[r].orders = OrdersOf(ctx[r].bill)

MergeLocals(r) == ctx[r].kind = "merge" =>
    /\ ctx[r].into # ctx[r].bill
    /\ bills[ctx[r].bill].state = "open" /\ bills[ctx[r].into].state = "open"
    /\ ctx[r].first = bills[ctx[r].into].table /\ ctx[r].second = bills[ctx[r].bill].table
    /\ ctx[r].orders = OrdersOf(ctx[r].bill)
    /\ ctx[r].seen = bills[ctx[r].bill].subtotal
    /\ ctx[r].seenInto = bills[ctx[r].into].subtotal
    /\ pc[r] = "mergeCommit" => ctx[r].sumInto = Total(ChargedTo(r, ctx[r].into))

SplitLocals(r) == ctx[r].kind = "split" =>
    /\ bills[ctx[r].bill].state = "open" /\ bills[ctx[r].bill].table = ctx[r].first
    /\ ctx[r].second = ctx[r].at
    /\ ctx[r].orders # {} /\ ctx[r].orders \subseteq OrdersOf(ctx[r].bill)
    /\ ctx[r].seen = bills[ctx[r].bill].subtotal
    /\ pc[r] \notin AfterInsert => ctx[r].seenInto = Nothing
    /\ pc[r] \in AfterInsert => IntoLoaded(r)
    /\ pc[r] \in {"splitSumInto", "splitCommit"} => ctx[r].sum = Total(ChargedTo(r, ctx[r].bill))
    /\ pc[r] = "splitCommit" => ctx[r].sumInto = Total(ChargedTo(r, ctx[r].into))

StatusLocals(r) == ctx[r].kind = "status" =>
    /\ ctx[r].orders = {}
    /\ pc[r] = "statusSave" => /\ orders[ctx[r].order].state = "live"
                               /\ orders[ctx[r].order].bill = ctx[r].into
    /\ pc[r] \in {"recalcSum", "recalcSave"} => ctx[r].seenInto = bills[ctx[r].into].subtotal
    /\ pc[r] = "recalcSave" => ctx[r].sumInto = Total(OnBill(ctx[r].into))

Loaded(r) ==
    /\ OrderLocals(r) /\ JoinLocals(r) /\ CloseLocals(r) /\ MoveLocals(r)
    /\ MergeLocals(r) /\ SplitLocals(r) /\ StatusLocals(r)

SerialInv == OnlyAlone /\ \A r \in Request : Loaded(r)

-----------------------------------------------------------------------------
(* A handler that runs alone.                                              *)

\* A request that has ended has loaded nothing.
LEMMA IdleLoaded ==
  ASSUME NEW r \in Request, ctx'[r].kind = None PROVE Loaded(r)'
  BY NoneAssumption DEF AllKinds, Loaded, OrderLocals, Orderers, JoinLocals, CloseLocals,
     MoveLocals, MergeLocals, SplitLocals, StatusLocals

\* Commit, return and rollback end a request.
LEMMA FinishLoaded ==
  ASSUME TypeOK, NEW r \in Request, Finish(r) PROVE Loaded(r)'
  <1>1. ctx'[r].kind = None
    BY FinishCtx DEF NoCtx
  <1>2. QED
    BY <1>1, IdleLoaded

\* Who is running: a request at a label has the kind of that label.
LEMMA KindOf ==
  ASSUME TypeOK, LocalsSet, NEW r \in Request
  PROVE  /\ ctx[r].kind \in KindsAt(pc[r])
         /\ pc[r] = "idle" <=> ctx[r].kind = None
  <1>1. ctx[r].kind \in KindsAt(pc[r])
    BY DEF LocalsSet, LocalsOf
  <1>2. pc[r] = "idle" => ctx[r].kind = None
    BY <1>1 DEF KindsAt
  <1>3. ctx[r].kind = None /\ pc[r] \in Labels => pc[r] = "idle"
    BY <1>1, NoneAssumption DEF KindsAt, AllKinds, Labels
  <1>4. QED
    BY <1>1, <1>2, <1>3 DEF TypeOK

\* What a call does: the locals of its handler are set, no row and no lock is touched.
Begun(r, k, c, label) ==
    /\ UNCHANGED <<bills, orders, sessions, lock>>
    /\ pc[r] = "idle" /\ pc'[r] = label /\ k \in Kinds
    /\ \A q \in Request \ {r} : pc'[q] = pc[q] /\ ctx'[q] = ctx[q]
    /\ \A q \in Request \ {r} : pc[q] # "idle" => k \notin Alone /\ ctx[q].kind \notin Alone
    /\ ctx'[r].kind = k
    /\ ctx'[r].first = c.first /\ ctx'[r].second = c.second /\ ctx'[r].at = c.at
    /\ ctx'[r].bill = c.bill /\ ctx'[r].into = c.into /\ ctx'[r].fresh = c.fresh
    /\ ctx'[r].orders = c.orders /\ ctx'[r].order = c.order
    /\ ctx'[r].seen = c.seen /\ ctx'[r].seenInto = c.seenInto
    /\ ctx'[r].sumInto = c.sumInto

\* Every call begins so.
LEMMA Started ==
  ASSUME TypeOK, NEW r \in Request, NEW k, NEW c \in Ctx, NEW label, Start(r, k, c, label)
  PROVE  Begun(r, k, c, label)
  <1>1. ctx'[r] = [c EXCEPT !.kind = k]
    BY DEF Start, TypeOK
  <1>2. /\ ctx'[r].kind = k
        /\ ctx'[r].first = c.first /\ ctx'[r].second = c.second /\ ctx'[r].at = c.at
        /\ ctx'[r].bill = c.bill /\ ctx'[r].into = c.into /\ ctx'[r].fresh = c.fresh
        /\ ctx'[r].orders = c.orders /\ ctx'[r].order = c.order
        /\ ctx'[r].seen = c.seen /\ ctx'[r].seenInto = c.seenInto
        /\ ctx'[r].sumInto = c.sumInto
    BY <1>1 DEF Ctx
  <1>3. QED
    BY <1>2 DEF Begun, Start, data, TypeOK

\* Some handler is called, with the row of an order or with none.
Starts(r) ==
    \E k \in Kinds, label \in Labels, c \in Ctx :
        /\ Start(r, k, c, label)
        /\ c.order = None \/ (c.order \in Order /\ orders[c.order].state # "none")

\* Each of the nine calls loads what its handler is said to know.
LEMMA CallLoaded ==
  ASSUME TypeOK, RowsRefer, NEW r \in Request, Call(r)
  PROVE  Loaded(r)' /\ Starts(r)
  <1> USE NothingType, NoCtxType DEF OptTable, OptBill
  <1>1. ASSUME NEW s \in Session, CreateOrder(r, s) PROVE Loaded(r)' /\ Starts(r)
    <2> DEFINE c == [NoCtx EXCEPT !.session = s, !.first = sessions[s].table,
                                  !.at = sessions[s].table]
    <2>1. sessions[s].table \in Table
      BY <1>1 DEF CreateOrder, RowsRefer
    <2>2. /\ c \in Ctx /\ c.first = c.at /\ c.second = None /\ c.bill = None /\ c.orders = {}
          /\ c.seenInto = Nothing /\ c.order = None
      BY <2>1 DEF Ctx, NoCtx
    <2>3. Start(r, "order", c, "lock1")
      BY <1>1 DEF CreateOrder
    <2> HIDE DEF c
    <2>4. Begun(r, "order", c, "lock1")
      BY <2>2, <2>3, Started
    <2>5. Loaded(r)'
      BY <2>2, <2>3, <2>4 DEF Begun, Loaded, OrderLocals, Orderers, JoinLocals, CloseLocals,
         MoveLocals, MergeLocals, SplitLocals, StatusLocals
    <2>6. Starts(r)
      BY <2>2, <2>3, <2>4 DEF Begun, Starts, Labels
    <2>7. QED
      BY <2>5, <2>6
  <1>2. ASSUME NEW t \in Table, CreateAdminOrder(r, t) PROVE Loaded(r)' /\ Starts(r)
    <2> DEFINE c == [NoCtx EXCEPT !.first = t, !.at = t]
    <2>1. /\ c \in Ctx /\ c.first = c.at /\ c.second = None /\ c.bill = None /\ c.orders = {}
          /\ c.seenInto = Nothing /\ c.order = None
      BY DEF Ctx, NoCtx
    <2>2. Start(r, "adminOrder", c, "lock1")
      BY <1>2 DEF CreateAdminOrder
    <2> HIDE DEF c
    <2>3. Begun(r, "adminOrder", c, "lock1")
      BY <2>1, <2>2, Started
    <2>4. Loaded(r)'
      BY <2>1, <2>2, <2>3 DEF Begun, Loaded, OrderLocals, Orderers, JoinLocals, CloseLocals,
         MoveLocals, MergeLocals, SplitLocals, StatusLocals
    <2>5. Starts(r)
      BY <2>1, <2>2, <2>3 DEF Begun, Starts, Labels
    <2>6. QED
      BY <2>4, <2>5
  <1>3. ASSUME NEW t \in Table, VerifyTableToken(r, t) PROVE Loaded(r)' /\ Starts(r)
    <2> DEFINE c == [NoCtx EXCEPT !.at = t]
    <2>1. /\ c \in Ctx /\ c.bill = None /\ c.sumInto = Nothing /\ c.seenInto = Nothing
          /\ c.order = None
      BY DEF Ctx, NoCtx
    <2>2. Start(r, "join", c, "getBill")
      BY <1>3 DEF VerifyTableToken
    <2> HIDE DEF c
    <2>3. Begun(r, "join", c, "getBill")
      BY <2>1, <2>2, Started
    <2>4. Loaded(r)'
      BY <2>1, <2>2, <2>3 DEF Begun, Loaded, OrderLocals, Orderers, JoinLocals, CloseLocals,
         MoveLocals, MergeLocals, SplitLocals, StatusLocals
    <2>5. Starts(r)
      BY <2>1, <2>2, <2>3 DEF Begun, Starts, Labels
    <2>6. QED
      BY <2>4, <2>5
  <1>4. ASSUME NEW b \in Bill, CloseBill(r, b) PROVE Loaded(r)' /\ Starts(r)
    <2> DEFINE c == [NoCtx EXCEPT !.bill = b, !.first = bills[b].table]
    <2>1. /\ c \in Ctx /\ c.bill = b /\ c.first = bills[b].table /\ c.second = None
          /\ c.order = None
      BY BillType DEF Ctx, NoCtx
    <2>2. Start(r, "close", c, "lock1")
      BY <1>4 DEF CloseBill
    <2> HIDE DEF c
    <2>3. Begun(r, "close", c, "lock1")
      BY <2>1, <2>2, Started
    <2>4. Loaded(r)'
      BY <2>1, <2>2, <2>3 DEF Begun, Loaded, OrderLocals, Orderers, JoinLocals, CloseLocals,
         MoveLocals, MergeLocals, SplitLocals, StatusLocals
    <2>5. Starts(r)
      BY <2>1, <2>2, <2>3 DEF Begun, Starts, Labels
    <2>6. QED
      BY <2>4, <2>5
  <1>5. ASSUME NEW b \in Bill, NEW t \in Table, MoveBill(r, b, t) PROVE Loaded(r)' /\ Starts(r)
    <2> DEFINE c == [NoCtx EXCEPT !.bill = b, !.orders = OrdersOf(b),
                                  !.first = bills[b].table, !.second = t]
    <2>1. /\ c \in Ctx /\ c.bill = b /\ c.second = t /\ c.first = bills[b].table
          /\ c.orders = OrdersOf(b) /\ c.order = None
      BY BillType DEF Ctx, NoCtx, OrdersOf
    <2>2. Start(r, "move", c, "moveCheck") /\ bills[b].state = "open" /\ bills[b].table # t
      BY <1>5 DEF MoveBill
    <2> HIDE DEF c
    <2>3. Begun(r, "move", c, "moveCheck")
      BY <2>1, <2>2, Started
    <2>4. Loaded(r)'
      BY <2>1, <2>2, <2>3 DEF Begun, Loaded, OrderLocals, Orderers, JoinLocals, CloseLocals,
         MoveLocals, MergeLocals, SplitLocals, StatusLocals, OrdersOf
    <2>5. Starts(r)
      BY <2>1, <2>2, <2>3 DEF Begun, Starts, Labels
    <2>6. QED
      BY <2>4, <2>5
  <1>6. ASSUME NEW dst \in Bill, NEW src \in Bill, MergeBill(r, dst, src) PROVE Loaded(r)' /\ Starts(r)
    <2> DEFINE c == [NoCtx EXCEPT !.bill = src, !.into = dst, !.orders = OrdersOf(src),
                        !.first = bills[dst].table, !.second = bills[src].table,
                        !.seen = bills[src].subtotal, !.seenInto = bills[dst].subtotal]
    <2>1. /\ c \in Ctx /\ c.bill = src /\ c.into = dst /\ c.first = bills[dst].table
          /\ c.second = bills[src].table /\ c.orders = OrdersOf(src) /\ c.order = None
          /\ c.seen = bills[src].subtotal /\ c.seenInto = bills[dst].subtotal
      BY BillType DEF Ctx, NoCtx, OrdersOf
    <2>2. /\ Start(r, "merge", c, "lock1") /\ dst # src
          /\ bills[src].state = "open" /\ bills[dst].state = "open"
      BY <1>6 DEF MergeBill
    <2> HIDE DEF c
    <2>3. Begun(r, "merge", c, "lock1")
      BY <2>1, <2>2, Started
    <2>4. Loaded(r)'
      BY <2>1, <2>2, <2>3 DEF Begun, Loaded, OrderLocals, Orderers, JoinLocals, CloseLocals,
         MoveLocals, MergeLocals, SplitLocals, StatusLocals, OrdersOf
    <2>5. Starts(r)
      BY <2>1, <2>2, <2>3 DEF Begun, Starts, Labels
    <2>6. QED
      BY <2>4, <2>5
  <1>7. ASSUME NEW src \in Bill, NEW os \in SUBSET Order, NEW t \in Table,
               SplitBill(r, src, os, t)
        PROVE Loaded(r)' /\ Starts(r)
    <2> DEFINE c == [NoCtx EXCEPT !.bill = src, !.orders = os,
                        !.first = bills[src].table, !.second = t, !.at = t,
                        !.seen = bills[src].subtotal]
    <2>1. /\ c \in Ctx /\ c.bill = src /\ c.at = t /\ c.second = t /\ c.orders = os
          /\ c.first = bills[src].table /\ c.order = None
          /\ c.seen = bills[src].subtotal /\ c.seenInto = Nothing
      BY BillType DEF Ctx, NoCtx
    <2>2. /\ Start(r, "split", c, "lock1") /\ bills[src].state = "open"
          /\ os # {} /\ os \subseteq OrdersOf(src)
      BY <1>7 DEF SplitBill
    <2> HIDE DEF c
    <2>3. Begun(r, "split", c, "lock1")
      BY <2>1, <2>2, Started
    <2>4. Loaded(r)'
      BY <2>1, <2>2, <2>3 DEF Begun, Loaded, OrderLocals, Orderers, JoinLocals, CloseLocals,
         MoveLocals, MergeLocals, SplitLocals, StatusLocals, OrdersOf, AfterInsert
    <2>5. Starts(r)
      BY <2>1, <2>2, <2>3 DEF Begun, Starts, Labels
    <2>6. QED
      BY <2>4, <2>5
  <1>8. ASSUME NEW o \in Order, NEW status \in {"live", "cancelled"},
               UpdateOrderStatus(r, o, status)
        PROVE Loaded(r)' /\ Starts(r)
    <2> DEFINE c == [NoCtx EXCEPT !.order = o, !.status = status, !.into = orders[o].bill]
    <2>1. c \in Ctx /\ c.order = o /\ c.into = orders[o].bill /\ c.orders = {}
      BY OrderType DEF Ctx, NoCtx
    <2>2. Start(r, "status", c, "statusSave") /\ orders[o].state = "live"
      BY <1>8 DEF UpdateOrderStatus
    <2> HIDE DEF c
    <2>3. Begun(r, "status", c, "statusSave")
      BY <2>1, <2>2, Started
    <2>4. Loaded(r)'
      BY <2>1, <2>2, <2>3 DEF Begun, Loaded, OrderLocals, Orderers, JoinLocals, CloseLocals,
         MoveLocals, MergeLocals, SplitLocals, StatusLocals
    <2>5. Starts(r)
      BY <2>1, <2>2, <2>3 DEF Begun, Starts, Labels
    <2>6. QED
      BY <2>4, <2>5
  <1>9. QED
    BY <1>1, <1>2, <1>3, <1>4, <1>5, <1>6, <1>7, <1>8 DEF Call

-----------------------------------------------------------------------------
(* The steps of a handler between its call and its commit.                 *)

\* What a handler never sets again after its call, and the rows it leaves alone.
CallKept(r) ==
    /\ UNCHANGED <<bills, orders, sessions>>
    /\ \A q \in Request \ {r} : pc'[q] = pc[q] /\ ctx'[q] = ctx[q]
    /\ ctx'[r].kind = ctx[r].kind /\ ctx'[r].first = ctx[r].first
    /\ ctx'[r].second = ctx[r].second /\ ctx'[r].bill = ctx[r].bill
    /\ ctx'[r].orders = ctx[r].orders /\ ctx'[r].seen = ctx[r].seen

\* Taking a lock tells a handler nothing new but that it has the lock.
LEMMA AcquireLoaded ==
  ASSUME IInv, NEW r \in Request, Loaded(r), AcquireFirst(r) \/ AcquireSecond(r)
  PROVE  Loaded(r)'
  <1> USE DEF IInv
  <1>1. /\ UNCHANGED <<bills, orders, ctx>> /\ pc[r] \in {"lock1", "lock2"}
        /\ ctx[r].kind \in {"order", "adminOrder", "close", "move", "merge", "split"}
        /\ pc[r] = "lock1" => ctx[r].first \in OptTable
    BY CtxType, KindOf DEF AcquireFirst, AcquireSecond, At, data, KindsAt
  <1>2. CASE AcquireFirst(r)
    <2>1. /\ pc[r] = "lock1"
          /\ pc'[r] = IF ctx[r].second = None THEN AfterLocks(ctx[r].kind) ELSE "lock2"
          /\ ctx[r].first \in Table => lock'[ctx[r].first] = r
      BY <1>2 DEF AcquireFirst, At, TypeOK
    <2>2. CASE ctx[r].kind \in Orderers
      <3>1. ctx[r].at \in Table /\ pc'[r] = "getBill"
        BY <2>1, <2>2 DEF Loaded, OrderLocals, Orderers, AfterLocks, LocalsSet, LocalsOf
      <3>2. OrderLocals(r)'
        BY <1>1, <2>1, <2>2, <3>1 DEF Loaded, OrderLocals, Orderers
      <3>3. QED
        BY <1>1, <2>2, <3>2 DEF Loaded, Orderers, JoinLocals, CloseLocals, MoveLocals,
           MergeLocals, SplitLocals, StatusLocals
    <2>3. CASE ctx[r].kind = "close"
      <3>1. ctx[r].first \in Table /\ pc'[r] = "closeRead"
        BY <2>1, <2>3 DEF Loaded, CloseLocals, AfterLocks, LocalsSet, LocalsOf, RowsRefer
      <3>2. CloseLocals(r)'
        BY <1>1, <2>1, <2>3, <3>1 DEF Loaded, CloseLocals
      <3>3. QED
        BY <1>1, <2>3, <3>2 DEF Loaded, OrderLocals, Orderers, JoinLocals, MoveLocals,
           MergeLocals, SplitLocals, StatusLocals
    <2>4. CASE ctx[r].kind \in {"move", "merge", "split"}
      <3>1. pc'[r] \in {"lock2", "moveSave", "mergeSave", "getBill"}
        BY <2>1, <2>4 DEF AfterLocks
      <3>2. QED
        BY <1>1, <2>1, <2>4, <3>1 DEF Loaded, OrderLocals, Orderers, JoinLocals, CloseLocals,
           MoveLocals, MergeLocals, SplitLocals, StatusLocals, OrdersOf, AfterInsert
    <2>5. QED
      BY <1>1, <2>2, <2>3, <2>4 DEF Orderers
  <1>3. CASE AcquireSecond(r)
    <2>1. pc[r] = "lock2" /\ pc'[r] = AfterLocks(ctx[r].kind)
      BY <1>3 DEF AcquireSecond, At, TypeOK
    <2>2. ctx[r].kind \in {"move", "merge", "split"}
      BY <1>1, <2>1 DEF Loaded, OrderLocals, CloseLocals, Orderers
    <2>3. pc'[r] \in {"moveSave", "mergeSave", "getBill"}
      BY <2>1, <2>2 DEF AfterLocks
    <2>4. QED
      BY <1>1, <2>1, <2>2, <2>3 DEF Loaded, OrderLocals, Orderers, JoinLocals, CloseLocals,
         MoveLocals, MergeLocals, SplitLocals, StatusLocals, OrdersOf, AfterInsert
  <1>4. QED
    BY <1>2, <1>3

\* GetOrCreateOpenBillAsync returns the open bill of the table with its loaded
\* subtotal, or a bill of this transaction.
LEMMA IntoKnown ==
  ASSUME IInv, NEW r \in Request, Loaded(r), pc[r] \in {"getBill", "insertBill"},
         lock' = lock, CallKept(r), ctx'[r].at = ctx[r].at, ctx'[r].sumInto = ctx[r].sumInto,
         pc'[r] = AfterBill(ctx[r].kind), ctx'[r].into \in Bill,
         \/ ctx'[r].fresh /\ ctx'[r].seenInto = ctx[r].seenInto
         \/ /\ ~ctx'[r].fresh /\ ctx'[r].into \in OpenBills(ctx[r].at)
            /\ ctx'[r].seenInto = IF ctx'[r].into = ctx[r].bill THEN ctx[r].seen
                                  ELSE bills[ctx'[r].into].subtotal
  PROVE  Loaded(r)'
  <1> USE DEF IInv, CallKept
  <1>1. ctx[r].kind \in {"order", "adminOrder", "join", "split"}
    BY KindOf DEF KindsAt
  <1>2. CASE ctx[r].kind \in Orderers
    <2>1. pc'[r] = "orderSave" /\ ctx[r].bill = None
      BY <1>2 DEF AfterBill, Orderers, Loaded, OrderLocals
    <2>2. IntoLoaded(r)'
      BY <1>2, <2>1, NoneAssumption DEF IntoLoaded, OpenBills, Loaded, OrderLocals
    <2>3. OrderLocals(r)'
      BY <1>2, <2>1, <2>2 DEF Loaded, OrderLocals, Orderers
    <2>4. QED
      BY <1>2, <2>3 DEF Loaded, Orderers, JoinLocals, CloseLocals, MoveLocals,
         MergeLocals, SplitLocals, StatusLocals
  <1>3. CASE ctx[r].kind = "join"
    <2>1. pc'[r] = "joinSave"
      BY <1>3 DEF AfterBill
    <2>2. JoinLocals(r)'
      BY <1>3, <2>1 DEF Loaded, JoinLocals
    <2>3. QED
      BY <1>3, <2>2 DEF Loaded, OrderLocals, Orderers, CloseLocals, MoveLocals,
         MergeLocals, SplitLocals, StatusLocals
  <1>4. CASE ctx[r].kind = "split"
    <2>1. pc'[r] = "splitSave" /\ pc[r] \notin AfterInsert
      BY <1>4 DEF AfterBill, AfterInsert
    <2>2. IntoLoaded(r)'
      BY <1>4, <2>1 DEF IntoLoaded, OpenBills, Loaded, SplitLocals
    <2>3. SplitLocals(r)'
      BY <1>4, <2>1, <2>2 DEF Loaded, SplitLocals, OrdersOf, AfterInsert
    <2>4. QED
      BY <1>4, <2>3 DEF Loaded, OrderLocals, Orderers, JoinLocals, CloseLocals, MoveLocals,
         MergeLocals, StatusLocals
  <1>5. QED
    BY <1>1, <1>2, <1>3, <1>4 DEF Orderers

\* Both halves of GetOrCreateOpenBillAsync.
LEMMA FetchLoaded ==
  ASSUME IInv, NEW r \in Request, Loaded(r), GetOpenBill(r) \/ InsertBill(r)
  PROVE  Loaded(r)'
  <1> USE DEF IInv
  <1>1. /\ pc[r] \in {"getBill", "insertBill"}
        /\ ctx[r].kind \in {"order", "adminOrder", "join", "split"}
    BY KindOf DEF GetOpenBill, InsertBill, At, KindsAt
  <1>2. ~ctx[r].fresh
    BY <1>1 DEF InsertsReserved, AfterInsert
  <1>3. ASSUME NEW b \in OpenBills(ctx[r].at), UseBill(r, b) PROVE Loaded(r)'
    <2> DEFINE x == IF b = ctx[r].bill THEN ctx[r].seen ELSE bills[b].subtotal
    <2>1. /\ ctx' = [ctx EXCEPT ![r].into = b, ![r].seenInto = x]
          /\ pc' = [pc EXCEPT ![r] = AfterBill(ctx[r].kind)]
          /\ UNCHANGED <<bills, orders, sessions, lock>>
      BY <1>3 DEF UseBill, Goto, data
    <2> HIDE DEF x
    <2>2. /\ CallKept(r) /\ ctx'[r].at = ctx[r].at /\ ctx'[r].sumInto = ctx[r].sumInto
          /\ ctx'[r].into = b /\ ctx'[r].seenInto = x /\ ctx'[r].fresh = ctx[r].fresh
          /\ pc'[r] = AfterBill(ctx[r].kind)
      BY <2>1 DEF CallKept, TypeOK, Ctx
    <2>3. b \in Bill
      BY DEF OpenBills
    <2>4. QED
      BY <1>1, <1>2, <2>1, <2>2, <2>3, IntoKnown DEF x
  <1>4. ASSUME NEW b \in FreshBills, ctx' = [ctx EXCEPT ![r].into = b, ![r].fresh = TRUE],
               Goto(r, AfterBill(ctx[r].kind))
        PROVE  Loaded(r)'
    <2>1. /\ pc' = [pc EXCEPT ![r] = AfterBill(ctx[r].kind)]
          /\ UNCHANGED <<bills, orders, sessions, lock>>
      BY <1>4 DEF Goto, data
    <2>2. /\ CallKept(r) /\ ctx'[r].at = ctx[r].at /\ ctx'[r].sumInto = ctx[r].sumInto
          /\ ctx'[r].into = b /\ ctx'[r].seenInto = ctx[r].seenInto /\ ctx'[r].fresh
          /\ pc'[r] = AfterBill(ctx[r].kind)
      BY <1>4, <2>1 DEF CallKept, TypeOK, Ctx
    <2>3. b \in Bill
      BY DEF FreshBills
    <2>4. QED
      BY <1>1, <2>1, <2>2, <2>3, IntoKnown
  <1>5. CASE GetOpenBill(r) /\ OpenBills(ctx[r].at) = {}
    <2>1. pc[r] = "getBill" /\ pc'[r] = "insertBill" /\ UNCHANGED <<bills, orders, lock, ctx>>
      BY <1>5 DEF GetOpenBill, At, Goto, data, TypeOK
    <2>2. QED
      BY <1>1, <2>1 DEF Loaded, OrderLocals, Orderers, JoinLocals, CloseLocals, MoveLocals,
         MergeLocals, SplitLocals, StatusLocals, OrdersOf, AfterInsert
  <1>6. CASE RollBack(r)
    BY <1>6, FinishLoaded DEF RollBack
  <1>7. QED
    BY <1>3, <1>4, <1>5, <1>6 DEF GetOpenBill, InsertBill

\* A request that moves no order asks for what is charged to the bill.
LEMMA ChargedOnBill ==
  ASSUME NEW r \in Request, NEW b, ctx[r].orders = {} PROVE ChargedTo(r, b) = OnBill(b)
  BY DEF ChargedTo, OnBill

\* The sum with which a new order is committed, under an id no one else has.
LEMMA OrderSaveLoaded ==
  ASSUME IInv, NEW r \in Request, Loaded(r), OrderSave(r) PROVE Loaded(r)'
  <1> USE DEF IInv
  <1>1. pc[r] = "orderSave" /\ ctx[r].kind \in Orderers
    BY KindOf DEF OrderSave, At, KindsAt, Orderers
  <1>2. ASSUME NEW o \in FreshOrders, Goto(r, "orderCommit"),
               ctx' = [ctx EXCEPT ![r].order = o,
                                  ![r].sumInto = Total(ChargedTo(r, ctx[r].into) \cup {o})]
        PROVE  Loaded(r)'
    <2> DEFINE x == Total(ChargedTo(r, ctx[r].into) \cup {o})
    <2>1. ctx' = [ctx EXCEPT ![r].order = o, ![r].sumInto = x]
      BY <1>2
    <2>2. x = Total(OnBill(ctx[r].into) \cup {o})
      BY <1>1, ChargedOnBill DEF Loaded, OrderLocals
    <2> HIDE DEF x
    <2>3. /\ CallKept(r) /\ UNCHANGED <<bills, orders, lock>> /\ pc'[r] = "orderCommit"
          /\ ctx'[r].at = ctx[r].at /\ ctx'[r].into = ctx[r].into
          /\ ctx'[r].fresh = ctx[r].fresh /\ ctx'[r].seenInto = ctx[r].seenInto
          /\ ctx'[r].order = o /\ ctx'[r].sumInto = x
      BY <1>2, <2>1 DEF CallKept, Goto, data, TypeOK, Ctx
    <2>4. /\ orders[o].state = "none"
          /\ \A q \in Request \ {r} : ctx[q].order # o
      BY DEF FreshOrders
    <2>5. OnBill(ctx[r].into) = {p \in Billable' : orders'[p].bill = ctx'[r].into}
      BY <2>3 DEF OnBill, Billable
    <2>6. OrderLocals(r)'
      <3>1. IntoLoaded(r)'
        BY <1>1, <2>3 DEF Loaded, OrderLocals, IntoLoaded
      <3>2. ctx'[r].sumInto = Total(OnBill(ctx[r].into)' \cup {ctx'[r].order})
        BY <2>2, <2>3, <2>5 DEF OnBill
      <3>3. \A q \in Request \ {r} : ctx'[q].order # ctx'[r].order
        BY <2>3, <2>4 DEF CallKept
      <3>4. QED
        BY <1>1, <2>3, <2>4, <3>1, <3>2, <3>3 DEF CallKept, Loaded, OrderLocals, Orderers
    <2>7. QED
      BY <1>1, <2>3, <2>6 DEF CallKept, Loaded, Orderers, JoinLocals, CloseLocals, MoveLocals,
         MergeLocals, SplitLocals, StatusLocals
  <1>3. QED
    BY <1>2, FinishLoaded DEF OrderSave, RollBack

\* The second read of CloseBill and the check of MoveBill.
LEMMA CheckLoaded ==
  ASSUME IInv, NEW r \in Request, Loaded(r), CloseReread(r) \/ MoveCheck(r) PROVE Loaded(r)'
  <1> USE DEF IInv
  <1>1. CASE CloseReread(r) /\ bills[ctx[r].bill].state # "closed"
    <2>1. /\ pc[r] = "closeRead" /\ pc' = [pc EXCEPT ![r] = "closeSave"]
          /\ UNCHANGED <<bills, orders, lock>>
          /\ ctx' = [ctx EXCEPT ![r].at = bills[ctx[r].bill].table]
      BY <1>1 DEF CloseReread, At, Goto, data
    <2>2. ctx[r].kind = "close" /\ ctx[r].bill \in Bill /\ bills[ctx[r].bill].state = "open"
      BY <1>1, <2>1, KindOf, BillType DEF KindsAt, LocalsSet, LocalsOf
    <2>3. /\ ctx'[r].kind = "close" /\ ctx'[r].bill = ctx[r].bill /\ pc'[r] = "closeSave"
          /\ ctx'[r].first = ctx[r].first /\ ctx'[r].second = ctx[r].second
          /\ ctx'[r].at = bills[ctx[r].bill].table
      BY <2>1, <2>2 DEF TypeOK, Ctx
    <2>4. QED
      BY <2>1, <2>2, <2>3 DEF Loaded, OrderLocals, Orderers, JoinLocals, CloseLocals, MoveLocals,
         MergeLocals, SplitLocals, StatusLocals
  <1>2. CASE MoveCheck(r) /\ OpenBills(ctx[r].second) = {}
    <2>1. /\ pc[r] = "moveCheck" /\ pc'[r] = "lock1" /\ UNCHANGED <<bills, orders, ctx>>
      BY <1>2 DEF MoveCheck, At, Goto, data, TypeOK
    <2>2. ctx[r].kind = "move"
      BY <2>1, KindOf DEF KindsAt
    <2>3. QED
      BY <2>1, <2>2 DEF Loaded, OrderLocals, Orderers, JoinLocals, CloseLocals, MoveLocals,
         MergeLocals, SplitLocals, StatusLocals, OrdersOf
  <1>3. CASE RollBack(r)
    BY <1>3, FinishLoaded DEF RollBack
  <1>4. QED
    BY <1>1, <1>2, <1>3 DEF CloseReread, MoveCheck

\* MergeBill saves the moved orders and asks for the sum of the receiving bill.
LEMMA MergeLoaded ==
  ASSUME IInv, NEW r \in Request, Loaded(r), MergeSave(r) \/ MergeSum(r) PROVE Loaded(r)'
  <1> USE DEF IInv
  <1>1. ctx[r].kind = "merge" /\ ~ctx[r].fresh
    BY KindOf DEF MergeSave, MergeSum, At, KindsAt, InsertsReserved, AfterInsert
  <1>2. CASE MergeSave(r)
    <2>1. pc[r] = "mergeSave" /\ pc'[r] = "mergeSum" /\ UNCHANGED <<bills, orders, ctx>>
      BY <1>2 DEF MergeSave, At, Goto, data, TypeOK
    <2>2. QED
      BY <1>1, <2>1 DEF Loaded, OrderLocals, Orderers, JoinLocals, CloseLocals, MoveLocals,
         MergeLocals, SplitLocals, StatusLocals, OrdersOf
  <1>3. CASE MergeSum(r)
    <2> DEFINE x == Total(ChargedTo(r, ctx[r].into))
    <2>1. ctx' = [ctx EXCEPT ![r].sumInto = x]
      BY <1>3 DEF MergeSum
    <2> HIDE DEF x
    <2>2. /\ CallKept(r) /\ UNCHANGED <<bills, orders>> /\ pc'[r] = "mergeCommit"
          /\ ctx'[r].into = ctx[r].into /\ ctx'[r].seenInto = ctx[r].seenInto
          /\ ctx'[r].sumInto = x
      BY <1>3, <2>1 DEF MergeSum, CallKept, Goto, data, TypeOK, Ctx
    <2>3. ChargedTo(r, ctx[r].into)' = ChargedTo(r, ctx[r].into)
      BY <2>2 DEF CallKept, ChargedTo, Billable
    <2>4. MergeLocals(r)'
      BY <1>1, <2>2, <2>3 DEF CallKept, Loaded, MergeLocals, OrdersOf, x
    <2>5. QED
      BY <1>1, <2>2, <2>4 DEF CallKept, Loaded, OrderLocals, Orderers, JoinLocals, CloseLocals,
         MoveLocals, SplitLocals, StatusLocals
  <1>4. QED
    BY <1>2, <1>3

\* SplitBill saves the moved orders and asks for the sums of both bills.
LEMMA SplitLoaded ==
  ASSUME IInv, NEW r \in Request, Loaded(r), SplitSave(r) \/ SplitSumFrom(r) \/ SplitSumInto(r)
  PROVE  Loaded(r)'
  <1> USE DEF IInv
  <1>1. ctx[r].kind = "split" /\ pc[r] \in AfterInsert
    BY KindOf DEF SplitSave, SplitSumFrom, SplitSumInto, At, KindsAt, AfterInsert
  <1>2. CASE SplitSave(r)
    <2>1. pc'[r] = "splitSumFrom" /\ UNCHANGED <<bills, orders, ctx>>
      BY <1>2 DEF SplitSave, At, Goto, data, TypeOK
    <2>2. SplitLocals(r)'
      BY <1>1, <2>1 DEF Loaded, SplitLocals, OrdersOf, IntoLoaded, AfterInsert
    <2>3. QED
      BY <1>1, <2>1, <2>2 DEF Loaded, OrderLocals, Orderers, JoinLocals, CloseLocals, MoveLocals,
         MergeLocals, StatusLocals
  <1>3. CASE SplitSumFrom(r)
    <2> DEFINE x == Total(ChargedTo(r, ctx[r].bill))
    <2>1. ctx' = [ctx EXCEPT ![r].sum = x]
      BY <1>3 DEF SplitSumFrom
    <2> HIDE DEF x
    <2>2. /\ CallKept(r) /\ UNCHANGED <<bills, orders>> /\ pc'[r] = "splitSumInto"
          /\ ctx'[r].into = ctx[r].into /\ ctx'[r].seenInto = ctx[r].seenInto
          /\ ctx'[r].at = ctx[r].at /\ ctx'[r].fresh = ctx[r].fresh
          /\ ctx'[r].sum = x
      BY <1>3, <2>1 DEF SplitSumFrom, CallKept, Goto, data, TypeOK, Ctx
    <2>3. ChargedTo(r, ctx[r].bill)' = ChargedTo(r, ctx[r].bill)
      BY <2>2 DEF CallKept, ChargedTo, Billable
    <2>4. IntoLoaded(r)'
      BY <1>1, <2>2 DEF Loaded, SplitLocals, IntoLoaded
    <2>5. SplitLocals(r)'
      BY <1>1, <2>2, <2>3, <2>4 DEF CallKept, Loaded, SplitLocals, OrdersOf, AfterInsert, x
    <2>6. QED
      BY <1>1, <2>2, <2>5 DEF CallKept, Loaded, OrderLocals, Orderers, JoinLocals, CloseLocals,
         MoveLocals, MergeLocals, StatusLocals
  <1>4. CASE SplitSumInto(r)
    <2> DEFINE x == Total(ChargedTo(r, ctx[r].into))
    <2>1. ctx' = [ctx EXCEPT ![r].sumInto = x]
      BY <1>4 DEF SplitSumInto
    <2> HIDE DEF x
    <2>2. /\ CallKept(r) /\ UNCHANGED <<bills, orders>> /\ pc'[r] = "splitCommit"
          /\ pc[r] = "splitSumInto"
          /\ ctx'[r].into = ctx[r].into /\ ctx'[r].seenInto = ctx[r].seenInto
          /\ ctx'[r].at = ctx[r].at /\ ctx'[r].fresh = ctx[r].fresh
          /\ ctx'[r].sum = ctx[r].sum /\ ctx'[r].sumInto = x
      BY <1>4, <2>1 DEF SplitSumInto, At, CallKept, Goto, data, TypeOK, Ctx
    <2>3. /\ ChargedTo(r, ctx[r].into)' = ChargedTo(r, ctx[r].into)
          /\ ChargedTo(r, ctx[r].bill)' = ChargedTo(r, ctx[r].bill)
      <3>1. ChargedTo(r, ctx[r].into)' = ChargedTo(r, ctx[r].into)
        BY <2>2 DEF CallKept, ChargedTo, Billable
      <3>2. ChargedTo(r, ctx[r].bill)' = ChargedTo(r, ctx[r].bill)
        BY <2>2 DEF CallKept, ChargedTo, Billable
      <3>3. QED
        BY <3>1, <3>2
    <2>4. IntoLoaded(r)'
      BY <1>1, <2>2 DEF Loaded, SplitLocals, IntoLoaded
    <2>5. SplitLocals(r)'
      BY <1>1, <2>2, <2>3, <2>4 DEF CallKept, Loaded, SplitLocals, OrdersOf, AfterInsert, x
    <2>6. QED
      BY <1>1, <2>2, <2>5 DEF CallKept, Loaded, OrderLocals, Orderers, JoinLocals, CloseLocals,
         MoveLocals, MergeLocals, StatusLocals
  <1>5. QED
    BY <1>2, <1>3, <1>4

\* UpdateOrderStatus saves the order, loads its bill and asks for its sum.
LEMMA StatusLoaded ==
  ASSUME IInv, NEW r \in Request, Loaded(r), StatusSave(r) \/ RecalcRead(r) \/ RecalcSum(r)
  PROVE  Loaded(r)'
  <1> USE DEF IInv
  <1>1. ctx[r].kind = "status" /\ ctx[r].orders = {}
    BY KindOf DEF StatusSave, RecalcRead, RecalcSum, At, KindsAt, Loaded, StatusLocals
  <1>2. CASE StatusSave(r)
    <2>1. pc'[r] = "recalcRead" /\ UNCHANGED ctx
      BY <1>2 DEF StatusSave, At, TypeOK
    <2>2. QED
      BY <1>1, <2>1 DEF Loaded, OrderLocals, Orderers, JoinLocals, CloseLocals, MoveLocals,
         MergeLocals, SplitLocals, StatusLocals
  <1>3. CASE RecalcRead(r)
    <2> DEFINE x == bills[ctx[r].into].subtotal
    <2>1. ctx' = [ctx EXCEPT ![r].seenInto = x]
      BY <1>3 DEF RecalcRead
    <2> HIDE DEF x
    <2>2. /\ CallKept(r) /\ UNCHANGED <<bills, orders>> /\ pc'[r] = "recalcSum"
          /\ ctx'[r].into = ctx[r].into /\ ctx'[r].seenInto = x
      BY <1>3, <2>1 DEF RecalcRead, CallKept, Goto, data, TypeOK, Ctx
    <2>3. QED
      BY <1>1, <2>2 DEF x, CallKept, Loaded, OrderLocals, Orderers, JoinLocals, CloseLocals,
         MoveLocals, MergeLocals, SplitLocals, StatusLocals
  <1>4. CASE RecalcSum(r)
    <2> DEFINE x == Total(ChargedTo(r, ctx[r].into))
    <2>1. ctx' = [ctx EXCEPT ![r].sumInto = x]
      BY <1>4 DEF RecalcSum
    <2>2. x = Total(OnBill(ctx[r].into))
      BY <1>1, ChargedOnBill
    <2> HIDE DEF x
    <2>3. /\ CallKept(r) /\ UNCHANGED <<bills, orders>> /\ pc'[r] = "recalcSave"
          /\ pc[r] = "recalcSum" /\ ctx'[r].seenInto = ctx[r].seenInto
          /\ ctx'[r].into = ctx[r].into /\ ctx'[r].sumInto = x
      BY <1>4, <2>1 DEF RecalcSum, At, CallKept, Goto, data, TypeOK, Ctx
    <2>4. OnBill(ctx[r].into) = {p \in Billable' : orders'[p].bill = ctx'[r].into}
      BY <2>3 DEF OnBill, Billable
    <2>5. ctx'[r].sumInto = Total(OnBill(ctx[r].into)')
      BY <2>2, <2>3, <2>4 DEF OnBill
    <2>6. QED
      BY <1>1, <2>3, <2>5 DEF CallKept, Loaded, OrderLocals, Orderers, JoinLocals, CloseLocals,
         MoveLocals, MergeLocals, SplitLocals, StatusLocals
  <1>5. QED
    BY <1>2, <1>3, <1>4

\* What a handler knows is kept and extended by each of its own steps.
LEMMA OwnStepLoaded ==
  ASSUME IInv, NEW r \in Request, Loaded(r), Call(r) \/ Step(r) \/ Fail(r) \/ BreakDeadlock(r)
  PROVE  Loaded(r)'
  <1>1. CASE \/ OrderCommit(r) \/ JoinSave(r) \/ CloseSave(r) \/ MoveSave(r) \/ MergeCommit(r)
             \/ SplitCommit(r) \/ RecalcSave(r) \/ Fail(r) \/ BreakDeadlock(r)
    <2>1. Finish(r)
      BY <1>1 DEF OrderCommit, JoinSave, CloseSave, MoveSave, MergeCommit, SplitCommit,
                  RecalcSave, Fail, BreakDeadlock, RollBack
    <2>2. QED
      BY <2>1, FinishLoaded DEF IInv
  <1>2. QED
    BY <1>1, CallLoaded, AcquireLoaded, FetchLoaded, OrderSaveLoaded, CheckLoaded, MergeLoaded,
       SplitLoaded, StatusLoaded DEF Step, IInv

-----------------------------------------------------------------------------
(* The requests that run beside the one that takes a step.                 *)

\* The handlers that may run beside others.
Shared == {"order", "adminOrder", "join", "close"}

\* An advisory lock is taken from nobody.
LEMMA LocksKept ==
  ASSUME IInv, NEW r \in Request, NEW q \in Request \ {r}, NEW t \in Table, lock[t] = q,
         Call(r) \/ Step(r) \/ Fail(r) \/ BreakDeadlock(r)
  PROVE  lock'[t] = q
  <1>1. CASE Finish(r)
    BY <1>1 DEF Finish
  <1>2. CASE AcquireFirst(r)
    <2>1. pc[r] = "lock1" /\ Blockers(r) = {} /\ lock' = [lock EXCEPT ![ctx[r].first] = r]
      BY <1>2 DEF AcquireFirst, At
    <2>2. NeededLocks(r) = {ctx[r].first}
      BY <2>1 DEF NeededLocks
    <2>3. t # ctx[r].first
      BY <2>1, <2>2 DEF Blockers
    <2>4. QED
      BY <2>1, <2>3 DEF IInv, TypeOK
  <1>3. CASE AcquireSecond(r)
    <2>1. pc[r] = "lock2" /\ Blockers(r) = {} /\ lock' = [lock EXCEPT ![ctx[r].second] = r]
      BY <1>3 DEF AcquireSecond, At
    <2>2. NeededLocks(r) = {ctx[r].second}
      BY <2>1 DEF NeededLocks
    <2>3. t # ctx[r].second
      BY <2>1, <2>2 DEF Blockers
    <2>4. QED
      BY <2>1, <2>3 DEF IInv, TypeOK
  <1>4. CASE UNCHANGED lock
    BY <1>4
  <1>5. Finish(r) \/ AcquireFirst(r) \/ AcquireSecond(r) \/ UNCHANGED lock
    <2>1. CASE Call(r)
      BY <2>1 DEF Call, CreateOrder, CreateAdminOrder, VerifyTableToken, CloseBill, MoveBill,
         MergeBill, SplitBill, UpdateOrderStatus, Start
    <2>2. CASE Step(r)
      BY <2>2 DEF Step, GetOpenBill, InsertBill, UseBill, OrderSave, OrderCommit, JoinSave,
         CloseReread, CloseSave, MoveCheck, MoveSave, MergeSave, MergeSum, MergeCommit,
         SplitSave, SplitSumFrom, SplitSumInto, SplitCommit, StatusSave, RecalcRead,
         RecalcSum, RecalcSave, Goto, RollBack
    <2>3. QED
      BY <2>1, <2>2 DEF Fail, BreakDeadlock, RollBack
  <1>6. QED
    BY <1>1, <1>2, <1>3, <1>4, <1>5

\* The id of an order is taken once: no other request gets the one that a
\* request is about to commit.
LEMMA OrderIdsApart ==
  ASSUME IInv, NEW r \in Request, NEW q \in Request \ {r},
         ctx[q].order \in Order, orders[ctx[q].order].state = "none",
         ctx[r].order # ctx[q].order,
         Call(r) \/ Step(r) \/ Fail(r) \/ BreakDeadlock(r)
  PROVE  ctx'[r].order # ctx[q].order
  <1> USE NoneAssumption DEF IInv
  <1>1. CASE Call(r)
    <2>1. Starts(r)
      BY <1>1, CallLoaded
    <2>2. PICK k \in Kinds, label \in Labels, c \in Ctx :
             /\ Start(r, k, c, label)
             /\ c.order = None \/ (c.order \in Order /\ orders[c.order].state # "none")
      BY <2>1 DEF Starts
    <2>3. QED
      BY <2>2, Started DEF Begun
  <1>2. CASE Finish(r)
    BY <1>2, FinishCtx DEF NoCtx
  <1>3. CASE OrderSave(r) /\ ~Finish(r)
    <2>1. PICK o \in FreshOrders : \E x : ctx' = [ctx EXCEPT ![r].order = o, ![r].sumInto = x]
      BY <1>3 DEF OrderSave, RollBack
    <2>2. ctx'[r].order = o
      BY <2>1 DEF TypeOK, Ctx
    <2>3. QED
      BY <2>2 DEF FreshOrders
  <1>4. CASE \/ AcquireFirst(r) \/ AcquireSecond(r)
             \/ MoveCheck(r) /\ ~Finish(r)
             \/ MergeSave(r) \/ SplitSave(r) \/ StatusSave(r)
    BY <1>4 DEF AcquireFirst, AcquireSecond, MoveCheck, MergeSave, SplitSave, StatusSave, RollBack
  <1>5. CASE GetOpenBill(r) \/ (InsertBill(r) /\ ~Finish(r))
    <2>1. ctx' = ctx \/ \E b, x : \/ ctx' = [ctx EXCEPT ![r].into = b, ![r].seenInto = x]
                                  \/ ctx' = [ctx EXCEPT ![r].into = b, ![r].fresh = TRUE]
      BY <1>5 DEF GetOpenBill, InsertBill, UseBill, RollBack
    <2>2. ASSUME NEW b, NEW x, ctx' = [ctx EXCEPT ![r].into = b, ![r].seenInto = x]
          PROVE  ctx'[r].order = ctx[r].order
      BY <2>2 DEF TypeOK, Ctx
    <2>3. ASSUME NEW b, ctx' = [ctx EXCEPT ![r].into = b, ![r].fresh = TRUE]
          PROVE  ctx'[r].order = ctx[r].order
      BY <2>3 DEF TypeOK, Ctx
    <2>4. QED
      BY <2>1, <2>2, <2>3
  <1>6. CASE \/ CloseReread(r) /\ ~Finish(r)
             \/ MergeSum(r) \/ SplitSumFrom(r) \/ SplitSumInto(r) \/ RecalcRead(r) \/ RecalcSum(r)
    <2>1. \E x : \/ ctx' = [ctx EXCEPT ![r].at = x] \/ ctx' = [ctx EXCEPT ![r].sum = x]
                 \/ ctx' = [ctx EXCEPT ![r].sumInto = x] \/ ctx' = [ctx EXCEPT ![r].seenInto = x]
      BY <1>6 DEF CloseReread, MergeSum, SplitSumFrom, SplitSumInto, RecalcRead, RecalcSum, RollBack
    <2>2. ctx'[r].order = ctx[r].order
      BY <2>1 DEF TypeOK, Ctx
    <2>3. QED
      BY <2>2
  <1>7. CASE \/ OrderCommit(r) \/ JoinSave(r) \/ CloseSave(r) \/ MoveSave(r) \/ MergeCommit(r)
             \/ SplitCommit(r) \/ RecalcSave(r) \/ Fail(r) \/ BreakDeadlock(r)
    BY <1>2, <1>7 DEF OrderCommit, JoinSave, CloseSave, MoveSave, MergeCommit, SplitCommit,
       RecalcSave, Fail, BreakDeadlock, RollBack
  <1>8. QED
    BY <1>1, <1>2, <1>3, <1>4, <1>5, <1>6, <1>7 DEF Step

\* What request q is after is left as q loaded it.
Undisturbed(q) ==
    /\ pc[q] \in {"orderSave", "orderCommit"} /\ ~ctx[q].fresh =>
          bills'[ctx[q].into] = bills[ctx[q].into]
    /\ pc[q] = "orderCommit" =>
          /\ {o \in Billable' : orders'[o].bill = ctx[q].into} = OnBill(ctx[q].into)
          /\ orders'[ctx[q].order].state = "none"
    /\ ctx[q].kind = "close" => bills'[ctx[q].bill].table = bills[ctx[q].bill].table
    /\ pc[q] = "closeSave" => bills'[ctx[q].bill].state = bills[ctx[q].bill].state

\* The commit of an order touches its own bill and its own row.
LEMMA OrderCommitApart ==
  ASSUME IInv, NEW r \in Request, NEW q \in Request \ {r}, Loaded(r), Loaded(q),
         ctx[q].kind \in Shared, OrderCommit(r)
  PROVE  Undisturbed(q)
  <1> USE DEF IInv
  <1>1. /\ pc[r] = "orderCommit" /\ ctx[r].kind \in Orderers
        /\ ctx[r].into \in Bill /\ ctx[r].order \in Order /\ ctx[r].at \in Table
        /\ ctx[r].fresh \/ bills[ctx[r].into].state # "none"
        /\ bills' = [bills EXCEPT ![ctx[r].into] = IntoRow(r)]
        /\ orders' = [orders EXCEPT ![ctx[r].order] =
                    [state |-> "live", charged |-> TRUE, table |-> ctx[r].at,
                     bill |-> ctx[r].into, session |-> ctx[r].session]]
    BY KindOf DEF OrderCommit, At, LocalsSet, LocalsOf, AfterInsert, KindsAt, Orderers
  <1>2. /\ lock[ctx[r].at] = r /\ orders[ctx[r].order].state = "none"
        /\ \A p \in Request \ {r} : ctx[p].order # ctx[r].order
        /\ ~ctx[r].fresh => bills[ctx[r].into].table = ctx[r].at
    BY <1>1 DEF Loaded, OrderLocals, IntoLoaded
  <1>3. ASSUME pc[q] \in {"orderSave", "orderCommit"} PROVE ctx[q].into # ctx[r].into
    <2>1. ctx[q].kind \in Orderers
      BY <1>3, KindOf DEF KindsAt, Orderers
    <2>2. lock[ctx[q].at] = q /\ (~ctx[q].fresh => bills[ctx[q].into].table = ctx[q].at)
      BY <1>3, <2>1 DEF Loaded, OrderLocals, IntoLoaded
    <2>3. QED
      BY <1>2, <2>2 DEF InsertsReserved
  <1>4. ASSUME pc[q] = "orderCommit"
        PROVE  /\ {o \in Billable' : orders'[o].bill = ctx[q].into} = OnBill(ctx[q].into)
               /\ orders'[ctx[q].order].state = "none"
    <2>1. ctx[q].kind \in Orderers /\ ctx[q].order \in Order
      BY <1>4, KindOf DEF KindsAt, Orderers, LocalsSet, LocalsOf
    <2>2. orders[ctx[q].order].state = "none" /\ ctx[q].order # ctx[r].order
      BY <1>2, <1>4, <2>1 DEF Loaded, OrderLocals
    <2>3. orders'[ctx[q].order].state = "none"
      BY <1>1, <2>1, <2>2 DEF TypeOK
    <2>4. {o \in Billable' : orders'[o].bill = ctx[q].into} = OnBill(ctx[q].into)
      BY <1>1, <1>2, <1>3, <1>4 DEF OnBill, Billable, TypeOK
    <2>5. QED
      BY <2>3, <2>4
  <1>5. ASSUME ctx[q].kind = "close"
        PROVE  /\ bills'[ctx[q].bill].table = bills[ctx[q].bill].table
               /\ bills'[ctx[q].bill].state = bills[ctx[q].bill].state
    <2>1. ctx[q].bill \in Bill /\ bills[ctx[q].bill].state # "none"
      BY <1>5 DEF LocalsSet, LocalsOf
    <2>2. CASE ctx[q].bill = ctx[r].into
      BY <1>1, <2>1, <2>2, IntoRowIs DEF InsertsReserved, TypeOK
    <2>3. CASE ctx[q].bill # ctx[r].into
      BY <1>1, <2>1, <2>3 DEF TypeOK
    <2>4. QED
      BY <2>2, <2>3
  <1>6. pc[q] = "closeSave" => ctx[q].kind = "close"
    BY KindOf DEF KindsAt
  <1>7. pc[q] \in {"orderSave", "orderCommit"} => ctx[q].into \in Bill
    BY DEF LocalsSet, LocalsOf, AfterInsert
  <1>8. QED
    BY <1>1, <1>3, <1>4, <1>5, <1>6, <1>7 DEF Undisturbed, TypeOK

\* A scan that opens a bill opens one that no other request has.
LEMMA JoinSaveApart ==
  ASSUME IInv, NEW r \in Request, NEW q \in Request \ {r}, Loaded(q),
         ctx[q].kind \in Shared, JoinSave(r)
  PROVE  Undisturbed(q)
  <1> USE DEF IInv
  <1>1. /\ pc[r] = "joinSave" /\ ctx[r].into \in Bill /\ UNCHANGED orders
        /\ \/ UNCHANGED bills
           \/ ctx[r].fresh /\ bills' = [bills EXCEPT ![ctx[r].into] = IntoRow(r)]
    BY DEF JoinSave, At, LocalsSet, LocalsOf, AfterInsert, RollBack, data
  <1>2. \A b \in Bill : b # ctx[r].into \/ bills[b].state # "none" => bills'[b] = bills[b]
    BY <1>1 DEF InsertsReserved, TypeOK
  <1>3. pc[q] \in {"orderSave", "orderCommit"} /\ ~ctx[q].fresh =>
           ctx[q].into \in Bill /\ bills[ctx[q].into].state # "none"
    BY DEF LocalsSet, LocalsOf, AfterInsert
  <1>4. ctx[q].kind = "close" => ctx[q].bill \in Bill /\ bills[ctx[q].bill].state # "none"
    BY DEF LocalsSet, LocalsOf
  <1>5. {o \in Billable' : orders'[o].bill = ctx[q].into} = OnBill(ctx[q].into)
    BY <1>1 DEF OnBill, Billable
  <1>6. pc[q] = "closeSave" => ctx[q].kind = "close"
    BY KindOf DEF KindsAt
  <1>7. pc[q] = "orderCommit" => ctx[q].kind \in Orderers
    BY KindOf DEF KindsAt, Orderers
  <1>8. pc[q] = "orderCommit" => orders'[ctx[q].order].state = "none"
    BY <1>1, <1>7 DEF Loaded, OrderLocals
  <1>9. QED
    BY <1>2, <1>3, <1>4, <1>5, <1>6, <1>8 DEF Undisturbed

\* Closing a bill waits for the orders at its table, and they for it.
LEMMA CloseSaveApart ==
  ASSUME IInv, NEW r \in Request, NEW q \in Request \ {r}, Loaded(r), Loaded(q),
         ctx[q].kind \in Shared, CloseSave(r)
  PROVE  Undisturbed(q)
  <1> USE DEF IInv
  <1>1. /\ pc[r] = "closeSave" /\ ctx[r].kind = "close" /\ ctx[r].bill \in Bill
        /\ bills' = [bills EXCEPT ![ctx[r].bill].state = "closed"] /\ UNCHANGED orders
    BY KindOf DEF CloseSave, At, KindsAt, LocalsSet, LocalsOf
  <1>2. lock[bills[ctx[r].bill].table] = r
    BY <1>1 DEF Loaded, CloseLocals
  <1>3. ASSUME pc[q] \in {"orderSave", "orderCommit"}, ~ctx[q].fresh
        PROVE  bills'[ctx[q].into] = bills[ctx[q].into]
    <2>1. ctx[q].kind \in Orderers /\ ctx[q].into \in Bill
      BY <1>3, KindOf DEF KindsAt, Orderers, LocalsSet, LocalsOf, AfterInsert
    <2>2. lock[bills[ctx[q].into].table] = q
      BY <1>3, <2>1 DEF Loaded, OrderLocals, IntoLoaded
    <2>3. ctx[q].into # ctx[r].bill
      BY <1>2, <2>2
    <2>4. QED
      BY <1>1, <2>1, <2>3 DEF TypeOK
  <1>4. {o \in Billable' : orders'[o].bill = ctx[q].into} = OnBill(ctx[q].into)
    BY <1>1 DEF OnBill, Billable
  <1>5. pc[q] = "orderCommit" => orders'[ctx[q].order].state = "none"
    <2>1. pc[q] = "orderCommit" => ctx[q].kind \in Orderers
      BY KindOf DEF KindsAt, Orderers
    <2>2. QED
      BY <1>1, <2>1 DEF Loaded, OrderLocals
  <1>6. \A b \in Bill : bills'[b].table = bills[b].table
    BY <1>1 DEF TypeOK, BillRow
  <1>7. ctx[q].kind = "close" => ctx[q].bill \in Bill
    BY DEF LocalsSet, LocalsOf
  <1>8. ASSUME pc[q] = "closeSave" PROVE bills'[ctx[q].bill].state = bills[ctx[q].bill].state
    <2>1. ctx[q].kind = "close" /\ ctx[q].bill \in Bill
      BY <1>8, KindOf DEF KindsAt, LocalsSet, LocalsOf
    <2>2. lock[bills[ctx[q].bill].table] = q
      BY <1>8, <2>1 DEF Loaded, CloseLocals
    <2>3. ctx[q].bill # ctx[r].bill
      BY <1>2, <2>2
    <2>4. QED
      BY <1>1, <2>1, <2>3 DEF TypeOK
  <1>9. QED
    BY <1>3, <1>4, <1>5, <1>6, <1>7, <1>8 DEF Undisturbed

\* Only the commits change rows of bills and orders.
LEMMA StepKeepsRows ==
  ASSUME NEW r \in Request, Call(r) \/ Step(r) \/ Fail(r) \/ BreakDeadlock(r),
         ~(\/ OrderCommit(r) \/ JoinSave(r) \/ CloseSave(r) \/ MoveSave(r) \/ MergeCommit(r)
           \/ SplitCommit(r) \/ StatusSave(r) \/ RecalcSave(r))
  PROVE  UNCHANGED <<bills, orders, sessions>>
  BY DEF Call, CreateOrder, CreateAdminOrder, VerifyTableToken, CloseBill, MoveBill,
     MergeBill, SplitBill, UpdateOrderStatus, Start, Fail, BreakDeadlock, RollBack, Step,
     AcquireFirst, AcquireSecond, GetOpenBill, InsertBill, UseBill, OrderSave, CloseReread,
     MoveCheck, MergeSave, MergeSum, SplitSave, SplitSumFrom, SplitSumInto,
     RecalcRead, RecalcSum, Goto, data

\* A request keeps its kind until it ends.
LEMMA StepKeepsKind ==
  ASSUME TypeOK, NEW r \in Request, Step(r) \/ Fail(r) \/ BreakDeadlock(r)
  PROVE  ctx'[r].kind \in {ctx[r].kind, None}
  <1>1. CASE Finish(r)
    BY <1>1, FinishCtx DEF NoCtx
  <1>2. CASE UNCHANGED ctx
    BY <1>2
  <1>3. CASE \E x, y : \/ ctx' = [ctx EXCEPT ![r].into = x, ![r].seenInto = y]
                       \/ ctx' = [ctx EXCEPT ![r].into = x, ![r].fresh = y]
                       \/ ctx' = [ctx EXCEPT ![r].order = x, ![r].sumInto = y]
    <2>1. ASSUME NEW x, NEW y, ctx' = [ctx EXCEPT ![r].into = x, ![r].seenInto = y]
          PROVE  ctx'[r].kind = ctx[r].kind
      BY <2>1 DEF TypeOK, Ctx
    <2>2. ASSUME NEW x, NEW y, ctx' = [ctx EXCEPT ![r].into = x, ![r].fresh = y]
          PROVE  ctx'[r].kind = ctx[r].kind
      BY <2>2 DEF TypeOK, Ctx
    <2>3. ASSUME NEW x, NEW y, ctx' = [ctx EXCEPT ![r].order = x, ![r].sumInto = y]
          PROVE  ctx'[r].kind = ctx[r].kind
      BY <2>3 DEF TypeOK, Ctx
    <2>4. QED
      BY <1>3, <2>1, <2>2, <2>3
  <1>4. CASE \E x : \/ ctx' = [ctx EXCEPT ![r].at = x] \/ ctx' = [ctx EXCEPT ![r].sum = x]
                    \/ ctx' = [ctx EXCEPT ![r].sumInto = x] \/ ctx' = [ctx EXCEPT ![r].seenInto = x]
    BY <1>4 DEF TypeOK, Ctx
  <1>5. CASE \/ AcquireFirst(r) \/ AcquireSecond(r) \/ MoveCheck(r) \/ MergeSave(r)
             \/ SplitSave(r) \/ StatusSave(r)
    BY <1>1, <1>2, <1>5 DEF AcquireFirst, AcquireSecond, MoveCheck, MergeSave, SplitSave,
       StatusSave, RollBack
  <1>6. CASE GetOpenBill(r) \/ InsertBill(r) \/ OrderSave(r)
    BY <1>1, <1>2, <1>3, <1>6 DEF GetOpenBill, InsertBill, UseBill, OrderSave, RollBack
  <1>7. CASE \/ CloseReread(r) \/ MergeSum(r) \/ SplitSumFrom(r)
             \/ SplitSumInto(r) \/ RecalcRead(r) \/ RecalcSum(r)
    BY <1>1, <1>4, <1>7 DEF CloseReread, MergeSum, SplitSumFrom, SplitSumInto, RecalcRead,
       RecalcSum, RollBack
  <1>8. CASE \/ OrderCommit(r) \/ JoinSave(r) \/ CloseSave(r) \/ MoveSave(r) \/ MergeCommit(r)
             \/ SplitCommit(r) \/ RecalcSave(r) \/ Fail(r) \/ BreakDeadlock(r)
    BY <1>1, <1>8 DEF OrderCommit, JoinSave, CloseSave, MoveSave, MergeCommit, SplitCommit,
       RecalcSave, Fail, BreakDeadlock, RollBack
  <1>9. QED
    BY <1>5, <1>6, <1>7, <1>8 DEF Step

\* A step of one request leaves what the others know as it was.
LEMMA OthersLoaded ==
  ASSUME ReadersAlone, IInv, OnlyAlone, NEW r \in Request, NEW q \in Request \ {r},
         Loaded(r), Loaded(q), StepLocals(r),
         Call(r) \/ Step(r) \/ Fail(r) \/ BreakDeadlock(r)
  PROVE  Loaded(q)'
  <1> USE DEF IInv
  <1>1. ctx'[q] = ctx[q] /\ pc'[q] = pc[q]
    BY DEF StepLocals, CtxEffect
  <1>2. CASE ctx[q].kind = None
    BY <1>1, <1>2, IdleLoaded
  <1>3. ASSUME ctx[q].kind \in Alone PROVE FALSE
    <2>1. pc[r] = "idle" /\ pc[q] # "idle"
      BY <1>3, KindOf, KindsAssumption, NoneAssumption DEF OnlyAlone
    <2>2. Call(r)
      BY <2>1 DEF Step, AcquireFirst, AcquireSecond, GetOpenBill, InsertBill, OrderSave,
         OrderCommit, JoinSave, CloseReread, CloseSave, MoveCheck, MoveSave, MergeSave, MergeSum,
         MergeCommit, SplitSave, SplitSumFrom, SplitSumInto, SplitCommit, StatusSave, RecalcRead,
         RecalcSum, RecalcSave, At, Fail, BreakDeadlock
    <2>3. PICK k \in Kinds, label \in Labels, c \in Ctx : Start(r, k, c, label)
      BY <2>2, CallLoaded DEF Starts
    <2>4. QED
      BY <1>3, <2>1, <2>3, Started DEF Begun
  <1>4. CASE ctx[q].kind \in Shared
    <2>1. pc[q] # "idle"
      BY <1>4, KindOf, NoneAssumption DEF Shared, AllKinds
    <2>2. ctx[r].kind \notin Alone
      BY <2>1 DEF OnlyAlone
    <2>3. ctx[r].kind \notin {"move", "merge", "split", "status"}
      BY <2>2, NoneAssumption DEF ReadersAlone, OnlyAlone, AllKinds
    <2>4. Undisturbed(q)
      <3>1. CASE UNCHANGED <<bills, orders>>
        <4>1. {o \in Billable' : orders'[o].bill = ctx[q].into} = OnBill(ctx[q].into)
          BY <3>1 DEF OnBill, Billable
        <4>2. pc[q] = "orderCommit" => orders[ctx[q].order].state = "none"
          BY KindOf DEF KindsAt, Loaded, OrderLocals, Orderers
        <4>3. QED
          BY <3>1, <4>1, <4>2 DEF Undisturbed
      <3>2. CASE OrderCommit(r) \/ JoinSave(r) \/ CloseSave(r)
        BY <1>4, <3>2, OrderCommitApart, JoinSaveApart, CloseSaveApart
      <3>3. ~(MoveSave(r) \/ MergeCommit(r) \/ SplitCommit(r) \/ StatusSave(r) \/ RecalcSave(r))
        BY <2>3, KindOf DEF MoveSave, MergeCommit, SplitCommit, StatusSave, RecalcSave, At, KindsAt
      <3>4. OrderCommit(r) \/ JoinSave(r) \/ CloseSave(r) \/ UNCHANGED <<bills, orders>>
        BY <3>3, StepKeepsRows
      <3>5. QED
        BY <3>1, <3>2, <3>4
    <2>5. \A t \in Table : lock[t] = q => lock'[t] = q
      BY LocksKept
    <2>6. CASE ctx[q].kind \in Orderers
      <3>1. ctx[q].at \in Table
        BY <2>6 DEF LocalsSet, LocalsOf, Orderers
      <3>2. pc[q] \in {"orderSave", "orderCommit"} => IntoLoaded(q)'
        BY <1>1, <2>4, <2>6 DEF Undisturbed, Loaded, OrderLocals, IntoLoaded
      <3>3. ASSUME pc[q] = "orderCommit"
            PROVE  /\ orders'[ctx[q].order].state = "none"
                   /\ \A p \in Request \ {q} : ctx'[p].order # ctx[q].order
                   /\ ctx[q].sumInto = Total(OnBill(ctx[q].into)' \cup {ctx[q].order})
        <4>1. /\ orders[ctx[q].order].state = "none" /\ ctx[q].order \in Order
              /\ \A p \in Request \ {q} : ctx[p].order # ctx[q].order
              /\ ctx[q].sumInto = Total(OnBill(ctx[q].into) \cup {ctx[q].order})
          BY <2>6, <3>3 DEF Loaded, OrderLocals, LocalsSet, LocalsOf
        <4>2. ctx'[r].order # ctx[q].order
          BY <4>1, OrderIdsApart
        <4>3. \A p \in Request \ {q} : ctx'[p].order # ctx[q].order
          BY <4>1, <4>2 DEF StepLocals, CtxEffect
        <4>4. OnBill(ctx[q].into)' = OnBill(ctx[q].into)
          BY <1>1, <2>4, <3>3 DEF Undisturbed, OnBill
        <4>5. QED
          BY <1>1, <2>4, <3>3, <4>1, <4>3, <4>4 DEF Undisturbed
      <3>4. OrderLocals(q)'
        BY <1>1, <2>5, <2>6, <3>1, <3>2, <3>3 DEF Loaded, OrderLocals
      <3>5. QED
        BY <1>1, <2>6, <3>4 DEF Loaded, Orderers, JoinLocals, CloseLocals, MoveLocals,
           MergeLocals, SplitLocals, StatusLocals
    <2>7. CASE ctx[q].kind = "join"
      BY <1>1, <2>7 DEF Loaded, OrderLocals, Orderers, JoinLocals, CloseLocals, MoveLocals,
         MergeLocals, SplitLocals, StatusLocals
    <2>8. CASE ctx[q].kind = "close"
      <3>1. ctx[q].first \in Table
        BY <2>8 DEF Loaded, CloseLocals, LocalsSet, LocalsOf, RowsRefer
      <3>2. CloseLocals(q)'
        BY <1>1, <2>4, <2>5, <2>8, <3>1 DEF Loaded, CloseLocals, Undisturbed
      <3>3. QED
        BY <1>1, <2>8, <3>2 DEF Loaded, OrderLocals, Orderers, JoinLocals, MoveLocals,
           MergeLocals, SplitLocals, StatusLocals
    <2>9. QED
      BY <1>4, <2>6, <2>7, <2>8 DEF Shared, Orderers
  <1>5. ctx[q].kind \in Alone \cup Shared \cup {None}
    <2>1. ctx[q].kind # "logout"
      BY KindOf, NoneAssumption DEF KindsAt, AllKinds, TypeOK, Labels
    <2>2. QED
      BY <2>1, KindsAssumption DEF OnlyAlone, ReadersAlone, Shared, AllKinds
  <1>6. QED
    BY <1>2, <1>3, <1>4, <1>5

\* A request beside one that runs alone makes no step, and none starts beside one.
LEMMA OnlyAloneStep ==
  ASSUME IInv, OnlyAlone, NEW r \in Request, StepLocals(r),
         Call(r) \/ Step(r) \/ Fail(r) \/ BreakDeadlock(r)
  PROVE  OnlyAlone'
  <1> USE DEF IInv
  <1>1. \A q \in Request \ {r} : ctx'[q] = ctx[q] /\ pc'[q] = pc[q]
    BY DEF StepLocals, CtxEffect
  <1>2. CASE Call(r)
    <2>1. PICK k \in Kinds, label \in Labels, c \in Ctx : Start(r, k, c, label)
      BY <1>2, CallLoaded DEF Starts
    <2>2. Begun(r, k, c, label)
      BY <2>1, Started
    <2>3. QED
      BY <1>1, <2>2, KindOf, KindsAssumption, NoneAssumption DEF Begun, OnlyAlone
  <1>3. CASE ~Call(r)
    <2>1. pc[r] # "idle"
      BY <1>3 DEF Step, AcquireFirst, AcquireSecond, GetOpenBill, InsertBill, OrderSave,
         OrderCommit, JoinSave, CloseReread, CloseSave, MoveCheck, MoveSave, MergeSave, MergeSum,
         MergeCommit, SplitSave, SplitSumFrom, SplitSumInto, SplitCommit, StatusSave, RecalcRead,
         RecalcSum, RecalcSave, At, Fail, BreakDeadlock
    <2>2. ctx'[r].kind \in {ctx[r].kind, None}
      BY <1>3, StepKeepsKind
    <2>3. QED
      BY <1>1, <2>1, <2>2, KindsAssumption, NoneAssumption DEF OnlyAlone
  <1>4. QED
    BY <1>2, <1>3

-----------------------------------------------------------------------------
(* Every step is a step of the ledger.                                     *)

\* The row of the receiving bill before the orders come to it.
Receiving(r) ==
    IF ctx[r].fresh THEN [state |-> "open", table |-> ctx[r].at, subtotal |-> Nothing]
    ELSE bills[ctx[r].into]

\* The save that is skipped when the sum equals the loaded subtotal writes
\* what is there: the receiving bill gets the sum in both cases.
LEMMA IntoRowExact ==
  ASSUME TypeOK, NEW r \in Request, ctx[r].into \in Bill,
         Receiving(r).subtotal = ctx[r].seenInto
  PROVE  IntoRow(r) = [Receiving(r) EXCEPT !.subtotal = ctx[r].sumInto]
  <1> DEFINE row == Receiving(r)
  <1>1. IntoRow(r) = [row EXCEPT !.subtotal = IF ctx[r].sumInto = ctx[r].seenInto
                                              THEN row.subtotal ELSE ctx[r].sumInto]
    BY DEF IntoRow, Receiving
  <1> HIDE DEF row
  <1>2. row.subtotal = ctx[r].seenInto
    BY DEF row
  <1>3. QED
    BY <1>1, <1>2 DEF row

\* The receiving bill is the ledger's bill of that table, opened now or before.
LEMMA ReceivingIs ==
  ASSUME TypeOK, InsertsReserved, NEW r \in Request, NEW b \in Bill, NEW t,
         ctx[r].into = b, ctx[r].at = t, IntoLoaded(r)
  PROVE  /\ Ledger!BillFor(b, t)
         /\ Receiving(r) = Ledger!Opened(b, t)
         /\ Receiving(r).subtotal = ctx[r].seenInto
         /\ IntoRow(r) = [Ledger!Opened(b, t) EXCEPT !.subtotal = ctx[r].sumInto]
  <1>1. Ledger!BillFor(b, t)
    BY DEF Ledger!BillFor, Ledger!OpenAt, IntoLoaded, InsertsReserved, OpenBills
  <1>2. Receiving(r) = Ledger!Opened(b, t)
    BY DEF Receiving, Ledger!Opened, IntoLoaded, InsertsReserved, Nothing
  <1>3. Receiving(r).subtotal = ctx[r].seenInto
    BY DEF Receiving, IntoLoaded
  <1>4. QED
    BY <1>1, <1>2, <1>3, IntoRowExact

\* The ledger asks of a bill what the handlers ask of it.
LEMMA DueIs ==
  ASSUME NEW b
  PROVE  /\ Ledger!Due(b) = Total(OnBill(b))
         /\ Ledger!Due(b)' = Total({o \in Billable' : orders'[o].bill = b})
  <1>1. {o \in Ledger!On(b) : orders[o].state = "live" /\ orders[o].charged} = OnBill(b)
    BY DEF Ledger!On, OnBill, Billable
  <1>2. {o \in Ledger!On(b)' : orders'[o].state = "live" /\ orders'[o].charged}
           = {o \in Billable' : orders'[o].bill = b}
    BY DEF Ledger!On, Billable
  <1>3. QED
    BY <1>1, <1>2 DEF Ledger!Due

\* CreateOrder and CreateAdminOrder commit as the ledger places an order.
LEMMA OrderIsPlaced ==
  ASSUME IInv, NEW r \in Request, Loaded(r), OrderCommit(r),
         NEW o, NEW b, NEW t, NEW s,
         o = ctx[r].order, b = ctx[r].into, t = ctx[r].at, s = ctx[r].session
  PROVE  /\ o \in Order /\ b \in Bill /\ t \in Table /\ s \in Session \cup {None}
         /\ Ledger!PlaceOrder(o, b, t, s)
  <1> USE DEF IInv
  <1>1. /\ pc[r] = "orderCommit" /\ ctx[r].kind \in Orderers
        /\ b \in Bill /\ o \in Order /\ t \in Table /\ s \in Session \cup {None}
        /\ bills' = [bills EXCEPT ![b] = IntoRow(r)]
        /\ orders' = [orders EXCEPT ![o] = [state |-> "live", charged |-> TRUE, table |-> t,
                                            bill |-> b, session |-> s]]
    BY KindOf, CtxType DEF OrderCommit, At, LocalsSet, LocalsOf, AfterInsert, KindsAt, Orderers
  <1>2. /\ IntoLoaded(r) /\ orders[o].state = "none"
        /\ ctx[r].sumInto = Total(OnBill(b) \cup {o})
    BY <1>1 DEF Loaded, OrderLocals
  <1>3. {p \in Billable' : orders'[p].bill = b} = OnBill(b) \cup {o}
    BY <1>1, <1>2 DEF OnBill, Billable, TypeOK
  <1>4. Ledger!Due(b)' = ctx[r].sumInto
    BY <1>2, <1>3, DueIs
  <1>5. /\ Ledger!BillFor(b, t)
        /\ IntoRow(r) = [Ledger!Opened(b, t) EXCEPT !.subtotal = Ledger!Due(b)']
    BY <1>1, <1>2, <1>4, ReceivingIs
  <1>6. QED
    BY <1>1, <1>2, <1>5 DEF Ledger!PlaceOrder

\* A scan opens a bill at a table that has none, or changes no bill.
LEMMA JoinOpens ==
  ASSUME IInv, NEW r \in Request, Loaded(r), JoinSave(r), NEW b, NEW t,
         b = ctx[r].into, t = ctx[r].at
  PROVE  UNCHANGED <<bills, orders>> \/ (b \in Bill /\ t \in Table /\ Ledger!OpenBill(b, t))
  <1> USE DEF IInv
  <1>1. /\ b \in Bill /\ t \in Table /\ UNCHANGED orders /\ ctx[r].kind = "join"
        /\ UNCHANGED bills \/ (ctx[r].fresh /\ bills' = [bills EXCEPT ![b] = IntoRow(r)])
    BY KindOf DEF JoinSave, At, LocalsSet, LocalsOf, AfterInsert, KindsAt, RollBack, data
  <1>2. CASE ctx[r].fresh
    <2>1. ctx[r].sumInto = Nothing /\ IntoLoaded(r)
      BY <1>1, <1>2 DEF Loaded, JoinLocals, IntoLoaded
    <2>2. /\ IntoRow(r) = [Ledger!Opened(b, t) EXCEPT !.subtotal = Nothing]
          /\ bills[b].state = "none" /\ Ledger!OpenAt(t) = {}
      BY <1>1, <1>2, <2>1, ReceivingIs DEF InsertsReserved, OpenBills, Ledger!OpenAt
    <2>3. IntoRow(r) = Ledger!Opened(b, t)
      BY <2>2 DEF Ledger!Opened, Nothing
    <2>4. QED
      BY <1>1, <2>2, <2>3 DEF Ledger!OpenBill
  <1>3. QED
    BY <1>1, <1>2

\* CloseBill closes a bill that is still open.
LEMMA CloseCloses ==
  ASSUME IInv, NEW r \in Request, Loaded(r), CloseSave(r), NEW b, b = ctx[r].bill
  PROVE  b \in Bill /\ Ledger!CloseBill(b)
  BY KindOf DEF IInv, CloseSave, At, KindsAt, LocalsSet, LocalsOf, Loaded, CloseLocals,
     Ledger!CloseBill

\* MoveBill takes the bill with all orders that are on it to a free table.
LEMMA MoveMoves ==
  ASSUME IInv, NEW r \in Request, Loaded(r), MoveSave(r), NEW b, NEW t,
         b = ctx[r].bill, t = ctx[r].second
  PROVE  UNCHANGED <<bills, orders>> \/ (b \in Bill /\ t \in Table /\ Ledger!MoveBill(b, t))
  <1> USE DEF IInv
  <1>1. /\ b \in Bill /\ t \in Table /\ bills[b].state = "open"
        /\ bills[b].table # t /\ ctx[r].orders = OrdersOf(b)
    BY KindOf DEF MoveSave, At, KindsAt, LocalsSet, LocalsOf, Loaded, MoveLocals
  <1>2. CASE OpenBills(t) \ {b} # {}
    BY <1>1, <1>2 DEF MoveSave, RollBack, data
  <1>3. CASE OpenBills(t) \ {b} = {}
    <2>1. /\ bills' = [bills EXCEPT ![b].table = t]
          /\ orders' = [o \in Order |-> IF o \in ctx[r].orders
                                        THEN [orders[o] EXCEPT !.table = t] ELSE orders[o]]
      BY <1>3 DEF MoveSave
    <2>2. Ledger!OpenAt(t) = {}
      BY <1>1, <1>3 DEF OpenBills, Ledger!OpenAt
    <2>3. ctx[r].orders = Ledger!On(b)
      BY <1>1 DEF OrdersOf, Ledger!On
    <2>4. QED
      BY <1>1, <2>1, <2>2, <2>3 DEF Ledger!MoveBill
  <1>4. QED
    BY <1>2, <1>3

\* Where an order is after it went to another bill or table, or did not.
LEMMA RehomedOrder ==
  ASSUME TypeOK, NEW os, NEW b, NEW t, orders' = Ledger!Rehomed(os, b, t), NEW o \in Order
  PROVE  /\ o \in os => orders'[o].bill = b /\ orders'[o].table = t
         /\ o \notin os => orders'[o] = orders[o]
         /\ orders'[o].state = orders[o].state /\ orders'[o].charged = orders[o].charged
  <1>1. orders[o] \in OrderRow
    BY DEF TypeOK
  <1>2. orders'[o] = IF o \in os THEN [orders[o] EXCEPT !.bill = b, !.table = t] ELSE orders[o]
    BY DEF Ledger!Rehomed
  <1>3. QED
    BY <1>1, <1>2 DEF OrderRow

\* MergeBill leaves the receiving bill with the sum of both and the source
\* closed with nothing.
LEMMA MergeMerges ==
  ASSUME IInv, NEW r \in Request, Loaded(r), MergeCommit(r), NEW dst, NEW src,
         dst = ctx[r].into, src = ctx[r].bill
  PROVE  dst \in Bill /\ src \in Bill /\ Ledger!MergeBill(dst, src)
  <1> USE DEF IInv
  <1>1. /\ dst \in Bill /\ src \in Bill /\ dst # src /\ ctx[r].kind = "merge"
        /\ bills[src].state = "open" /\ bills[dst].state = "open"
        /\ ctx[r].first = bills[dst].table /\ ctx[r].orders = OrdersOf(src)
        /\ ctx[r].seen = bills[src].subtotal /\ ctx[r].seenInto = bills[dst].subtotal
        /\ ctx[r].sumInto = Total(ChargedTo(r, dst)) /\ ~ctx[r].fresh
    BY KindOf DEF MergeCommit, At, KindsAt, LocalsSet, LocalsOf, Loaded, MergeLocals,
       InsertsReserved, AfterInsert
  <1>2. /\ ctx[r].orders = Ledger!On(src) /\ ctx[r].orders \in SUBSET Order
        /\ orders' = Ledger!Rehomed(ctx[r].orders, dst, bills[dst].table)
    BY <1>1 DEF OrdersOf, Ledger!On, MergeCommit, Rehomed, Ledger!Rehomed
  <1>3. IntoRow(r) = [bills[dst] EXCEPT !.subtotal = ctx[r].sumInto]
    BY <1>1, IntoRowExact DEF Receiving
  <1>4. Recalculated(src, ctx[r].seen, Nothing) = Nothing
    BY <1>1 DEF Recalculated
  <1>5. ASSUME NEW b PROVE {o \in Billable' : orders'[o].bill = b} = ChargedTo(r, b)
    BY <1>2 DEF Ledger!Rehomed, ChargedTo, Billable, TypeOK, OrderRow
  <1>6. Ledger!Due(dst)' = ctx[r].sumInto
    BY <1>1, <1>5, DueIs
  <1>7. bills' = [bills EXCEPT ![dst] = IntoRow(r), ![src].state = "closed",
                               ![src].subtotal = Nothing]
    BY <1>4 DEF MergeCommit
  <1>8. bills' = [bills EXCEPT ![dst].subtotal = Ledger!Due(dst)', ![src].state = "closed",
                               ![src].subtotal = Total({})]
    BY <1>1, <1>3, <1>6, <1>7 DEF Nothing, TypeOK
  <1>9. QED
    BY <1>1, <1>2, <1>8 DEF Ledger!MergeBill

\* SplitBill leaves both bills with the sum of what is on them.
LEMMA SplitSplits ==
  ASSUME IInv, NEW r \in Request, Loaded(r), SplitCommit(r), NEW src, NEW os, NEW dst, NEW t,
         src = ctx[r].bill, os = ctx[r].orders, dst = ctx[r].into, t = ctx[r].second
  PROVE  /\ src \in Bill /\ os \in SUBSET Order /\ dst \in Bill /\ t \in Table
         /\ Ledger!SplitBill(src, os, dst, t)
  <1> USE DEF IInv
  <1>1. /\ src \in Bill /\ os \in SUBSET Order /\ dst \in Bill /\ t \in Table
        /\ bills[src].state = "open" /\ bills[src].table = ctx[r].first /\ ctx[r].at = t
        /\ os # {} /\ os \subseteq OrdersOf(src) /\ ctx[r].seen = bills[src].subtotal
        /\ IntoLoaded(r) /\ ctx[r].sum = Total(ChargedTo(r, src))
        /\ ctx[r].sumInto = Total(ChargedTo(r, dst))
    BY KindOf, CtxType DEF SplitCommit, At, KindsAt, LocalsSet, LocalsOf, Loaded, SplitLocals,
       AfterInsert
  <1>2. /\ Ledger!BillFor(dst, t)
        /\ IntoRow(r) = [Ledger!Opened(dst, t) EXCEPT !.subtotal = ctx[r].sumInto]
    BY <1>1, ReceivingIs
  <1>3. dst = src => ctx[r].first = t
    BY <1>1 DEF IntoLoaded, InsertsReserved
  <1>4. orders' = Ledger!Rehomed(os, dst, t)
    BY <1>1, <1>3 DEF SplitCommit, Rehomed, Ledger!Rehomed
  <1>5. ASSUME NEW b PROVE {o \in Billable' : orders'[o].bill = b} = ChargedTo(r, b)
    <2>1. \A o \in Order : /\ orders'[o].bill = (IF o \in os THEN dst ELSE orders[o].bill)
                            /\ orders'[o].state = orders[o].state /\ orders'[o].charged = orders[o].charged
      BY <1>4, RehomedOrder
    <2>2. QED
      BY <1>1, <2>1 DEF ChargedTo, Billable
  <1>6. Ledger!Due(dst)' = ctx[r].sumInto /\ Ledger!Due(src)' = ctx[r].sum
    BY <1>1, <1>5, DueIs
  <1>7. Recalculated(src, ctx[r].seen, ctx[r].sum) = ctx[r].sum
    BY <1>1 DEF Recalculated
  <1>8. bills' = [bills EXCEPT ![src].subtotal = Ledger!Due(src)',
                               ![dst] = [Ledger!Opened(dst, t) EXCEPT !.subtotal = Ledger!Due(dst)']]
    <2>1. bills' = IF dst = src THEN [bills EXCEPT ![dst] = IntoRow(r)]
                   ELSE [bills EXCEPT ![src].subtotal = ctx[r].sum, ![dst] = IntoRow(r)]
      BY <1>7 DEF SplitCommit
    <2>2. IntoRow(r) = [Ledger!Opened(dst, t) EXCEPT !.subtotal = Ledger!Due(dst)']
      BY <1>2, <1>6
    <2>3. QED
      BY <1>1, <1>6, <2>1, <2>2 DEF TypeOK
  <1>9. QED
    BY <1>1, <1>2, <1>4, <1>8 DEF Ledger!SplitBill, OrdersOf, Ledger!On

\* The two steps of UpdateOrderStatus.
LEMMA StatusCancels ==
  ASSUME IInv, NEW r \in Request, Loaded(r), StatusSave(r), NEW o, o = ctx[r].order
  PROVE  /\ o \in Order /\ orders[o].bill = ctx[r].into
         /\ UNCHANGED <<bills, orders>> \/ Ledger!CancelOrder(o)
  <1> USE DEF IInv
  <1>1. /\ o \in Order /\ orders[o].state = "live" /\ orders[o].bill = ctx[r].into
        /\ orders[o].charged \in BOOLEAN /\ ctx[r].status \in {"live", "cancelled"}
        /\ UNCHANGED bills
        /\ orders' = [orders EXCEPT ![o].state = ctx[r].status,
                                    ![o].charged = @ /\ ctx[r].status = "live"]
    BY KindOf, CtxType, OrderType DEF StatusSave, At, KindsAt, LocalsSet, LocalsOf, Loaded,
       StatusLocals
  <1>2. CASE ctx[r].status = "live"
    <2>1. orders[o].charged /\ ctx[r].status = "live" <=> orders[o].charged
      BY <1>2
    <2>2. (orders[o].charged /\ ctx[r].status = "live") = orders[o].charged
      BY <1>1, <2>1
    <2>3. orders' = [orders EXCEPT ![o].state = "live", ![o].charged = orders[o].charged]
      BY <1>1, <1>2, <2>2 DEF TypeOK, OrderRow
    <2>4. orders' = orders
      BY <1>1, <2>3 DEF TypeOK, OrderRow
    <2>5. QED
      BY <1>1, <2>4
  <1>3. CASE ctx[r].status = "cancelled"
    BY <1>1, <1>3 DEF Ledger!CancelOrder
  <1>4. QED
    BY <1>1, <1>2, <1>3

\* The second step writes what the bill is due.
LEMMA StatusRecalculates ==
  ASSUME IInv, NEW r \in Request, Loaded(r), RecalcSave(r), NEW b, b = ctx[r].into
  PROVE  b \in Bill /\ Ledger!Recalculate(b)
  <1> USE DEF IInv
  <1>1. /\ b \in Bill /\ bills[b].state # "none" /\ ~ctx[r].fresh
        /\ ctx[r].seenInto = bills[b].subtotal /\ ctx[r].sumInto = Total(OnBill(b))
        /\ bills' = [bills EXCEPT ![b] = IntoRow(r)] /\ UNCHANGED orders
    BY KindOf DEF RecalcSave, At, KindsAt, LocalsSet, LocalsOf, Loaded, StatusLocals,
       InsertsReserved, AfterInsert
  <1>2. IntoRow(r) = [bills[b] EXCEPT !.subtotal = Ledger!Due(b)]
    BY <1>1, IntoRowExact, DueIs DEF Receiving
  <1>3. QED
    BY <1>1, <1>2 DEF Ledger!Recalculate, TypeOK

\* What a step of request r does to bills and orders: nothing, or one
\* operation of the ledger.
LedgerStep(r) ==
    \/ UNCHANGED <<bills, orders>>
    \/ \E b \in Bill, t \in Table : Ledger!OpenBill(b, t) \/ Ledger!MoveBill(b, t)
    \/ \E o \in Order, b \in Bill, t \in Table, s \in Session \cup {None} :
          Ledger!PlaceOrder(o, b, t, s)
    \/ \E b \in Bill : Ledger!CloseBill(b)
    \/ \E dst, src \in Bill : Ledger!MergeBill(dst, src)
    \/ \E src, dst \in Bill, os \in SUBSET Order, t \in Table : Ledger!SplitBill(src, os, dst, t)
    \/ /\ pc[r] = "statusSave"
       /\ \E o \in Order : orders[o].bill = ctx[r].into /\ Ledger!CancelOrder(o)
    \/ /\ pc[r] = "recalcSave"
       /\ \E b \in Bill : b = ctx[r].into /\ Ledger!Recalculate(b)

\* Every step of a handler is one step of the ledger or none.
LEMMA StepOfLedger ==
  ASSUME IInv, NEW r \in Request, Loaded(r), Call(r) \/ Step(r) \/ Fail(r) \/ BreakDeadlock(r)
  PROVE  LedgerStep(r)
  <1>1. PICK o, b, t, s, src, second, os :
           /\ o = ctx[r].order /\ b = ctx[r].into /\ t = ctx[r].at /\ s = ctx[r].session
           /\ src = ctx[r].bill /\ second = ctx[r].second /\ os = ctx[r].orders
    OBVIOUS
  <1>2. CASE OrderCommit(r)
    BY <1>1, <1>2, OrderIsPlaced DEF LedgerStep
  <1>3. CASE JoinSave(r)
    BY <1>1, <1>3, JoinOpens DEF LedgerStep
  <1>4. CASE CloseSave(r)
    BY <1>1, <1>4, CloseCloses DEF LedgerStep
  <1>5. CASE MoveSave(r)
    BY <1>1, <1>5, MoveMoves DEF LedgerStep
  <1>6. CASE MergeCommit(r)
    BY <1>1, <1>6, MergeMerges DEF LedgerStep
  <1>7. CASE SplitCommit(r)
    BY <1>1, <1>7, SplitSplits DEF LedgerStep
  <1>8. CASE StatusSave(r)
    BY <1>1, <1>8, StatusCancels DEF LedgerStep, StatusSave, At
  <1>9. CASE RecalcSave(r)
    BY <1>1, <1>9, StatusRecalculates DEF LedgerStep, RecalcSave, At
  <1>10. QED
    BY <1>2, <1>3, <1>4, <1>5, <1>6, <1>7, <1>8, <1>9, StepKeepsRows DEF LedgerStep

-----------------------------------------------------------------------------
(* The invariant, and that it is inductive.                                *)

LedgerInv == IInv /\ SerialInv

\* What the handlers know is about bills, orders, locks and locals.
LEMMA SerialKept ==
  ASSUME SerialInv, UNCHANGED <<bills, orders, lock, pc, ctx>> PROVE SerialInv'
  <1>1. OnlyAlone'
    BY DEF SerialInv, OnlyAlone
  <1>2. ASSUME NEW r \in Request PROVE Loaded(r)'
    <2>1. /\ OnBill(ctx[r].into)' = OnBill(ctx[r].into)
          /\ ChargedTo(r, ctx[r].into)' = ChargedTo(r, ctx[r].into)
          /\ ChargedTo(r, ctx[r].bill)' = ChargedTo(r, ctx[r].bill)
          /\ OrdersOf(ctx[r].bill)' = OrdersOf(ctx[r].bill)
      BY DEF OnBill, Billable, ChargedTo, OrdersOf
    <2>2. IntoLoaded(r) <=> IntoLoaded(r)'
      BY DEF IntoLoaded
    <2>3. OrderLocals(r)' /\ JoinLocals(r)' /\ CloseLocals(r)'
      <3>1. OnBill(ctx[r].into)' \cup {ctx'[r].order} = OnBill(ctx[r].into) \cup {ctx[r].order}
        BY <2>1
      <3>2. OrderLocals(r)'
        BY <2>2, <3>1 DEF SerialInv, Loaded, OrderLocals
      <3>3. JoinLocals(r)' /\ CloseLocals(r)'
        BY DEF SerialInv, Loaded, JoinLocals, CloseLocals
      <3>4. QED
        BY <3>2, <3>3
    <2>4. MoveLocals(r)' /\ MergeLocals(r)'
      BY <2>1 DEF SerialInv, Loaded, MoveLocals, MergeLocals
    <2>5. SplitLocals(r)' /\ StatusLocals(r)'
      BY <2>1, <2>2 DEF SerialInv, Loaded, SplitLocals, StatusLocals
    <2>6. QED
      BY <2>3, <2>4, <2>5 DEF Loaded
  <1>3. QED
    BY <1>1, <1>2 DEF SerialInv

\* At the start no request knows anything.
LEMMA LedgerInit == Init => LedgerInv
  <1> SUFFICES ASSUME Init PROVE LedgerInv
    OBVIOUS
  <1>1. \A r \in Request : ctx[r].kind = None
    BY DEF Init, NoCtx
  <1>2. \A r \in Request : Loaded(r)
    BY <1>1, NoneAssumption DEF AllKinds, Loaded, OrderLocals, Orderers, JoinLocals, CloseLocals,
       MoveLocals, MergeLocals, SplitLocals, StatusLocals
  <1>3. OnlyAlone
    BY <1>1, KindsAssumption, NoneAssumption DEF OnlyAlone
  <1>4. QED
    BY <1>2, <1>3, InitInv DEF LedgerInv, SerialInv

\* Every step of the API keeps what the handlers know.
LEMMA LedgerNext ==
  ASSUME ReadersAlone, LedgerInv, [Next]_vars PROVE LedgerInv'
  <1> USE DEF LedgerInv
  <1>1. IInv'
    BY NextInv
  <1>2. ASSUME NEW r \in Request, Call(r) \/ Step(r) \/ Fail(r) \/ BreakDeadlock(r)
        PROVE  SerialInv'
    <2>1. StepLocals(r)
      BY <1>2, LocalsStep DEF IInv
    <2>2. Loaded(r)'
      BY <1>2, OwnStepLoaded DEF SerialInv
    <2>3. ASSUME NEW q \in Request \ {r} PROVE Loaded(q)'
      BY <1>2, <2>1, OthersLoaded DEF SerialInv
    <2>4. OnlyAlone'
      BY <1>2, <2>1, OnlyAloneStep DEF SerialInv
    <2>5. QED
      BY <2>2, <2>3, <2>4 DEF SerialInv
  <1>3. ASSUME NEW s \in Session, LogoutCustomerSession(s) PROVE SerialInv'
    BY <1>3, SerialKept DEF LogoutCustomerSession
  <1>4. CASE UNCHANGED vars
    BY <1>1, <1>4, SerialKept DEF vars, data
  <1>5. QED
    BY <1>1, <1>2, <1>3, <1>4 DEF Next

\* A step of the whole system is a step of the ledger, made by some request, or none.
LEMMA NextOfLedger ==
  ASSUME LedgerInv, [Next]_vars
  PROVE  UNCHANGED <<bills, orders>> \/ \E r \in Request : LedgerStep(r)
  BY StepOfLedger DEF LedgerInv, SerialInv, Next, LogoutCustomerSession, vars, data

-----------------------------------------------------------------------------
(* What a step of the ledger means for bills and orders.                   *)

\* No operation of the ledger touches a closed bill but the recalculation.
LEMMA LedgerFreezes ==
  ASSUME TypeOK, NEW r \in Request, LedgerStep(r), NEW b \in Bill, bills[b].state = "closed"
  PROVE  /\ OrdersOf(b)' = OrdersOf(b)
         /\ bills'[b].subtotal = bills[b].subtotal \/ (pc[r] = "recalcSave" /\ ctx[r].into = b)
  <1>1. CASE UNCHANGED <<bills, orders>>
    BY <1>1 DEF OrdersOf
  <1>2. CASE \E c \in Bill, t \in Table : Ledger!OpenBill(c, t)
    BY <1>2 DEF Ledger!OpenBill, OrdersOf, TypeOK
  <1>3. ASSUME NEW c \in Bill, NEW t \in Table, Ledger!MoveBill(c, t)
        PROVE  OrdersOf(b)' = OrdersOf(b) /\ bills'[b].subtotal = bills[b].subtotal
    BY <1>3 DEF Ledger!MoveBill, OrdersOf, TypeOK, OrderRow
  <1>4. ASSUME NEW o \in Order, NEW c \in Bill, NEW t \in Table, NEW s, Ledger!PlaceOrder(o, c, t, s)
        PROVE  OrdersOf(b)' = OrdersOf(b) /\ bills'[b].subtotal = bills[b].subtotal
    <2>1. b # c
      BY <1>4 DEF Ledger!PlaceOrder, Ledger!BillFor, Ledger!OpenAt
    <2>2. QED
      BY <1>4, <2>1 DEF Ledger!PlaceOrder, OrdersOf, TypeOK
  <1>5. ASSUME NEW c \in Bill, Ledger!CloseBill(c)
        PROVE  OrdersOf(b)' = OrdersOf(b) /\ bills'[b].subtotal = bills[b].subtotal
    BY <1>5 DEF Ledger!CloseBill, OrdersOf, TypeOK
  <1>6. ASSUME NEW dst \in Bill, NEW src \in Bill, Ledger!MergeBill(dst, src)
        PROVE  OrdersOf(b)' = OrdersOf(b) /\ bills'[b].subtotal = bills[b].subtotal
    <2>1. b # dst /\ b # src
      BY <1>6 DEF Ledger!MergeBill
    <2>2. OrdersOf(b)' = OrdersOf(b)
      <3>1. orders' = Ledger!Rehomed(Ledger!On(src), dst, bills[dst].table)
        BY <1>6 DEF Ledger!MergeBill
      <3>2. \A o \in Order : IF o \in Ledger!On(src) THEN orders[o].bill = src /\ orders'[o].bill = dst
                              ELSE orders'[o] = orders[o]
        BY <3>1, RehomedOrder DEF Ledger!On
      <3>3. QED
        BY <2>1, <3>2 DEF OrdersOf
    <2>3. QED
      BY <1>6, <2>1, <2>2 DEF Ledger!MergeBill, TypeOK
  <1>7. ASSUME NEW src \in Bill, NEW dst \in Bill, NEW os \in SUBSET Order, NEW t \in Table,
               Ledger!SplitBill(src, os, dst, t)
        PROVE  OrdersOf(b)' = OrdersOf(b) /\ bills'[b].subtotal = bills[b].subtotal
    <2>1. b # dst /\ b # src
      BY <1>7 DEF Ledger!SplitBill, Ledger!BillFor, Ledger!OpenAt
    <2>2. OrdersOf(b)' = OrdersOf(b)
      <3>1. orders' = Ledger!Rehomed(os, dst, t) /\ os \subseteq Ledger!On(src)
        BY <1>7 DEF Ledger!SplitBill
      <3>2. \A o \in Order : IF o \in os THEN orders[o].bill = src /\ orders'[o].bill = dst
                              ELSE orders'[o] = orders[o]
        BY <3>1, RehomedOrder DEF Ledger!On
      <3>3. QED
        BY <2>1, <3>2 DEF OrdersOf
    <2>3. QED
      BY <1>7, <2>1, <2>2 DEF Ledger!SplitBill, TypeOK
  <1>8. ASSUME NEW o \in Order, Ledger!CancelOrder(o)
        PROVE  OrdersOf(b)' = OrdersOf(b) /\ bills'[b].subtotal = bills[b].subtotal
    BY <1>8 DEF Ledger!CancelOrder, OrdersOf, TypeOK, OrderRow
  <1>9. ASSUME NEW c \in Bill, Ledger!Recalculate(c)
        PROVE  OrdersOf(b)' = OrdersOf(b) /\ (c # b => bills'[b].subtotal = bills[b].subtotal)
    BY <1>9 DEF Ledger!Recalculate, OrdersOf, TypeOK
  <1>10. QED
    BY <1>1, <1>2, <1>3, <1>4, <1>5, <1>6, <1>7, <1>8, <1>9 DEF LedgerStep

\* Every operation of the ledger leaves an order at the table of its open bill.
LEMMA LedgerSeatsOrders ==
  ASSUME TypeOK, RowsRefer, OrderAtItsBillsTable, NEW r \in Request, LedgerStep(r)
  PROVE  OrderAtItsBillsTable'
  <1> USE DEF OrderAtItsBillsTable, RowsRefer, TypeOK, OrderRow, BillRow
  <1>1. CASE UNCHANGED <<bills, orders>>
    BY <1>1
  <1>2. CASE \E c \in Bill, t \in Table : Ledger!OpenBill(c, t)
    BY <1>2 DEF Ledger!OpenBill
  <1>3. ASSUME NEW c \in Bill, NEW t \in Table, Ledger!MoveBill(c, t) PROVE OrderAtItsBillsTable'
    BY <1>3 DEF Ledger!MoveBill, Ledger!On
  <1>4. ASSUME NEW o \in Order, NEW c \in Bill, NEW t \in Table, NEW s, Ledger!PlaceOrder(o, c, t, s)
        PROVE  OrderAtItsBillsTable'
    <2>1. bills'[c].table = t /\ \A b \in Bill \ {c} : bills'[b] = bills[b]
      BY <1>4 DEF Ledger!PlaceOrder, Ledger!BillFor, Ledger!OpenAt, Ledger!Opened
    <2>2. \A p \in Order : p # o => orders'[p] = orders[p]
      BY <1>4 DEF Ledger!PlaceOrder
    <2>3. orders'[o].table = t /\ orders'[o].bill = c
      BY <1>4 DEF Ledger!PlaceOrder
    <2>4. bills[c].state # "none" => bills[c].state = "open" /\ bills[c].table = t
      BY <1>4 DEF Ledger!PlaceOrder, Ledger!BillFor, Ledger!OpenAt
    <2>5. QED
      BY <2>1, <2>2, <2>3, <2>4
  <1>5. ASSUME NEW c \in Bill, Ledger!CloseBill(c) PROVE OrderAtItsBillsTable'
    BY <1>5 DEF Ledger!CloseBill
  <1>6. ASSUME NEW dst \in Bill, NEW src \in Bill, Ledger!MergeBill(dst, src)
        PROVE  OrderAtItsBillsTable'
    <2>1. /\ bills[dst].state = "open" /\ bills'[src].state = "closed" /\ src # dst
          /\ \A b \in Bill \ {src} : /\ bills'[b].table = bills[b].table
                                    /\ bills'[b].state = bills[b].state
      BY <1>6 DEF Ledger!MergeBill
    <2>2. orders' = Ledger!Rehomed(Ledger!On(src), dst, bills[dst].table)
      BY <1>6 DEF Ledger!MergeBill
    <2>3. ASSUME NEW o \in Order, orders'[o].state # "none", bills'[orders'[o].bill].state = "open"
          PROVE  orders'[o].table = bills'[orders'[o].bill].table
      <3>1. CASE o \in Ledger!On(src)
        <4>1. orders'[o].bill = dst /\ orders'[o].table = bills[dst].table
          BY <2>2, <3>1, RehomedOrder
        <4>2. QED
          BY <2>1, <4>1
      <3>2. CASE o \notin Ledger!On(src)
        <4>1. orders'[o] = orders[o]
          BY <2>2, <3>2, RehomedOrder
        <4>2. orders[o].bill # src
          BY <3>2, <4>1, <2>3 DEF Ledger!On
        <4>3. QED
          BY <2>1, <2>3, <4>1, <4>2
      <3>3. QED
        BY <3>1, <3>2
    <2>4. QED
      BY <2>3
  <1>7. ASSUME NEW src \in Bill, NEW dst \in Bill, NEW os \in SUBSET Order, NEW t \in Table,
               Ledger!SplitBill(src, os, dst, t)
        PROVE  OrderAtItsBillsTable'
    <2>1. /\ bills'[dst].table = t
          /\ \A b \in Bill \ {dst} : bills'[b].table = bills[b].table /\ bills'[b].state = bills[b].state
      BY <1>7 DEF Ledger!SplitBill, Ledger!BillFor, Ledger!OpenAt, Ledger!Opened
    <2>2. orders' = Ledger!Rehomed(os, dst, t)
      BY <1>7 DEF Ledger!SplitBill
    <2>3. bills[dst].state # "none" => bills[dst].state = "open" /\ bills[dst].table = t
      BY <1>7 DEF Ledger!SplitBill, Ledger!BillFor, Ledger!OpenAt
    <2>4. ASSUME NEW o \in Order, orders'[o].state # "none", bills'[orders'[o].bill].state = "open"
          PROVE  orders'[o].table = bills'[orders'[o].bill].table
      <3>1. CASE o \in os
        <4>1. orders'[o].bill = dst /\ orders'[o].table = t
          BY <2>2, <3>1, RehomedOrder
        <4>2. QED
          BY <2>1, <4>1
      <3>2. CASE o \notin os
        <4>1. orders'[o] = orders[o]
          BY <2>2, <3>2, RehomedOrder
        <4>2. CASE orders[o].bill = dst
          BY <2>1, <2>3, <2>4, <4>1, <4>2
        <4>3. CASE orders[o].bill # dst
          BY <2>1, <2>4, <4>1, <4>3
        <4>4. QED
          BY <4>2, <4>3
      <3>3. QED
        BY <3>1, <3>2
    <2>5. QED
      BY <2>4
  <1>8. ASSUME NEW o \in Order, Ledger!CancelOrder(o) PROVE OrderAtItsBillsTable'
    BY <1>8 DEF Ledger!CancelOrder
  <1>9. ASSUME NEW c \in Bill, Ledger!Recalculate(c) PROVE OrderAtItsBillsTable'
    BY <1>9 DEF Ledger!Recalculate
  <1>10. QED
    BY <1>1, <1>2, <1>3, <1>4, <1>5, <1>6, <1>7, <1>8, <1>9 DEF LedgerStep

\* Orders, moves, merges, splits and recalculations leave a bill that asks for
\* the exact sum asking for it.
LEMMA LedgerKeepsExact ==
  ASSUME TypeOK, RowsRefer, NEW r \in Request, LedgerStep(r), NEW b \in Bill, Exact(b)
  PROVE  Exact(b)' \/ (pc[r] = "statusSave" /\ ctx[r].into = b)
  <1> DEFINE after == {o \in Billable' : orders'[o].bill = b}
  <1>1. Exact(b)' <=> bills'[b].subtotal = Total(after)
    BY DEF Exact
  <1>2. Ledger!Due(b)' = Total(after)
    BY DueIs
  <1>3. after = OnBill(b) /\ bills'[b].subtotal = bills[b].subtotal => Exact(b)'
    BY <1>1 DEF Exact, OnBill
  <1>4. bills'[b].subtotal = Ledger!Due(b)' => Exact(b)'
    BY <1>1, <1>2
  <1> HIDE DEF after
  <1>5. CASE UNCHANGED <<bills, orders>>
    BY <1>3, <1>5 DEF after, OnBill, Billable
  <1>6. ASSUME NEW c \in Bill, NEW t \in Table, Ledger!OpenBill(c, t) PROVE Exact(b)'
    <2>1. after = OnBill(b)
      BY <1>6 DEF Ledger!OpenBill, after, OnBill, Billable
    <2>2. c # b => bills'[b] = bills[b]
      BY <1>6 DEF Ledger!OpenBill
    <2>3. c = b => OnBill(b) = {} /\ bills'[b].subtotal = Total({})
      BY <1>6 DEF Ledger!OpenBill, Ledger!Opened, OnBill, Billable, RowsRefer, TypeOK
    <2>4. QED
      BY <1>1, <1>3, <2>1, <2>2, <2>3
  <1>7. ASSUME NEW c \in Bill, NEW t \in Table, Ledger!MoveBill(c, t) PROVE Exact(b)'
    <2>1. after = OnBill(b)
      BY <1>7 DEF Ledger!MoveBill, after, OnBill, Billable, TypeOK, OrderRow
    <2>2. bills'[b].subtotal = bills[b].subtotal
      BY <1>7 DEF Ledger!MoveBill, TypeOK
    <2>3. QED
      BY <1>3, <2>1, <2>2
  <1>8. ASSUME NEW o \in Order, NEW c \in Bill, NEW t \in Table, NEW s, Ledger!PlaceOrder(o, c, t, s)
        PROVE  Exact(b)'
    <2>1. CASE c = b
      <3>1. bills'[b] = [Ledger!Opened(b, t) EXCEPT !.subtotal = Ledger!Due(b)']
        BY <1>8, <2>1 DEF Ledger!PlaceOrder, TypeOK
      <3>2. bills'[b].subtotal = Ledger!Due(b)'
        BY <3>1 DEF Ledger!Opened, TypeOK, BillRow
      <3>3. QED
        BY <1>4, <3>2
    <2>2. CASE c # b
      <3>1. after = OnBill(b)
        BY <1>8, <2>2 DEF Ledger!PlaceOrder, after, OnBill, Billable, TypeOK
      <3>2. QED
        BY <1>3, <1>8, <2>2, <3>1 DEF Ledger!PlaceOrder, TypeOK
    <2>3. QED
      BY <2>1, <2>2
  <1>9. ASSUME NEW c \in Bill, Ledger!CloseBill(c) PROVE Exact(b)'
    <2>1. after = OnBill(b)
      BY <1>9 DEF Ledger!CloseBill, after, OnBill, Billable
    <2>2. QED
      BY <1>3, <1>9, <2>1 DEF Ledger!CloseBill, TypeOK
  <1>10. ASSUME NEW dst \in Bill, NEW src \in Bill, Ledger!MergeBill(dst, src) PROVE Exact(b)'
    <2>1. CASE b = dst
      BY <1>4, <1>10, <2>1 DEF Ledger!MergeBill, TypeOK, BillRow
    <2>2. CASE b = src
      <3>1. after = {}
        BY <1>10, <2>2 DEF Ledger!MergeBill, Ledger!Rehomed, Ledger!On, after, Billable, TypeOK, OrderRow
      <3>2. QED
        BY <1>1, <1>10, <2>2, <3>1 DEF Ledger!MergeBill, TypeOK, BillRow
    <2>3. CASE b # dst /\ b # src
      <3>1. orders' = Ledger!Rehomed(Ledger!On(src), dst, bills[dst].table)
        BY <1>10 DEF Ledger!MergeBill
      <3>2. \A o \in Order : o \in OnBill(b) => o \notin Ledger!On(src)
        BY <2>3 DEF OnBill, Billable, Ledger!On
      <3>3. \A o \in Order : IF o \in Ledger!On(src) THEN orders'[o].bill # b
                                                  ELSE orders'[o] = orders[o]
        BY <2>3, <3>1 DEF Ledger!Rehomed, TypeOK, OrderRow
      <3>4. after = OnBill(b)
        BY <3>2, <3>3 DEF after, OnBill, Billable
      <3>5. QED
        BY <1>3, <1>10, <2>3, <3>4 DEF Ledger!MergeBill, TypeOK
    <2>4. QED
      BY <2>1, <2>2, <2>3
  <1>11. ASSUME NEW src \in Bill, NEW dst \in Bill, NEW os \in SUBSET Order, NEW t \in Table,
                Ledger!SplitBill(src, os, dst, t)
         PROVE  Exact(b)'
    <2>1. CASE b = dst
      <3>1. bills'[b] = [Ledger!Opened(b, t) EXCEPT !.subtotal = Ledger!Due(b)']
        BY <1>11, <2>1 DEF Ledger!SplitBill, TypeOK
      <3>2. bills'[b].subtotal = Ledger!Due(b)'
        BY <3>1 DEF Ledger!Opened, TypeOK, BillRow
      <3>3. QED
        BY <1>4, <3>2
    <2>2. CASE b = src /\ b # dst
      BY <1>4, <1>11, <2>2 DEF Ledger!SplitBill, TypeOK, BillRow
    <2>3. CASE b # dst /\ b # src
      <3>1. orders' = Ledger!Rehomed(os, dst, t) /\ os \subseteq Ledger!On(src)
        BY <1>11 DEF Ledger!SplitBill
      <3>2. \A o \in Order : o \in OnBill(b) => o \notin os
        BY <2>3, <3>1 DEF OnBill, Billable, Ledger!On
      <3>3. \A o \in Order : IF o \in os THEN orders'[o].bill # b ELSE orders'[o] = orders[o]
        BY <2>3, <3>1 DEF Ledger!Rehomed, TypeOK, OrderRow
      <3>4. after = OnBill(b)
        BY <3>2, <3>3 DEF after, OnBill, Billable
      <3>5. QED
        BY <1>3, <1>11, <2>3, <3>4 DEF Ledger!SplitBill, TypeOK
    <2>4. QED
      BY <2>1, <2>2, <2>3
  <1>12. ASSUME NEW o \in Order, Ledger!CancelOrder(o), orders[o].bill # b PROVE Exact(b)'
    <2>1. after = OnBill(b)
      BY <1>12 DEF Ledger!CancelOrder, after, OnBill, Billable, TypeOK, OrderRow
    <2>2. QED
      BY <1>3, <1>12, <2>1 DEF Ledger!CancelOrder
  <1>13. ASSUME NEW c \in Bill, Ledger!Recalculate(c) PROVE Exact(b)'
    <2>1. after = OnBill(b)
      BY <1>13 DEF Ledger!Recalculate, after, OnBill, Billable
    <2>2. c = b => bills'[b].subtotal = Total(OnBill(b))
      BY <1>13, DueIs DEF Ledger!Recalculate, TypeOK, BillRow
    <2>3. QED
      BY <1>1, <1>3, <1>13, <2>1, <2>2 DEF Ledger!Recalculate, TypeOK
  <1>14. QED
    BY <1>5, <1>6, <1>7, <1>8, <1>9, <1>10, <1>11, <1>12, <1>13 DEF LedgerStep

-----------------------------------------------------------------------------
(* Sessions sit where a bill is open.                                      *)

\* A scan that is about to save its session has a bill for its table.
JoinReady(r) == pc[r] = "joinSave" => ctx[r].fresh \/ OpenBills(ctx[r].at) # {}

SeatInv == OpenSessionHasOpenBill /\ \A r \in Request : JoinReady(r)

\* An open bill stays open at its table.
KeepsOpen == \A b \in Bill : bills[b].state = "open" =>
                bills'[b].state = "open" /\ bills'[b].table = bills[b].table

\* As long as open bills stay, sessions keep theirs.
LEMMA KeptOpenSeats ==
  ASSUME OpenSessionHasOpenBill, KeepsOpen, UNCHANGED sessions PROVE OpenSessionHasOpenBill'
  BY DEF OpenSessionHasOpenBill, KeepsOpen, OpenBills

\* Each commit leaves every open session with an open bill.
LEMMA CommitSeats ==
  ASSUME LedgerInv, OpenSessionHasOpenBill, NEW r \in Request, JoinReady(r),
         \/ OrderCommit(r) \/ JoinSave(r) \/ CloseSave(r) \/ MoveSave(r) \/ MergeCommit(r)
         \/ SplitCommit(r) \/ StatusSave(r) \/ RecalcSave(r)
  PROVE  OpenSessionHasOpenBill'
  <1> USE DEF LedgerInv, IInv
  <1>1. /\ ctx[r].kind \in KindsAt(pc[r]) /\ LocalsOf(r) /\ Loaded(r)
        /\ ctx[r].fresh => bills[ctx[r].into].state = "none"
    BY KindOf DEF LocalsSet, SerialInv, InsertsReserved
  <1>2. CASE OrderCommit(r) \/ RecalcSave(r)
    <2>1. ctx[r].into \in Bill /\ bills' = [bills EXCEPT ![ctx[r].into] = IntoRow(r)]
      BY <1>1, <1>2 DEF OrderCommit, RecalcSave, At, KindsAt, LocalsOf, AfterInsert
    <2>2. KeepsOpen
      BY <1>1, <2>1, IntoRowIs DEF KeepsOpen, TypeOK
    <2>3. QED
      BY <1>2, <2>2, KeptOpenSeats DEF OrderCommit, RecalcSave
  <1>3. ASSUME JoinSave(r), NEW s \in FreshSessions,
               sessions' = [sessions EXCEPT ![s] = [state |-> "open", table |-> ctx[r].at]],
               bills' = IF ctx[r].fresh THEN [bills EXCEPT ![ctx[r].into] = IntoRow(r)] ELSE bills
        PROVE  OpenSessionHasOpenBill'
    <2>1. ctx[r].into \in Bill /\ pc[r] = "joinSave"
      BY <1>1, <1>3 DEF JoinSave, At, KindsAt, LocalsOf, AfterInsert
    <2>2. KeepsOpen
      BY <1>1, <1>3, <2>1 DEF KeepsOpen, TypeOK
    <2>3. \E b \in Bill : bills'[b].state = "open" /\ bills'[b].table = ctx[r].at
      <3>1. CASE ctx[r].fresh
        BY <1>3, <2>1, <3>1, IntoRowIs DEF TypeOK
      <3>2. CASE ~ctx[r].fresh
        BY <1>3, <2>1, <3>2 DEF JoinReady, OpenBills
      <3>3. QED
        BY <3>1, <3>2
    <2>4. ASSUME NEW q \in Session, sessions'[q].state = "open"
          PROVE  \E b \in Bill : bills'[b].state = "open" /\ bills'[b].table = sessions'[q].table
      <3>1. CASE q = s
        BY <1>3, <2>3, <3>1 DEF TypeOK, FreshSessions
      <3>2. CASE q # s
        BY <1>3, <2>2, <2>4, <3>2 DEF TypeOK, FreshSessions, KeepsOpen, OpenSessionHasOpenBill, OpenBills
      <3>3. QED
        BY <3>1, <3>2
    <2>5. QED
      BY <2>4 DEF OpenSessionHasOpenBill, OpenBills
  <1>4. ASSUME JoinSave(r), UNCHANGED data PROVE OpenSessionHasOpenBill'
    BY <1>4, KeptOpenSeats DEF KeepsOpen, data
  <1>5. CASE CloseSave(r)
    <2>1. /\ ctx[r].bill \in Bill /\ ctx[r].at = bills[ctx[r].bill].table
          /\ bills' = [bills EXCEPT ![ctx[r].bill].state = "closed"]
          /\ sessions' = [s \in Session |-> IF s \in OpenSessions(ctx[r].at)
                                            THEN [sessions[s] EXCEPT !.state = "closed"]
                                            ELSE sessions[s]]
      BY <1>1, <1>5 DEF CloseSave, At, KindsAt, LocalsOf, Loaded, CloseLocals
    <2>2. ASSUME NEW s \in Session, sessions'[s].state = "open"
          PROVE  \E b \in Bill : bills'[b].state = "open" /\ bills'[b].table = sessions'[s].table
      <3>1. /\ sessions[s].state = "open" /\ sessions[s].table # ctx[r].at
            /\ sessions'[s] = sessions[s]
        BY <2>1, <2>2 DEF OpenSessions, TypeOK, SessionRow
      <3>2. PICK b \in Bill : bills[b].state = "open" /\ bills[b].table = sessions[s].table
        BY <3>1 DEF OpenSessionHasOpenBill, OpenBills
      <3>3. bills'[b] = bills[b]
        BY <2>1, <3>1, <3>2
      <3>4. QED
        BY <3>1, <3>2, <3>3
    <2>3. QED
      BY <2>2 DEF OpenSessionHasOpenBill, OpenBills
  <1>6. CASE MoveSave(r) \/ MergeCommit(r)
    <2> DEFINE from == IF pc[r] = "moveSave" THEN ctx[r].first ELSE ctx[r].second
               to   == IF pc[r] = "moveSave" THEN ctx[r].second ELSE ctx[r].first
    <2>1. CASE UNCHANGED data
      BY <2>1, KeptOpenSeats DEF KeepsOpen, data
    <2>2. CASE ~UNCHANGED data
      <3>1. /\ ctx[r].bill \in Bill /\ from = bills[ctx[r].bill].table
            /\ sessions' = Reseated(from, to)
            /\ \E b \in Bill : bills'[b].state = "open" /\ bills'[b].table = to
            /\ \A b \in Bill \ {ctx[r].bill} : bills[b].state = "open" =>
                  bills'[b].state = "open" /\ bills'[b].table = bills[b].table
        <4>1. CASE MoveSave(r)
          BY <1>1, <2>2, <4>1 DEF MoveSave, At, KindsAt, LocalsOf, Loaded, MoveLocals, RollBack, data,
             TypeOK, BillRow
        <4>2. CASE MergeCommit(r)
          <5>1. /\ pc[r] = "mergeCommit" /\ ctx[r].kind = "merge" /\ ~ctx[r].fresh
                /\ ctx[r].into \in Bill /\ ctx[r].bill \in Bill
            BY <1>1, <4>2 DEF MergeCommit, At, KindsAt, LocalsOf, InsertsReserved, AfterInsert
          <5>2. /\ IntoRow(r).state = "open" /\ IntoRow(r).table = ctx[r].first
                /\ ctx[r].into # ctx[r].bill /\ bills[ctx[r].into].table = ctx[r].first
                /\ bills[ctx[r].bill].table = ctx[r].second
            BY <1>1, <5>1, IntoRowIs DEF Loaded, MergeLocals
          <5>3. /\ bills'[ctx[r].into] = IntoRow(r)
                /\ \A b \in Bill : b # ctx[r].into /\ b # ctx[r].bill => bills'[b] = bills[b]
                /\ sessions' = Reseated(ctx[r].second, ctx[r].first)
            BY <4>2, <5>1, <5>2 DEF MergeCommit, TypeOK
          <5>4. QED
            BY <5>1, <5>2, <5>3
        <4>3. QED
          BY <1>6, <4>1, <4>2
      <3> HIDE DEF from, to
      <3>2. ASSUME NEW s \in Session, sessions'[s].state = "open"
            PROVE  \E b \in Bill : bills'[b].state = "open" /\ bills'[b].table = sessions'[s].table
        <4>1. CASE s \in OpenSessions(from)
          BY <3>1, <4>1 DEF Reseated, TypeOK, SessionRow
        <4>2. CASE s \notin OpenSessions(from)
          <5>1. sessions'[s] = sessions[s] /\ sessions[s].table # from
            BY <3>1, <3>2, <4>2 DEF Reseated, OpenSessions
          <5>2. PICK b \in Bill : bills[b].state = "open" /\ bills[b].table = sessions[s].table
            BY <3>2, <5>1 DEF OpenSessionHasOpenBill, OpenBills
          <5>3. QED
            BY <3>1, <5>1, <5>2
        <4>3. QED
          BY <4>1, <4>2
      <3>3. QED
        BY <3>2 DEF OpenSessionHasOpenBill, OpenBills
    <2>3. QED
      BY <2>1, <2>2
  <1>7. CASE SplitCommit(r)
    <2>1. ctx[r].into \in Bill /\ ctx[r].bill \in Bill
      BY <1>1, <1>7 DEF SplitCommit, At, KindsAt, LocalsOf, AfterInsert
    <2>2. \A b \in Bill \ {ctx[r].into} : /\ bills'[b].state = bills[b].state
                                         /\ bills'[b].table = bills[b].table
      BY <1>7, <2>1 DEF SplitCommit, TypeOK, BillRow
    <2>3. bills'[ctx[r].into] = IntoRow(r)
      BY <1>7, <2>1 DEF SplitCommit, TypeOK
    <2>4. KeepsOpen
      BY <1>1, <2>1, <2>2, <2>3, IntoRowIs DEF KeepsOpen
    <2>5. QED
      BY <1>7, <2>4, KeptOpenSeats DEF SplitCommit
  <1>8. CASE StatusSave(r)
    BY <1>8, KeptOpenSeats DEF KeepsOpen, StatusSave
  <1>9. QED
    BY <1>2, <1>3, <1>4, <1>5, <1>6, <1>7, <1>8 DEF JoinSave, RollBack

\* Only the two statements that find or insert a bill lead to joinSave.
LEMMA ReachesJoinSave ==
  ASSUME IInv, NEW r \in Request, JoinReady(r), pc'[r] = "joinSave",
         Call(r) \/ Step(r) \/ Fail(r) \/ BreakDeadlock(r), StepLocals(r),
         UNCHANGED bills
  PROVE  ctx'[r].fresh \/ OpenBills(ctx'[r].at) # {}
  <1> USE DEF IInv
  <1>1. CASE Finish(r)
    BY <1>1 DEF Finish, TypeOK
  <1>2. CASE Call(r)
    BY <1>2 DEF Call, CreateOrder, CreateAdminOrder, VerifyTableToken, CloseBill, MoveBill,
       MergeBill, SplitBill, UpdateOrderStatus, Start, TypeOK
  <1>3. CASE GetOpenBill(r) \/ InsertBill(r)
    <2>1. ASSUME NEW b \in OpenBills(ctx[r].at), UseBill(r, b)
          PROVE  OpenBills(ctx'[r].at) # {}
      BY <2>1 DEF UseBill, TypeOK, Ctx
    <2>2. ASSUME NEW b \in FreshBills, ctx' = [ctx EXCEPT ![r].into = b, ![r].fresh = TRUE]
          PROVE  ctx'[r].fresh
      BY <2>2 DEF TypeOK, Ctx
    <2>3. pc[r] \in {"getBill", "insertBill"}
      BY <1>3 DEF GetOpenBill, InsertBill, At
    <2>4. ~Goto(r, "insertBill")
      BY DEF Goto, TypeOK
    <2>5. QED
      BY <1>1, <1>3, <2>1, <2>2, <2>4 DEF GetOpenBill, InsertBill, RollBack
  <1>4. CASE \/ AcquireFirst(r) \/ AcquireSecond(r)
    <2>1. ctx[r].kind \in {"order", "adminOrder", "close", "move", "merge", "split"}
      BY <1>4, KindOf DEF AcquireFirst, AcquireSecond, At, KindsAt
    <2>2. AfterLocks(ctx[r].kind) # "joinSave"
      BY <2>1 DEF AfterLocks
    <2>3. QED
      BY <1>4, <2>2 DEF AcquireFirst, AcquireSecond, TypeOK
  <1>5. CASE \/ OrderSave(r) \/ CloseReread(r) \/ MoveCheck(r) \/ MergeSave(r) \/ MergeSum(r)
             \/ SplitSave(r) \/ SplitSumFrom(r) \/ SplitSumInto(r) \/ RecalcRead(r) \/ RecalcSum(r)
             \/ StatusSave(r)
    BY <1>1, <1>5 DEF OrderSave, CloseReread, MoveCheck, MergeSave, MergeSum, SplitSave,
       SplitSumFrom, SplitSumInto, RecalcRead, RecalcSum, StatusSave, Goto, RollBack, TypeOK
  <1>6. CASE \/ OrderCommit(r) \/ JoinSave(r) \/ CloseSave(r) \/ MoveSave(r) \/ MergeCommit(r)
             \/ SplitCommit(r) \/ RecalcSave(r) \/ Fail(r) \/ BreakDeadlock(r)
    BY <1>1, <1>6 DEF OrderCommit, JoinSave, CloseSave, MoveSave, MergeCommit, SplitCommit,
       RecalcSave, Fail, BreakDeadlock, RollBack
  <1>7. QED
    BY <1>2, <1>3, <1>4, <1>5, <1>6 DEF Step

\* A scan that runs alone finds the bill it read still open when it saves.
LEMMA SeatNext ==
  ASSUME ReadersAlone, JoinAlone, LedgerInv, SeatInv, [Next]_vars PROVE SeatInv'
  <1> USE DEF LedgerInv, SeatInv
  <1>1. ASSUME NEW r \in Request, Call(r) \/ Step(r) \/ Fail(r) \/ BreakDeadlock(r)
        PROVE  SeatInv'
    <2>1. StepLocals(r) /\ Loaded(r) /\ OnlyAlone /\ TypeOK
      BY <1>1, LocalsStep DEF IInv, SerialInv
    <2>2. OpenSessionHasOpenBill'
      <3>1. CASE UNCHANGED <<bills, orders, sessions>>
        BY <3>1, KeptOpenSeats DEF KeepsOpen
      <3>2. QED
        BY <1>1, <3>1, StepKeepsRows, CommitSeats
    <2>3. ASSUME NEW q \in Request \ {r} PROVE JoinReady(q)'
      <3>1. ctx'[q] = ctx[q] /\ pc'[q] = pc[q]
        BY <2>1 DEF StepLocals, CtxEffect
      <3>2. CASE pc[q] # "joinSave"
        BY <3>1, <3>2 DEF JoinReady
      <3>3. CASE pc[q] = "joinSave"
        <4>1. ctx[q].kind \in Alone
          BY <3>3, KindOf, NoneAssumption DEF IInv, SerialInv, OnlyAlone, JoinAlone, KindsAt, AllKinds
        <4>2. pc[r] = "idle"
          BY <2>1, <4>1 DEF OnlyAlone
        <4>3. Call(r)
          BY <1>1, <4>2 DEF Step, AcquireFirst, AcquireSecond, GetOpenBill, InsertBill, OrderSave,
             OrderCommit, JoinSave, CloseReread, CloseSave, MoveCheck, MoveSave, MergeSave, MergeSum,
             MergeCommit, SplitSave, SplitSumFrom, SplitSumInto, SplitCommit, StatusSave, RecalcRead,
             RecalcSum, RecalcSave, At, Fail, BreakDeadlock
        <4>4. PICK k \in Kinds, label \in Labels, c \in Ctx : Start(r, k, c, label)
          BY <4>3, CallLoaded DEF Starts, IInv
        <4>5. QED
          BY <2>1, <3>3, <4>1, <4>4, Started DEF Begun
      <3>4. QED
        BY <3>2, <3>3
    <2>4. JoinReady(r)'
      <3>1. CASE UNCHANGED <<bills, orders, sessions>>
        BY <1>1, <2>1, <3>1, ReachesJoinSave DEF JoinReady, OpenBills
      <3>2. CASE \/ OrderCommit(r) \/ JoinSave(r) \/ CloseSave(r) \/ MoveSave(r) \/ MergeCommit(r)
                 \/ SplitCommit(r) \/ RecalcSave(r) \/ StatusSave(r)
        <4>1. pc'[r] \in {"idle", "recalcRead"}
          BY <2>1, <3>2 DEF OrderCommit, JoinSave, CloseSave, MoveSave, MergeCommit, SplitCommit,
             RecalcSave, StatusSave, RollBack, Finish, TypeOK
        <4>2. QED
          BY <4>1 DEF JoinReady
      <3>3. QED
        BY <1>1, <3>1, <3>2, StepKeepsRows
    <2>5. QED
      BY <2>2, <2>3, <2>4
  <1>2. ASSUME NEW s \in Session, LogoutCustomerSession(s) PROVE SeatInv'
    <2>1. UNCHANGED <<bills, pc, ctx>> /\ \A q \in Session : sessions'[q].table = sessions[q].table
            /\ (sessions'[q].state = "open" => sessions[q].state = "open")
      BY <1>2 DEF LogoutCustomerSession, IInv, TypeOK, SessionRow
    <2>2. QED
      BY <2>1 DEF OpenSessionHasOpenBill, OpenBills, JoinReady
  <1>3. CASE UNCHANGED vars
    BY <1>3 DEF vars, data, OpenSessionHasOpenBill, OpenBills, JoinReady
  <1>4. QED
    BY <1>1, <1>2, <1>3 DEF Next

-----------------------------------------------------------------------------
(* Theorems.                                                               *)

\* As long as the handlers that read without the lock run alone, every request
\* finds at its commit the rows it loaded: its locals are still true of them.
THEOREM SerialInvariance == ASSUME ReadersAlone PROVE Spec => []LedgerInv
  <1>1. Init => LedgerInv
    BY LedgerInit
  <1>2. LedgerInv /\ [Next]_vars => LedgerInv'
    BY LedgerNext
  <1>3. QED
    BY <1>1, <1>2, PTL DEF Spec

\* The handlers implement the ledger: seen from outside, an order, a closing, a
\* move, a merge and a split is one indivisible step that leaves exact bills.
THEOREM FloorImplementsLedger == ASSUME ReadersAlone PROVE Spec => ImplementsLedger
  <1>1. Init => Ledger!Init
    BY DEF Init, Ledger!Init, NoBill, NoOrder, Nothing
  <1>2. ASSUME NEW r \in Request, LedgerStep(r) PROVE [Ledger!Next]_<<bills, orders>>
    BY <1>2 DEF LedgerStep, Ledger!Next
  <1>3. LedgerInv /\ [Next]_vars => [Ledger!Next]_<<bills, orders>>
    BY <1>2, NextOfLedger
  <1>4. QED
    BY <1>1, <1>3, SerialInvariance, PTL DEF Spec, Ledger!Spec, ImplementsLedger

\* No order comes to a closed bill or goes, and its subtotal changes only after
\* the status of an order on it.
THEOREM ClosedBillsAreFrozen == ASSUME ReadersAlone PROVE Spec => ClosedBillFrozen
  <1>1. ASSUME LedgerInv, [Next]_vars, NEW b \in Bill, bills[b].state = "closed"
        PROVE  /\ OrdersOf(b)' = OrdersOf(b)
               /\ \/ bills'[b].subtotal = bills[b].subtotal
                  \/ \E r \in Request : pc[r] = "recalcSave" /\ ctx[r].into = b
    <2>1. UNCHANGED <<bills, orders>> => OrdersOf(b)' = OrdersOf(b)
      BY DEF OrdersOf
    <2>2. QED
      BY <1>1, <2>1, NextOfLedger, LedgerFreezes DEF LedgerInv, IInv
  <1>2. LedgerInv /\ [Next]_vars =>
          \A b \in Bill : bills[b].state = "closed" =>
             /\ OrdersOf(b)' = OrdersOf(b)
             /\ \/ bills'[b].subtotal = bills[b].subtotal
                \/ \E r \in Request : pc[r] = "recalcSave" /\ ctx[r].into = b
    BY <1>1
  <1>3. QED
    BY <1>2, SerialInvariance, PTL DEF Spec, ClosedBillFrozen

\* A move, a merge or a split never leaves an order of an open bill at another table.
THEOREM OrdersFollowTheirBill == ASSUME ReadersAlone PROVE Spec => []OrderAtItsBillsTable
  <1>1. Init => OrderAtItsBillsTable
    BY DEF Init, OrderAtItsBillsTable, NoOrder
  <1>2. LedgerInv /\ OrderAtItsBillsTable /\ [Next]_vars => OrderAtItsBillsTable'
    <2>1. UNCHANGED <<bills, orders>> /\ OrderAtItsBillsTable => OrderAtItsBillsTable'
      BY DEF OrderAtItsBillsTable
    <2>2. QED
      BY <2>1, NextOfLedger, LedgerSeatsOrders DEF LedgerInv, IInv
  <1>3. QED
    BY <1>1, <1>2, SerialInvariance, PTL DEF Spec

\* No handler but the one that saves the status of an order leaves a bill
\* behind the sum of its orders.
THEOREM ExactBillsStayExact == ASSUME ReadersAlone PROVE Spec => SubtotalStaysExact
  <1>1. LedgerInv /\ [Next]_vars =>
          \A b \in Bill : Exact(b) =>
             \/ Exact(b)'
             \/ \E r \in Request : pc[r] = "statusSave" /\ ctx[r].into = b
    <2>1. \A b \in Bill : UNCHANGED <<bills, orders>> /\ Exact(b) => Exact(b)'
      BY DEF Exact, Billable
    <2>2. QED
      BY <2>1, NextOfLedger, LedgerKeepsExact DEF LedgerInv, IInv
  <1>2. QED
    BY <1>1, SerialInvariance, PTL DEF Spec, SubtotalStaysExact

\* While no status of an order is changed every bill, open or closed, asks for
\* exactly what is on it.
THEOREM SubtotalIsExact ==
  ASSUME ReadersAlone, "status" \notin Kinds PROVE Spec => []SubtotalExact
  <1>1. Init => SubtotalExact
    <2>1. Init => \A b \in Bill : {o \in Billable : orders[o].bill = b} = {}
      BY DEF Init, Billable, NoOrder
    <2>2. Init => \A b \in Bill : bills[b].subtotal = Total({})
      BY DEF Init, NoBill, Nothing
    <2>3. QED
      BY <2>1, <2>2 DEF SubtotalExact, Exact
  <1>2. LedgerInv /\ SubtotalExact /\ [Next]_vars => SubtotalExact'
    <2>1. SUFFICES ASSUME LedgerInv, SubtotalExact, [Next]_vars, NEW b \in Bill PROVE Exact(b)'
      BY DEF SubtotalExact
    <2>2. UNCHANGED <<bills, orders>> => Exact(b)'
      BY <2>1 DEF SubtotalExact, Exact, Billable
    <2>3. \A r \in Request : pc[r] # "statusSave"
      BY <2>1, KindOf, NoneAssumption DEF LedgerInv, IInv, SerialInv, OnlyAlone, KindsAt, AllKinds
    <2>4. QED
      BY <2>1, <2>2, <2>3, NextOfLedger, LedgerKeepsExact DEF LedgerInv, IInv, SubtotalExact
  <1>3. QED
    BY <1>1, <1>2, SerialInvariance, PTL DEF Spec

\* If scans run alone as well, no session stays open where no bill is.
THEOREM SessionsHaveBills ==
  ASSUME ReadersAlone, JoinAlone PROVE Spec => []OpenSessionHasOpenBill
  <1>1. Init => SeatInv
    BY DEF Init, SeatInv, OpenSessionHasOpenBill, JoinReady, NoSession
  <1>2. LedgerInv /\ SeatInv /\ [Next]_vars => SeatInv'
    BY SeatNext
  <1>3. SeatInv => OpenSessionHasOpenBill
    BY DEF SeatInv
  <1>4. QED
    BY <1>1, <1>2, <1>3, SerialInvariance, PTL DEF Spec
=============================================================================
