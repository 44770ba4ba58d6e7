-------------------------- MODULE OrderProgressProofs --------------------------
(***************************************************************************)
(* Proofs about OrderProgress, for any number of orders and of items on    *)
(* them: the types for any number of requests, the rest for requests that  *)
(* are served one after the other and cut off anywhere.                    *)
(***************************************************************************)
EXTENDS OrderProgress, TLAPS

\* The handlers of the progress have no lock: what follows needs them in turn.
OneAtATime == \A q, r \in Request : q = r

-----------------------------------------------------------------------------
(* The inductive invariants.                                               *)

\* The statuses of the items of an order.
StatusesOf(o) == [ItemsOf[o] -> Status]

\* A placed order has items with a status; a request has loaded a placed order.
LocalsOf(r) ==
    /\ pc[r] \in {"save", "insert", "commit"} => ctx[r].order \in Order
    /\ pc[r] = "save" =>
          /\ ctx[r].order \in Placed
          /\ ctx[r].items \in StatusesOf(ctx[r].order) /\ ctx[r].seen \in StatusesOf(ctx[r].order)

PlacedHaveItems == \A o \in Placed : Restrict(items, ItemsOf[o]) \in StatusesOf(o)

RowsInv == TypeOK /\ PlacedHaveItems /\ \A r \in Request : LocalsOf(r)

\* What is written to an order is derived from its items.
Synced == \A o \in Placed : orders[o] = SyncOrderFromItems(Restrict(items, ItemsOf[o]))

\* Items come with their order.
UnplacedHaveNone == \A o \in Order \ Placed : \A i \in ItemsOf[o] : items[i] = "none"

\* A request that is not disturbed finds the rows it loaded when it writes.
Undisturbed(r) ==
    /\ pc[r] = "save" =>
          /\ ctx[r].seen = Restrict(items, ItemsOf[ctx[r].order])
          /\ ctx[r].row = orders[ctx[r].order]
          /\ \A i \in ItemsOf[ctx[r].order] :
                items[i] \in {"served", "cancelled"} => ctx[r].items[i] = items[i]
    /\ pc[r] = "write" => ctx[r].sum = Charged
    /\ pc[r] \in {"insert", "commit"} => ctx[r].order \notin Placed
    /\ pc[r] = "commit" => ctx[r].sum = Charged \cup ItemsOf[ctx[r].order]

ProgressInv == RowsInv /\ Synced /\ UnplacedHaveNone /\ \A r \in Request : Undisturbed(r)

-----------------------------------------------------------------------------
(* The operators of the progress.                                          *)

\* An order charges, and gets its status from, the items it has.
LEMMA SyncType ==
  ASSUME NEW o \in Order, NEW its \in StatusesOf(o)
  PROVE  /\ SyncOrderFromItems(its) \in Row /\ SyncOrderFromItems(its).status # "none"
         /\ SyncOrderFromItems(its).status \in Status
         /\ SyncOrderFromItems(its).subtotal = {i \in ItemsOf[o] : its[i] # "cancelled"}
  <1> DEFINE active == {i \in DOMAIN its : its[i] # "cancelled"}
             sts == {its[i] : i \in active}
             status == IF active = {} THEN "cancelled"
                       ELSE IF sts = {"served"} THEN "served"
                       ELSE IF sts \subseteq {"ready", "served"} THEN "ready"
                       ELSE IF "preparing" \in sts THEN "preparing"
                       ELSE "submitted"
  <1>1. SyncOrderFromItems(its) = [status |-> status, subtotal |-> active]
    BY DEF SyncOrderFromItems
  <1>2. status \in Status
    BY DEF Status
  <1>3. DOMAIN its = ItemsOf[o] /\ ItemsOf[o] \subseteq Item
    BY ItemsAssumption DEF StatusesOf, Item, Range
  <1>4. active \subseteq Item /\ active = {i \in ItemsOf[o] : its[i] # "cancelled"}
    BY <1>3
  <1> HIDE DEF active, sts, status
  <1>5. QED
    BY <1>1, <1>2, <1>4 DEF Row, Status

\* A change of the order's status moves its items among the statuses.
LEMMA ApplyType ==
  ASSUME NEW o \in Order, NEW its \in StatusesOf(o),
         NEW status \in Status, NEW target \in GetAllowedNextStatuses(status)
  PROVE  /\ ApplyOrderStatusToItems(its, target) \in StatusesOf(o)
         /\ \A i \in ItemsOf[o] : its[i] \in {"served", "cancelled"} =>
               ApplyOrderStatusToItems(its, target)[i] = its[i]
  <1>1. target \in {"preparing", "ready", "served", "cancelled"}
    BY DEF GetAllowedNextStatuses, Status
  <1>2. DOMAIN its = ItemsOf[o]
    BY DEF StatusesOf
  <1>3. QED
    BY <1>1, <1>2 DEF ApplyOrderStatusToItems, StatusesOf, Status

\* A station moves one item, never one that is served or cancelled.
LEMMA KitchenType ==
  ASSUME NEW o \in Order, NEW its \in StatusesOf(o), NEW i \in ItemsOf[o],
         NEW target \in GetAllowedKitchenItemStatuses(its[i])
  PROVE  /\ [its EXCEPT ![i] = target] \in StatusesOf(o)
         /\ \A j \in ItemsOf[o] : its[j] \in {"served", "cancelled"} =>
               [its EXCEPT ![i] = target][j] = its[j]
  <1>1. target \in Status /\ its[i] \notin {"served", "cancelled"}
    BY DEF GetAllowedKitchenItemStatuses, Status, StatusesOf
  <1>2. QED
    BY <1>1 DEF StatusesOf

\* Columns are written one by one; nothing else than the new and the current
\* value is ever in one.
LEMMA ChangedType ==
  ASSUME NEW S, NEW T, NEW new \in [S -> T], NEW old, NEW current, \A x \in S : current[x] \in T
  PROVE  /\ Changed(new, old, current) \in [S -> T]
         /\ (\A x \in S : old[x] = current[x]) => Changed(new, old, current) = new
  BY DEF Changed

\* The row of an order is written column by column.
LEMMA ChangedRow ==
  ASSUME NEW new \in Row, NEW old, NEW current \in Row
  PROVE  /\ Changed(new, old, current) \in Row
         /\ Changed(new, old, current).status \in {new.status, current.status}
         /\ old = current => Changed(new, old, current) = new
  <1>1. DOMAIN new = {"status", "subtotal"} /\ DOMAIN current = {"status", "subtotal"}
    BY DEF Row
  <1>2. Changed(new, old, current) =
          [status |-> IF new["status"] # old["status"] THEN new["status"] ELSE current["status"],
           subtotal |-> IF new["subtotal"] # old["subtotal"] THEN new["subtotal"] ELSE current["subtotal"]]
    BY <1>1 DEF Changed
  <1>3. old = current => Changed(new, old, current) = new
    BY <1>2 DEF Row
  <1>4. QED
    BY <1>2, <1>3 DEF Row

\* The items of one order change, those of the others do not.
LEMMA OverIs ==
  ASSUME items \in [Item -> Status \cup {"none"}], NEW o \in Order, NEW its \in StatusesOf(o)
  PROVE  /\ Over(its) \in [Item -> Status \cup {"none"}]
         /\ Restrict(Over(its), ItemsOf[o]) = its
         /\ \A p \in Order \ {o} : /\ Restrict(Over(its), ItemsOf[p]) = Restrict(items, ItemsOf[p])
                                  /\ \A i \in ItemsOf[p] : Over(its)[i] = items[i]
         /\ \A i \in ItemsOf[o] : Over(its)[i] = its[i]
  <1>1. \A p \in Order : ItemsOf[p] \subseteq Item
    BY ItemsAssumption DEF Item, Range
  <1>2. DOMAIN its = ItemsOf[o] /\ \A i \in ItemsOf[o] : its[i] \in Status
    BY DEF StatusesOf
  <1>3. \A p \in Order \ {o} : \A i \in ItemsOf[p] : i \notin ItemsOf[o]
    BY ItemsAssumption
  <1>4. Over(its) \in [Item -> Status \cup {"none"}]
    BY <1>2 DEF Over
  <1>5. \A i \in ItemsOf[o] : Over(its)[i] = its[i]
    BY <1>1, <1>2 DEF Over
  <1>6. \A p \in Order \ {o} : \A i \in ItemsOf[p] : Over(its)[i] = items[i]
    BY <1>1, <1>2, <1>3 DEF Over
  <1>7. Restrict(Over(its), ItemsOf[o]) = its
    BY <1>5 DEF Restrict, StatusesOf
  <1>8. \A p \in Order \ {o} : Restrict(Over(its), ItemsOf[p]) = Restrict(items, ItemsOf[p])
    BY <1>6 DEF Restrict
  <1>9. QED
    BY <1>4, <1>5, <1>6, <1>7, <1>8

-----------------------------------------------------------------------------
(* Types and rows, whatever the requests interleave.                       *)

\* What a request has loaded keeps its type.
LEMMA CtxType ==
  ASSUME TypeOK, NEW r \in Request
  PROVE  /\ ctx[r].order \in Order \cup {None} /\ ctx[r].row \in Row
         /\ ctx[r].loaded \subseteq Item /\ ctx[r].sum \subseteq Item
  BY DEF TypeOK, Ctx

\* The empty locals are locals.
LEMMA NoCtxType == NoCtx \in Ctx
  <1>1. NoRow \in Row
    BY DEF NoRow, Row
  <1>2. <<>> \in Loaded
    BY DEF Loaded
  <1>3. QED
    BY <1>1, <1>2 DEF NoCtx, Ctx

\* What the orders add up to are items.
LEMMA ChargedType == ASSUME TypeOK PROVE Charged \subseteq Item
  <1>1. \A o \in Order : orders[o].subtotal \subseteq Item
    BY DEF TypeOK, Row
  <1>2. QED
    BY <1>1 DEF Charged, Placed

\* A handler that changes a status loads an order with the items it will save.
LEMMA LoadRows ==
  ASSUME RowsInv, NEW r \in Request, NEW o \in Order, NEW its \in StatusesOf(o), Load(r, o, its)
  PROVE  RowsInv'
  <1> DEFINE c == [NoCtx EXCEPT !.order = o, !.items = its,
                                !.seen = Restrict(items, ItemsOf[o]), !.row = orders[o]]
  <1>1. /\ pc' = [pc EXCEPT ![r] = "save"] /\ ctx' = [ctx EXCEPT ![r] = c]
        /\ o \in Placed /\ UNCHANGED <<items, orders, bill, faults>>
    BY DEF Load, Goto
  <1>2. Restrict(items, ItemsOf[o]) \in StatusesOf(o)
    BY <1>1 DEF RowsInv, PlacedHaveItems
  <1>3. /\ c \in Ctx /\ c.order = o /\ c.items = its
        /\ c.seen = Restrict(items, ItemsOf[o]) /\ c.row = orders[o]
    <2>1. \A x \in StatusesOf(o) : x \in Loaded
      BY DEF StatusesOf, Loaded
    <2>2. orders[o] \in Row
      BY DEF RowsInv, TypeOK
    <2>3. QED
      BY <1>2, <2>1, <2>2, NoCtxType DEF Ctx
  <1> HIDE DEF c
  <1>4. TypeOK'
    BY <1>1, <1>3 DEF RowsInv, TypeOK, Labels
  <1>5. PlacedHaveItems'
    BY <1>1 DEF RowsInv, PlacedHaveItems, Placed
  <1>6. \A q \in Request : LocalsOf(q)'
    BY <1>1, <1>2, <1>3 DEF RowsInv, LocalsOf, Placed, TypeOK
  <1>7. QED
    BY <1>4, <1>5, <1>6 DEF RowsInv

\* A request that ends, or goes on with empty locals, loses what it had loaded.
LEMMA ClearedLocals ==
  ASSUME RowsInv, NEW r \in Request, NEW label \in {"idle", "load"},
         pc' = [pc EXCEPT ![r] = label], ctx' = [ctx EXCEPT ![r] = NoCtx],
         \A o \in Placed : o \in Placed'
  PROVE  (\A q \in Request : LocalsOf(q)') /\ pc' \in [Request -> Labels] /\ ctx' \in [Request -> Ctx]
  <1>1. pc' \in [Request -> Labels] /\ ctx' \in [Request -> Ctx]
    BY NoCtxType DEF RowsInv, TypeOK, Labels
  <1>2. LocalsOf(r)'
    BY DEF LocalsOf, RowsInv, TypeOK
  <1>3. ASSUME NEW q \in Request \ {r} PROVE LocalsOf(q)'
    <2>1. pc'[q] = pc[q] /\ ctx'[q] = ctx[q]
      BY DEF RowsInv, TypeOK
    <2>2. QED
      BY <2>1 DEF RowsInv, LocalsOf
  <1>4. QED
    BY <1>1, <1>2, <1>3

\* The save of an order and its items keeps every placed order with items.
LEMMA StatusSaveRows ==
  ASSUME RowsInv, NEW r \in Request, StatusSave(r) PROVE RowsInv'
  <1> DEFINE o == ctx[r].order
             its == Changed(ctx[r].items, ctx[r].seen, items)
             row == Changed(SyncOrderFromItems(ctx[r].items), ctx[r].row, orders[o])
  <1>1. /\ pc[r] = "save" /\ o \in Placed /\ o \in Order /\ ctx[r].items \in StatusesOf(o)
    BY DEF StatusSave, At, RowsInv, LocalsOf, Placed
  <1>2. /\ items' = Over(its) /\ orders' = [orders EXCEPT ![o] = row]
        /\ pc' = [pc EXCEPT ![r] = "load"] /\ ctx' = [ctx EXCEPT ![r] = NoCtx]
        /\ UNCHANGED <<bill, faults>>
    BY DEF StatusSave, Goto
  <1>3. its \in StatusesOf(o)
    <2>1. \A i \in ItemsOf[o] : items[i] \in Status
      BY <1>1 DEF RowsInv, PlacedHaveItems, StatusesOf, Restrict
    <2>2. QED
      BY <1>1, <2>1, ChangedType DEF StatusesOf
  <1>4. row \in Row /\ row.status # "none"
    BY <1>1, SyncType, ChangedRow DEF RowsInv, TypeOK, Placed
  <1> HIDE DEF o, its, row
  <1>5. Placed' = Placed
    BY <1>1, <1>2, <1>4 DEF Placed, RowsInv, TypeOK
  <1>6. PlacedHaveItems'
    BY <1>1, <1>2, <1>3, <1>5, OverIs DEF RowsInv, PlacedHaveItems, TypeOK, Placed
  <1>7. (\A q \in Request : LocalsOf(q)') /\ pc' \in [Request -> Labels] /\ ctx' \in [Request -> Ctx]
    BY <1>2, <1>5, ClearedLocals
  <1>8. TypeOK'
    BY <1>1, <1>2, <1>3, <1>4, <1>7, OverIs DEF RowsInv, TypeOK
  <1>9. QED
    BY <1>6, <1>7, <1>8 DEF RowsInv

\* The commit of an order places it with all its items submitted.
LEMMA OrderCommitRows ==
  ASSUME RowsInv, NEW r \in Request, OrderCommit(r) PROVE RowsInv'
  <1> DEFINE o == ctx[r].order
             its == [i \in ItemsOf[o] |-> "submitted"]
             row == [status |-> "submitted", subtotal |-> ItemsOf[o]]
  <1>1. pc[r] = "commit" /\ o \in Order
    BY DEF OrderCommit, At, RowsInv, LocalsOf
  <1>2. /\ items' = Over(its) /\ orders' = [orders EXCEPT ![o] = row]
        /\ bill' \in {ctx[r].sum, bill}
        /\ pc' = [pc EXCEPT ![r] = "idle"] /\ ctx' = [ctx EXCEPT ![r] = NoCtx]
        /\ UNCHANGED faults
    BY DEF OrderCommit, Goto
  <1>3. its \in StatusesOf(o) /\ row \in Row /\ row.status # "none"
    BY <1>1, ItemsAssumption DEF StatusesOf, Status, Row, Item, Range
  <1> HIDE DEF o, its, row
  <1>4. Placed' = Placed \cup {o}
    BY <1>1, <1>2, <1>3 DEF Placed, RowsInv, TypeOK
  <1>5. PlacedHaveItems'
    BY <1>1, <1>2, <1>3, <1>4, OverIs DEF RowsInv, PlacedHaveItems, TypeOK, Placed
  <1>6. (\A q \in Request : LocalsOf(q)') /\ pc' \in [Request -> Labels] /\ ctx' \in [Request -> Ctx]
    BY <1>2, <1>4, ClearedLocals
  <1>7. TypeOK'
    BY <1>1, <1>2, <1>3, <1>6, OverIs, CtxType DEF RowsInv, TypeOK
  <1>8. QED
    BY <1>5, <1>6, <1>7 DEF RowsInv

\* A step that only goes on, and writes no row.
LEMMA GoOnRows ==
  ASSUME RowsInv, NEW r \in Request, NEW label \in {"sum", "write", "insert", "commit"},
         NEW c \in Ctx, pc' = [pc EXCEPT ![r] = label], ctx' = [ctx EXCEPT ![r] = c],
         label \in {"insert", "commit"} => c.order \in Order,
         UNCHANGED <<items, orders, bill, faults>>
  PROVE  RowsInv'
  <1>1. TypeOK'
    BY DEF RowsInv, TypeOK, Labels
  <1>2. PlacedHaveItems'
    BY DEF RowsInv, PlacedHaveItems, Placed
  <1>3. \A q \in Request : LocalsOf(q)'
    BY DEF RowsInv, LocalsOf, Placed, TypeOK
  <1>4. QED
    BY <1>1, <1>2, <1>3 DEF RowsInv

\* At the start nothing is placed.
LEMMA RowsInit == Init => RowsInv
  <1> SUFFICES ASSUME Init PROVE RowsInv
    OBVIOUS
  <1>1. TypeOK
    BY NoCtxType, FaultsAssumption DEF Init, TypeOK, Row, NoRow, Labels
  <1>2. Placed = {}
    BY DEF Init, Placed, NoRow
  <1>3. QED
    BY <1>1, <1>2 DEF RowsInv, PlacedHaveItems, LocalsOf, Init

\* What the two kinds of change load is loaded for a placed order, and leaves
\* served and cancelled items as they are.
LEMMA ChangeLoads ==
  ASSUME RowsInv, NEW r \in Request, NEW o \in Order,
         UpdateOrderStatus(r, o) \/ UpdateKitchenItemStatus(r, o)
  PROVE  \E its \in StatusesOf(o) :
            /\ Load(r, o, its)
            /\ \A i \in ItemsOf[o] : items[i] \in {"served", "cancelled"} => its[i] = items[i]
  <1> DEFINE now == Restrict(items, ItemsOf[o])
  <1>1. o \in Placed /\ orders[o].status \in Status
    BY DEF UpdateOrderStatus, UpdateKitchenItemStatus, Load, Placed, RowsInv, TypeOK, Row
  <1>2. now \in StatusesOf(o) /\ \A i \in ItemsOf[o] : now[i] = items[i]
    BY <1>1 DEF RowsInv, PlacedHaveItems, Restrict
  <1> HIDE DEF now
  <1>3. CASE UpdateOrderStatus(r, o)
    <2>1. PICK target \in GetAllowedNextStatuses(orders[o].status) :
             Load(r, o, ApplyOrderStatusToItems(now, target))
      BY <1>3 DEF UpdateOrderStatus, now
    <2>2. QED
      BY <1>1, <1>2, <2>1, ApplyType
  <1>4. CASE UpdateKitchenItemStatus(r, o)
    <2>1. PICK i \in ItemsOf[o] : \E target \in GetAllowedKitchenItemStatuses(items[i]) :
             Load(r, o, [now EXCEPT ![i] = target])
      BY <1>4 DEF UpdateKitchenItemStatus, now
    <2>2. PICK target \in GetAllowedKitchenItemStatuses(now[i]) : Load(r, o, [now EXCEPT ![i] = target])
      BY <1>2, <2>1
    <2> DEFINE its == [now EXCEPT ![i] = target]
    <2>3. /\ its \in StatusesOf(o)
          /\ \A j \in ItemsOf[o] : now[j] \in {"served", "cancelled"} => its[j] = now[j]
      BY <1>2, KitchenType
    <2> HIDE DEF its
    <2>4. Load(r, o, its)
      BY <2>2 DEF its
    <2>5. QED
      BY <1>2, <2>3, <2>4
  <1>5. QED
    BY <1>3, <1>4

\* Any other step of a request goes on or ends, and places or saves no order.
LEMMA OtherRows ==
  ASSUME RowsInv, NEW r \in Request,
         \/ \E o \in Order : PlaceOrder(r, o)
         \/ OrderInsert(r) \/ Recalculate(r) \/ CutOff(r)
  PROVE  RowsInv'
  <1>1. ASSUME NEW o \in Order, PlaceOrder(r, o) PROVE RowsInv'
    <2> DEFINE c == [NoCtx EXCEPT !.order = o, !.loaded = bill]
    <2>1. c \in Ctx /\ c.order = o
      BY NoCtxType DEF Ctx, RowsInv, TypeOK
    <2>2. /\ pc' = [pc EXCEPT ![r] = "insert"] /\ ctx' = [ctx EXCEPT ![r] = c]
          /\ UNCHANGED <<items, orders, bill, faults>>
      BY <1>1 DEF PlaceOrder, Goto
    <2> HIDE DEF c
    <2>3. QED
      BY <2>1, <2>2, GoOnRows
  <1>2. CASE OrderInsert(r)
    <2> DEFINE c == [ctx[r] EXCEPT !.sum = Charged \cup ItemsOf[ctx[r].order]]
    <2>1. pc[r] = "insert" /\ ctx[r].order \in Order
      BY <1>2 DEF OrderInsert, At, RowsInv, LocalsOf
    <2>2. c \in Ctx /\ c.order = ctx[r].order
      BY <2>1, ChargedType, ItemsAssumption DEF RowsInv, TypeOK, Ctx, Item, Range
    <2>3. ctx' = [ctx EXCEPT ![r] = c]
      BY <1>2 DEF OrderInsert, RowsInv, TypeOK
    <2>4. pc' = [pc EXCEPT ![r] = "commit"] /\ UNCHANGED <<items, orders, bill, faults>>
      BY <1>2 DEF OrderInsert, Goto
    <2> HIDE DEF c
    <2>5. QED
      BY <2>1, <2>2, <2>3, <2>4, GoOnRows
  <1>3. CASE RecalculateLoad(r)
    <2> DEFINE c == [ctx[r] EXCEPT !.loaded = bill]
    <2>1. c \in Ctx /\ ctx' = [ctx EXCEPT ![r] = c]
      BY <1>3 DEF RecalculateLoad, RowsInv, TypeOK, Ctx
    <2>2. pc' = [pc EXCEPT ![r] = "sum"] /\ UNCHANGED <<items, orders, bill, faults>>
      BY <1>3 DEF RecalculateLoad, Goto
    <2> HIDE DEF c
    <2>3. QED
      BY <2>1, <2>2, GoOnRows
  <1>4. CASE RecalculateSum(r)
    <2> DEFINE c == [ctx[r] EXCEPT !.sum = Charged]
    <2>1. c \in Ctx /\ ctx' = [ctx EXCEPT ![r] = c]
      BY <1>4, ChargedType DEF RecalculateSum, RowsInv, TypeOK, Ctx
    <2>2. pc' = [pc EXCEPT ![r] = "write"] /\ UNCHANGED <<items, orders, bill, faults>>
      BY <1>4 DEF RecalculateSum, Goto
    <2> HIDE DEF c
    <2>3. QED
      BY <2>1, <2>2, GoOnRows
  <1>5. CASE RecalculateSave(r) \/ CutOff(r)
    <2>1. /\ pc' = [pc EXCEPT ![r] = "idle"] /\ ctx' = [ctx EXCEPT ![r] = NoCtx]
          /\ UNCHANGED <<items, orders>>
      BY <1>5 DEF RecalculateSave, CutOff, Goto
    <2>2. bill' \subseteq Item /\ faults' \in 0..MaxFaults
      BY <1>5, CtxType, FaultsAssumption DEF RecalculateSave, CutOff, RowsInv, TypeOK
    <2>3. Placed' = Placed
      BY <2>1 DEF Placed
    <2>4. PlacedHaveItems'
      BY <2>1, <2>3 DEF RowsInv, PlacedHaveItems
    <2>5. QED
      BY <2>1, <2>2, <2>3, <2>4, ClearedLocals DEF RowsInv, TypeOK
  <1>6. QED
    BY <1>1, <1>2, <1>3, <1>4, <1>5 DEF Recalculate

\* Every step keeps the types and the items of placed orders.
LEMMA RowsNext == RowsInv /\ [Next]_vars => RowsInv'
  <1> SUFFICES ASSUME RowsInv, [Next]_vars PROVE RowsInv'
    OBVIOUS
  <1>1. ASSUME NEW r \in Request, NEW o \in Order,
               UpdateOrderStatus(r, o) \/ UpdateKitchenItemStatus(r, o)
        PROVE  RowsInv'
    BY <1>1, ChangeLoads, LoadRows
  <1>2. CASE UNCHANGED vars
    BY <1>2 DEF vars, RowsInv, TypeOK, PlacedHaveItems, LocalsOf, Placed
  <1>3. QED
    BY <1>1, <1>2, StatusSaveRows, OrderCommitRows, OtherRows DEF Next

-----------------------------------------------------------------------------
(* One request after the other.                                            *)

\* What a step may not do to the bill and to finished items.
Proper ==
    /\ bill' # bill => bill' = Charged'
    /\ \A i \in Item : items[i] \in {"served", "cancelled"} => items'[i] = items[i]

\* A step that writes neither an order nor an item.
LEMMA NoRowsProper ==
  ASSUME ProgressInv, UNCHANGED <<items, orders>>
  PROVE  /\ Synced' /\ UnplacedHaveNone' /\ Charged' = Charged /\ Placed' = Placed
         /\ \A i \in Item : items'[i] = items[i]
  BY DEF ProgressInv, Synced, UnplacedHaveNone, Placed, Charged

\* An order is loaded.
LEMMA LoadProper ==
  ASSUME OneAtATime, ProgressInv, NEW r \in Request, NEW o \in Order,
         UpdateOrderStatus(r, o) \/ UpdateKitchenItemStatus(r, o)
  PROVE  ProgressInv' /\ Proper
  <1>1. PICK its \in StatusesOf(o) :
            /\ Load(r, o, its)
            /\ \A i \in ItemsOf[o] : items[i] \in {"served", "cancelled"} => its[i] = items[i]
    BY ChangeLoads DEF ProgressInv
  <1> DEFINE c == [NoCtx EXCEPT !.order = o, !.items = its,
                                !.seen = Restrict(items, ItemsOf[o]), !.row = orders[o]]
  <1>2. /\ pc'[r] = "save" /\ ctx'[r] = c /\ UNCHANGED <<items, orders, bill>>
    BY <1>1 DEF Load, Goto, ProgressInv, RowsInv, TypeOK
  <1>3. c.order = o /\ c.items = its /\ c.seen = Restrict(items, ItemsOf[o]) /\ c.row = orders[o]
    BY NoCtxType DEF Ctx
  <1> HIDE DEF c
  <1>4. Undisturbed(r)'
    BY <1>1, <1>2, <1>3 DEF Undisturbed
  <1>5. RowsInv'
    BY <1>1, LoadRows DEF ProgressInv
  <1>6. QED
    BY <1>2, <1>4, <1>5, NoRowsProper DEF ProgressInv, OneAtATime, Proper

\* An order and its items are saved as they were loaded and changed.
LEMMA StatusSaveProper ==
  ASSUME OneAtATime, ProgressInv, NEW r \in Request, StatusSave(r)
  PROVE  ProgressInv' /\ Proper
  <1> DEFINE o == ctx[r].order
             its == ctx[r].items
             row == SyncOrderFromItems(its)
  <1>1. /\ pc[r] = "save" /\ o \in Placed /\ o \in Order /\ its \in StatusesOf(o)
        /\ ctx[r].seen = Restrict(items, ItemsOf[o]) /\ ctx[r].row = orders[o]
        /\ \A i \in ItemsOf[o] : items[i] \in {"served", "cancelled"} => its[i] = items[i]
    BY DEF StatusSave, At, ProgressInv, RowsInv, LocalsOf, Placed, Undisturbed
  <1>2. Changed(its, ctx[r].seen, items) = its
    <2>1. \A i \in ItemsOf[o] : items[i] \in Status /\ ctx[r].seen[i] = items[i]
      BY <1>1 DEF ProgressInv, RowsInv, PlacedHaveItems, StatusesOf, Restrict
    <2>2. QED
      BY <1>1, <2>1, ChangedType DEF StatusesOf
  <1>3. /\ row \in Row /\ row.status # "none"
        /\ Changed(row, ctx[r].row, orders[o]) = row
    BY <1>1, SyncType, ChangedRow DEF ProgressInv, RowsInv, TypeOK
  <1>4. /\ items' = Over(its) /\ orders' = [orders EXCEPT ![o] = row]
        /\ pc' = [pc EXCEPT ![r] = "load"] /\ UNCHANGED bill
    BY <1>2, <1>3 DEF StatusSave, Goto
  <1> HIDE DEF o, its, row
  <1>5. items \in [Item -> Status \cup {"none"}] /\ orders \in [Order -> Row] /\ pc'[r] = "load"
    BY <1>4 DEF ProgressInv, RowsInv, TypeOK
  <1>6. Placed' = Placed
    BY <1>1, <1>3, <1>4, <1>5 DEF Placed
  <1>7. Synced'
    <2>1. Restrict(items', ItemsOf[o]) = its /\ orders'[o] = SyncOrderFromItems(its)
      BY <1>1, <1>4, <1>5, OverIs DEF row
    <2>2. \A p \in Placed \ {o} : /\ Restrict(items', ItemsOf[p]) = Restrict(items, ItemsOf[p])
                                  /\ orders'[p] = orders[p]
      BY <1>1, <1>4, <1>5, OverIs DEF Placed
    <2>3. \A p \in Placed : orders'[p] = SyncOrderFromItems(Restrict(items', ItemsOf[p]))
      BY <2>1, <2>2 DEF ProgressInv, Synced
    <2>4. QED
      BY <1>6, <2>3 DEF Synced
  <1>8. UnplacedHaveNone'
    BY <1>1, <1>4, <1>5, <1>6, OverIs DEF ProgressInv, UnplacedHaveNone
  <1>9. \A i \in Item : items[i] \in {"served", "cancelled"} => items'[i] = items[i]
    BY <1>1, <1>4 DEF Over, StatusesOf
  <1>10. Undisturbed(r)'
    BY <1>5 DEF Undisturbed
  <1>11. QED
    BY <1>4, <1>7, <1>8, <1>9, <1>10, StatusSaveRows DEF ProgressInv, OneAtATime, Proper

\* An order is placed: it and its bill are as if it had always been there.
LEMMA OrderCommitProper ==
  ASSUME OneAtATime, ProgressInv, NEW r \in Request, OrderCommit(r)
  PROVE  ProgressInv' /\ Proper
  <1> DEFINE o == ctx[r].order
             its == [i \in ItemsOf[o] |-> "submitted"]
             row == [status |-> "submitted", subtotal |-> ItemsOf[o]]
  <1>1. /\ pc[r] = "commit" /\ o \in Order /\ o \notin Placed
        /\ ctx[r].sum = Charged \cup ItemsOf[o]
    BY DEF OrderCommit, At, ProgressInv, RowsInv, LocalsOf, Undisturbed
  <1>2. /\ items' = Over(its) /\ orders' = [orders EXCEPT ![o] = row]
        /\ bill' \in {ctx[r].sum, bill} /\ pc' = [pc EXCEPT ![r] = "idle"]
    BY DEF OrderCommit, Goto
  <1>3. its \in StatusesOf(o) /\ row.status = "submitted" /\ row.subtotal = ItemsOf[o]
        /\ row = SyncOrderFromItems(its)
    <2>1. {i \in DOMAIN its : its[i] # "cancelled"} = ItemsOf[o] /\ ItemsOf[o] # {}
      BY <1>1, ItemsAssumption
    <2>2. {its[i] : i \in ItemsOf[o]} = {"submitted"}
      BY <2>1
    <2>3. its \in StatusesOf(o)
      BY DEF StatusesOf, Status
    <2> HIDE DEF its
    <2>4. SyncOrderFromItems(its) = row
      BY <2>1, <2>2 DEF SyncOrderFromItems
    <2>5. QED
      BY <2>3, <2>4
  <1> HIDE DEF o, its, row
  <1>4. /\ items \in [Item -> Status \cup {"none"}] /\ orders \in [Order -> Row]
        /\ pc'[r] = "idle"
    BY <1>2 DEF ProgressInv, RowsInv, TypeOK
  <1>5. Placed' = Placed \cup {o}
    BY <1>1, <1>2, <1>3, <1>4 DEF Placed
  <1>6. \A p \in Placed : /\ Restrict(items', ItemsOf[p]) = Restrict(items, ItemsOf[p])
                          /\ orders'[p] = orders[p]
    BY <1>1, <1>2, <1>3, <1>4, OverIs DEF Placed
  <1>7. Synced'
    <2>1. Restrict(items', ItemsOf[o]) = its /\ orders'[o] = SyncOrderFromItems(its)
      BY <1>1, <1>2, <1>3, <1>4, OverIs
    <2>2. \A p \in Placed \cup {o} : orders'[p] = SyncOrderFromItems(Restrict(items', ItemsOf[p]))
      BY <1>6, <2>1 DEF ProgressInv, Synced
    <2>3. QED
      BY <1>5, <2>2 DEF Synced
  <1>8. UnplacedHaveNone'
    BY <1>1, <1>2, <1>3, <1>4, <1>5, OverIs DEF ProgressInv, UnplacedHaveNone
  <1>9. \A i \in Item : items[i] \in {"served", "cancelled"} => items'[i] = items[i]
    <2>1. \A i \in ItemsOf[o] : items[i] = "none"
      BY <1>1 DEF ProgressInv, UnplacedHaveNone
    <2>2. QED
      BY <1>2, <1>3, <2>1 DEF Over, StatusesOf
  <1>10. Charged' = Charged \cup ItemsOf[o]
    <2>1. {p \in Placed' : orders'[p].status # "cancelled"}
            = {p \in Placed : orders[p].status # "cancelled"} \cup {o}
      BY <1>1, <1>2, <1>3, <1>4, <1>5, <1>6
    <2>2. {orders'[p].subtotal : p \in {q \in Placed' : orders'[q].status # "cancelled"}}
            = {orders[p].subtotal : p \in {q \in Placed : orders[q].status # "cancelled"}}
              \cup {ItemsOf[o]}
      BY <1>1, <1>2, <1>3, <1>4, <1>6, <2>1
    <2>3. QED
      BY <2>2 DEF Charged
  <1>11. Undisturbed(r)'
    BY <1>4 DEF Undisturbed
  <1>12. QED
    BY <1>1, <1>2, <1>7, <1>8, <1>9, <1>10, <1>11, OrderCommitRows DEF ProgressInv, OneAtATime, Proper

\* The other steps write at most the bill, and only what its orders add up to.
LEMMA OtherProper ==
  ASSUME OneAtATime, ProgressInv, NEW r \in Request,
         \/ \E o \in Order : PlaceOrder(r, o)
         \/ OrderInsert(r) \/ Recalculate(r) \/ CutOff(r)
  PROVE  ProgressInv' /\ Proper
  <1>1. RowsInv' /\ pc \in [Request -> Labels] /\ ctx \in [Request -> Ctx]
    BY OtherRows DEF ProgressInv, RowsInv, TypeOK
  <1>2. UNCHANGED <<items, orders>>
    BY DEF PlaceOrder, OrderInsert, Recalculate, RecalculateLoad, RecalculateSum, RecalculateSave, CutOff
  <1>3. ASSUME NEW o \in Order, PlaceOrder(r, o) PROVE Undisturbed(r)' /\ UNCHANGED bill
    <2>1. pc'[r] = "insert" /\ ctx'[r] = [NoCtx EXCEPT !.order = o, !.loaded = bill] /\ o \notin Placed
      BY <1>1, <1>3 DEF PlaceOrder, Goto
    <2>2. ctx'[r].order = o
      BY <2>1, NoCtxType DEF Ctx
    <2>3. QED
      BY <1>2, <1>3, <2>1, <2>2, NoRowsProper DEF Undisturbed, PlaceOrder
  <1>4. CASE OrderInsert(r)
    <2>1. /\ pc'[r] = "commit" /\ ctx'[r].order = ctx[r].order /\ ctx[r].order \notin Placed
          /\ ctx'[r].sum = Charged \cup ItemsOf[ctx[r].order] /\ UNCHANGED bill
      BY <1>1, <1>4 DEF OrderInsert, At, Goto, ProgressInv, Undisturbed, Ctx
    <2>2. QED
      BY <1>1, <1>2, <2>1, NoRowsProper DEF Undisturbed, ProgressInv, OneAtATime, Proper
  <1>5. CASE RecalculateLoad(r)
    <2>1. pc'[r] = "sum" /\ UNCHANGED bill
      BY <1>1, <1>5 DEF RecalculateLoad, Goto
    <2>2. QED
      BY <1>1, <1>2, <2>1, NoRowsProper DEF Undisturbed, ProgressInv, OneAtATime, Proper
  <1>6. CASE RecalculateSum(r)
    <2>1. pc'[r] = "write" /\ ctx'[r].sum = Charged /\ UNCHANGED bill
      BY <1>1, <1>6 DEF RecalculateSum, Goto, Ctx
    <2>2. QED
      BY <1>1, <1>2, <2>1, NoRowsProper DEF Undisturbed, ProgressInv, OneAtATime, Proper
  <1>7. CASE RecalculateSave(r) \/ CutOff(r)
    <2>1. pc'[r] = "idle"
      BY <1>1, <1>7 DEF RecalculateSave, CutOff, Goto
    <2>2. bill' # bill => bill' = Charged
      BY <1>7 DEF RecalculateSave, CutOff, At, ProgressInv, Undisturbed
    <2>3. QED
      BY <1>1, <1>2, <2>1, <2>2, NoRowsProper DEF Undisturbed, ProgressInv, OneAtATime, Proper
  <1>8. QED
    BY <1>1, <1>2, <1>3, <1>4, <1>5, <1>6, <1>7, NoRowsProper
    DEF Recalculate, ProgressInv, OneAtATime, Proper

\* Every step keeps the invariant and is proper.
LEMMA ProgressNext == OneAtATime /\ ProgressInv /\ [Next]_vars => ProgressInv' /\ Proper
  <1> SUFFICES ASSUME OneAtATime, ProgressInv, [Next]_vars PROVE ProgressInv' /\ Proper
    OBVIOUS
  <1>1. CASE UNCHANGED vars
    <2>1. RowsInv'
      BY RowsNext DEF ProgressInv
    <2>2. QED
      BY <1>1, <2>1, NoRowsProper DEF vars, ProgressInv, Undisturbed, Proper
  <1>2. QED
    BY <1>1, LoadProper, StatusSaveProper, OrderCommitProper, OtherProper DEF Next

-----------------------------------------------------------------------------
(* Theorems.                                                               *)

\* Rows, items and locals keep their types, whatever requests interleave.
THEOREM ProgressTypeCorrect == Spec => []TypeOK
  BY RowsInit, RowsNext, PTL DEF Spec, RowsInv

\* Requests that are served one after the other write what they derived from
\* the rows they loaded.
THEOREM ProgressInvariance == ASSUME OneAtATime PROVE Spec => []ProgressInv
  <1>1. Init => ProgressInv
    <2>1. Init => Placed = {}
      BY DEF Init, Placed, NoRow
    <2>2. ASSUME Init PROVE UnplacedHaveNone
      BY <2>2, ItemsAssumption DEF Init, UnplacedHaveNone, Item, Range
    <2>3. QED
      BY <2>1, <2>2, RowsInit DEF ProgressInv, Synced, Undisturbed, Init
  <1>2. ProgressInv /\ [Next]_vars => ProgressInv'
    BY ProgressNext
  <1>3. QED
    BY <1>1, <1>2, PTL DEF Spec

\* The row of an order says what its items say: derived from them, it charges
\* what is not cancelled and has the status they share.
THEOREM OrdersFollowTheirItems == ASSUME OneAtATime PROVE Spec => []OrderFollowsItems
  <1>1. ASSUME ProgressInv PROVE OrderFollowsItems
    <2>1. SUFFICES ASSUME NEW o \in Placed
                   PROVE  LET active == {i \in ItemsOf[o] : items[i] # "cancelled"}
                              sts    == {items[i] : i \in active}
                              status == orders[o].status
                          IN  /\ orders[o].subtotal = active
                              /\ status = "cancelled" <=> active = {}
                              /\ status = "served" <=> sts = {"served"}
                              /\ status = "ready" <=> "ready" \in sts /\ sts \subseteq {"ready", "served"}
                              /\ status = "preparing" => "preparing" \in sts
      BY DEF OrderFollowsItems
    <2> DEFINE its == Restrict(items, ItemsOf[o])
               active == {i \in ItemsOf[o] : items[i] # "cancelled"}
               sts == {items[i] : i \in active}
    <2>2. orders[o] = SyncOrderFromItems(its)
      BY <1>1 DEF ProgressInv, Synced
    <2>3. DOMAIN its = ItemsOf[o] /\ \A i \in ItemsOf[o] : its[i] = items[i]
      BY DEF Restrict
    <2>4. {i \in DOMAIN its : its[i] # "cancelled"} = active
      BY <2>3
    <2>5. {its[i] : i \in active} = sts
      BY <2>3
    <2> HIDE DEF its
    <2>6. orders[o] = [status |-> IF active = {} THEN "cancelled"
                                  ELSE IF sts = {"served"} THEN "served"
                                  ELSE IF sts \subseteq {"ready", "served"} THEN "ready"
                                  ELSE IF "preparing" \in sts THEN "preparing"
                                  ELSE "submitted",
                       subtotal |-> active]
      BY <2>2, <2>4, <2>5 DEF SyncOrderFromItems
    <2>7. active = {} <=> sts = {}
      OBVIOUS
    <2> HIDE DEF active, sts
    <2>8. /\ orders[o].subtotal = active
          /\ orders[o].status = IF active = {} THEN "cancelled"
                                ELSE IF sts = {"served"} THEN "served"
                                ELSE IF sts \subseteq {"ready", "served"} THEN "ready"
                                ELSE IF "preparing" \in sts THEN "preparing"
                                ELSE "submitted"
      BY <2>6
    <2>9. sts # {} /\ sts \subseteq {"ready", "served"} /\ sts # {"served"} => "ready" \in sts
      OBVIOUS
    <2>10. /\ orders[o].status = "cancelled" <=> active = {}
           /\ orders[o].status = "served" <=> sts = {"served"}
           /\ orders[o].status = "ready" <=> "ready" \in sts /\ sts \subseteq {"ready", "served"}
           /\ orders[o].status = "preparing" => "preparing" \in sts
      BY <2>7, <2>8, <2>9
    <2>11. QED
      BY <2>8, <2>10 DEF active, sts
  <1>2. QED
    BY <1>1, ProgressInvariance, PTL

\* No sum but the exact one is ever written to the bill, also after a request
\* that was cut off between saving an order and recalculating.
THEOREM WrittenSubtotalsAreExact == ASSUME OneAtATime PROVE Spec => WrittenSubtotalIsExact
  <1>1. ProgressInv /\ [Next]_vars => (bill' # bill => bill' = Charged')
    BY ProgressNext DEF Proper
  <1>2. QED
    BY <1>1, ProgressInvariance, PTL DEF Spec, WrittenSubtotalIsExact

\* No change of an order and no station takes up what is served or cancelled.
THEOREM FinishedStays == ASSUME OneAtATime PROVE Spec => FinishedItemsStay
  <1>1. ProgressInv /\ [Next]_vars =>
          \A i \in Item : items[i] \in {"served", "cancelled"} => items'[i] = items[i]
    BY ProgressNext DEF Proper
  <1>2. QED
    BY <1>1, ProgressInvariance, PTL DEF Spec, FinishedItemsStay
=============================================================================
