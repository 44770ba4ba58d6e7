---------------------------- MODULE OrderProgress ----------------------------
(***************************************************************************)
(* The progress of the orders on one open bill: the floor moves whole      *)
(* orders (UpdateOrderStatus), the stations move single items              *)
(* (UpdateKitchenItemStatus), and both derive the order from its items     *)
(* (CustomerOrderProgressService.cs) and then recalculate the bill.  None  *)
(* of it runs in a transaction or under a lock: a handler loads rows,      *)
(* saves the columns it has changed, loads the bill, sums, and saves       *)
(* again.  Orders are placed meanwhile, under the lock of the table.       *)
(*                                                                         *)
(* An amount of money is the set of items it pays for.                     *)
(***************************************************************************)
EXTENDS Naturals, FiniteSets, Functions

CONSTANTS
    Order,        \* orders that may be placed on the bill
    ItemsOf,      \* the items of an order
    Request,      \* slots for requests the API serves at the same time
    MaxFaults,    \* bound: requests cut off
    None

ASSUME ItemsAssumption ==
    /\ DOMAIN ItemsOf = Order
    /\ \A o \in Order : ItemsOf[o] # {}
    /\ \A o, p \in Order : o # p => ItemsOf[o] \cap ItemsOf[p] = {}
ASSUME FaultsAssumption == MaxFaults \in Nat
ASSUME NoneAssumption   == None \notin Order \cup UNION Range(ItemsOf)

VARIABLES
    items,      \* the status of an item
    orders,     \* the row of an order
    bill,       \* subtotal_minor of the bill
    pc, ctx,    \* next statement and locals of a request
    faults

vars == <<items, orders, bill, pc, ctx, faults>>

Item   == UNION Range(ItemsOf)
Status == {"submitted", "preparing", "ready", "served", "cancelled"}
Row    == [status : Status \cup {"none"}, subtotal : SUBSET Item]
Labels == {"idle", "insert", "commit", "save", "load", "sum", "write"}
Loaded == (UNION {[ItemsOf[o] -> Status] : o \in Order}) \cup {<<>>}
Ctx    == [order : Order \cup {None},
           items : Loaded,              \* as they are to be saved
           seen  : Loaded,              \* as they were loaded
           row   : Row,                 \* the order as it was loaded
           loaded : SUBSET Item,        \* the bill as it was loaded
           sum    : SUBSET Item]        \* what its orders add up to

NoRow == [status |-> "none", subtotal |-> {}]
NoCtx == [order |-> None, items |-> <<>>, seen |-> <<>>, row |-> NoRow, loaded |-> {}, sum |-> {}]

TypeOK ==
    /\ items \in [Item -> Status \cup {"none"}]
    /\ orders \in [Order -> Row]
    /\ bill \subseteq Item
    /\ pc \in [Request -> Labels]
    /\ ctx \in [Request -> Ctx]
    /\ faults \in 0..MaxFaults

Init ==
    /\ items = [i \in Item |-> "none"]
    /\ orders = [o \in Order |-> NoRow]
    /\ bill = {}
    /\ pc = [r \in Request |-> "idle"]
    /\ ctx = [r \in Request |-> NoCtx]
    /\ faults = 0

At(r, label)   == pc[r] = label
Goto(r, label) == pc' = [pc EXCEPT ![r] = label]

Placed == {o \in Order : orders[o].status # "none"}

\* `items' with the statuses its replaces.
Over(its) == [i \in Item |-> IF i \in DOMAIN its THEN its[i] ELSE items[i]]

\* What the orders on the bill add up to.
Charged == UNION {orders[o].subtotal : o \in {p \in Placed : orders[p].status # "cancelled"}}

-----------------------------------------------------------------------------
(* How the status of an order and of its items determine each other. *)

GetAllowedNextStatuses(status) ==
    CASE status = "submitted" -> {"preparing", "cancelled"}
      [] status = "preparing" -> {"ready", "cancelled"}
      [] status = "ready"     -> {"served", "cancelled"}
      [] OTHER                -> {}

\* Mutant: a station may take a cancelled item up again.
KitchenMayRevive(status) ==
    CASE status = "submitted" -> {"preparing", "cancelled"}
      [] status = "preparing" -> {"ready", "cancelled"}
      [] status \in {"ready", "cancelled"} -> {"preparing"}
      [] OTHER                -> {}

GetAllowedKitchenItemStatuses(status) ==
    CASE status = "submitted" -> {"preparing", "cancelled"}
      [] status = "preparing" -> {"ready", "cancelled"}
      [] status = "ready"     -> {"preparing"}
      [] OTHER                -> {}

\* Mutant: a cancelled item counts as one that is still to be made.
SyncCountingCancelled(its) ==
    LET sts == {its[i] : i \in DOMAIN its}
    IN  [status |-> IF sts = {"cancelled"} THEN "cancelled"
                    ELSE IF sts = {"served"} THEN "served"
                    ELSE IF sts \subseteq {"ready", "served"} THEN "ready"
                    ELSE IF "preparing" \in sts THEN "preparing"
                    ELSE "submitted",
         subtotal |-> {i \in DOMAIN its : its[i] # "cancelled"}]

SyncOrderFromItems(its) ==
    LET active == {i \in DOMAIN its : its[i] # "cancelled"}
        sts    == {its[i] : i \in active}
    IN  [status |-> IF active = {} THEN "cancelled"
                    ELSE IF sts = {"served"} THEN "served"
                    ELSE IF sts \subseteq {"ready", "served"} THEN "ready"
                    ELSE IF "preparing" \in sts THEN "preparing"
                    ELSE "submitted",
         subtotal |-> active]

\* The items of an order that becomes `target'.
ApplyOrderStatusToItems(its, target) ==
    LET follows(st) == CASE target = "preparing" -> st = "submitted"
                         [] target = "ready"     -> st \in {"submitted", "preparing"}
                         [] target = "served"    -> st # "cancelled"
                         [] target = "cancelled" -> st # "served"
    IN  [i \in DOMAIN its |-> IF follows(its[i]) THEN target ELSE its[i]]

-----------------------------------------------------------------------------
(* Status changes.  A request for a change that is not allowed is refused  *)
(* and changes nothing.                                                    *)

\* The order and its items are loaded.
Load(r, o, its) ==
    /\ At(r, "idle") /\ o \in Placed
    /\ ctx' = [ctx EXCEPT ![r] = [NoCtx EXCEPT !.order = o, !.items = its,
                                     !.seen = Restrict(items, ItemsOf[o]), !.row = orders[o]]]
    /\ Goto(r, "save")
    /\ UNCHANGED <<items, orders, bill, faults>>

UpdateOrderStatus(r, o) ==
    \E target \in GetAllowedNextStatuses(orders[o].status) :
        Load(r, o, ApplyOrderStatusToItems(Restrict(items, ItemsOf[o]), target))

UpdateKitchenItemStatus(r, o) ==
    \E i \in ItemsOf[o] : \E target \in GetAllowedKitchenItemStatuses(items[i]) :
        Load(r, o, [Restrict(items, ItemsOf[o]) EXCEPT ![i] = target])

\* The columns that differ from what was loaded are written.
Changed(new, old, current) == [x \in DOMAIN new |-> IF new[x] # old[x] THEN new[x] ELSE current[x]]

\* Mutant: the bill is saved with the items, from the sum before the change.
StatusSaveWithoutRecalculation(r) ==
    LET c == ctx[r]
    IN  /\ At(r, "save")
        /\ items' = Over(c.items)
        /\ orders' = [orders EXCEPT ![c.order] = SyncOrderFromItems(c.items)]
        /\ bill' = Charged
        /\ Goto(r, "idle") /\ ctx' = [ctx EXCEPT ![r] = NoCtx]
        /\ UNCHANGED faults

StatusSave(r) ==
    LET c == ctx[r]
    IN  /\ At(r, "save")
        /\ items' = Over(Changed(c.items, c.seen, items))
        /\ orders' = [orders EXCEPT ![c.order] = Changed(SyncOrderFromItems(c.items), c.row, @)]
        /\ Goto(r, "load") /\ ctx' = [ctx EXCEPT ![r] = NoCtx]
        /\ UNCHANGED <<bill, faults>>

\* RecalculateSubtotalAsync loads the bill, then sums.
RecalculateLoad(r) ==
    /\ At(r, "load")
    /\ ctx' = [ctx EXCEPT ![r].loaded = bill]
    /\ Goto(r, "sum")
    /\ UNCHANGED <<items, orders, bill, faults>>

RecalculateSum(r) ==
    /\ At(r, "sum")
    /\ ctx' = [ctx EXCEPT ![r].sum = Charged]
    /\ Goto(r, "write")
    /\ UNCHANGED <<items, orders, bill, faults>>

RecalculateSave(r) ==
    /\ At(r, "write")
    /\ bill' = IF ctx[r].sum # ctx[r].loaded THEN ctx[r].sum ELSE bill
    /\ Goto(r, "idle") /\ ctx' = [ctx EXCEPT ![r] = NoCtx]
    /\ UNCHANGED <<items, orders, faults>>

-----------------------------------------------------------------------------
(* Orders. *)

\* The lock of the table is free.
Unlocked == \A r \in Request : pc[r] \notin {"insert", "commit"}

PlaceOrder(r, o) ==
    /\ At(r, "idle") /\ o \notin Placed
    /\ Unlocked
    /\ ctx' = [ctx EXCEPT ![r] = [NoCtx EXCEPT !.order = o, !.loaded = bill]]
    /\ Goto(r, "insert")
    /\ UNCHANGED <<items, orders, bill, faults>>

\* The order is inserted, in sight of its transaction only, and the bill summed.
OrderInsert(r) ==
    /\ At(r, "insert")
    /\ ctx' = [ctx EXCEPT ![r].sum = Charged \cup ItemsOf[ctx[r].order]]
    /\ Goto(r, "commit")
    /\ UNCHANGED <<items, orders, bill, faults>>

\* Mutant: the status of the order is left at the default of its column.
OrderCommitPending(r) ==
    LET o == ctx[r].order
    IN  /\ At(r, "commit")
        /\ items' = Over([i \in ItemsOf[o] |-> "submitted"])
        /\ orders' = [orders EXCEPT ![o] = [status |-> "pending", subtotal |-> ItemsOf[o]]]
        /\ bill' = IF ctx[r].sum # ctx[r].loaded THEN ctx[r].sum ELSE bill
        /\ Goto(r, "idle") /\ ctx' = [ctx EXCEPT ![r] = NoCtx]
        /\ UNCHANGED faults

OrderCommit(r) ==
    LET o == ctx[r].order
    IN  /\ At(r, "commit")
        /\ items' = Over([i \in ItemsOf[o] |-> "submitted"])
        /\ orders' = [orders EXCEPT ![o] = [status |-> "submitted", subtotal |-> ItemsOf[o]]]
        /\ bill' = IF ctx[r].sum # ctx[r].loaded THEN ctx[r].sum ELSE bill
        /\ Goto(r, "idle") /\ ctx' = [ctx EXCEPT ![r] = NoCtx]
        /\ UNCHANGED faults

\* A request is cancelled or fails: what is saved stays, the rest is not done.
CutOff(r) ==
    /\ ~At(r, "idle") /\ faults < MaxFaults
    /\ Goto(r, "idle") /\ ctx' = [ctx EXCEPT ![r] = NoCtx]
    /\ faults' = faults + 1
    /\ UNCHANGED <<items, orders, bill>>

-----------------------------------------------------------------------------
Recalculate(r) == RecalculateLoad(r) \/ RecalculateSum(r) \/ RecalculateSave(r)

Next ==
    \E r \in Request :
        \/ \E o \in Order : UpdateOrderStatus(r, o) \/ UpdateKitchenItemStatus(r, o) \/ PlaceOrder(r, o)
        \/ StatusSave(r) \/ Recalculate(r)
        \/ OrderInsert(r) \/ OrderCommit(r)
        \/ CutOff(r)

Spec == Init /\ [][Next]_vars

-----------------------------------------------------------------------------
(* Properties. *)

\* The row of an order says what its items say, wherever a request is cut off:
\* it charges the items that are not cancelled, and it is cancelled, served or
\* ready exactly when they are (schema.md: the progress of an order is owned by
\* the rows of its items).
OrderFollowsItems ==
    \A o \in Placed :
        LET active == {i \in ItemsOf[o] : items[i] # "cancelled"}
            sts    == {items[i] : i \in active}
            status == orders[o].status
        IN  /\ orders[o].subtotal = active
            /\ status = "cancelled" <=> active = {}
            /\ status = "served" <=> sts = {"served"}
            /\ status = "ready" <=> "ready" \in sts /\ sts \subseteq {"ready", "served"}
            /\ status = "preparing" => "preparing" \in sts

\* A subtotal that is written to the bill is what its orders add up to, also
\* when an earlier request was cut off before its recalculation.
WrittenSubtotalIsExact == [][bill' # bill => bill' = Charged']_vars

\* What is served or cancelled stays so, whatever the floor and the stations do next.
FinishedItemsStay ==
    [][\A i \in Item : items[i] \in {"served", "cancelled"} => items'[i] = items[i]]_vars

=============================================================================
