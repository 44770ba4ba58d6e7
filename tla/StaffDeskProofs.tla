---------------------------- MODULE StaffDeskProofs ----------------------------
(***************************************************************************)
(* Proofs about StaffDesk, for any number of browsers, tables, bills and   *)
(* orders: pages out of date, answers that are lost and lists that are     *)
(* read in any order.                                                      *)
(***************************************************************************)
EXTENDS StaffDesk, FiniteSetTheorems, WellFoundedInduction, TLAPS

-----------------------------------------------------------------------------
(* The inductive invariant.                                                *)

BillRows  == [status : {"none", "open", "closed"}, table : Table \cup {None}]
OrderRows == [bill : Bill \cup {None}, table : Table \cup {None},
              quantity : [MenuItem -> Nat], items : [MenuItem -> Status \cup {"none"}]]
ListRows  == [tables : {<<>>} \cup [Table -> [active : BOOLEAN, bills : SUBSET Bill]],
              bills  : {<<>>} \cup [Bill -> BillRows],
              orders : {<<>>} \cup [Order -> Table \cup {None}],
              board  : SUBSET (Item \X (Status \ {"cancelled"}))]
PageRows  == [kind : Kind \cup {"none"}, lists : ListRows]
FormRows  == {NoForm}
             \cup [op : {"order"}, table : Table, quantity : [MenuItem -> Nat]]
             \cup [op : {"close"}, bill : Bill]
             \cup [op : {"move"}, bill : Bill, table : Table]
             \cup [op : {"merge"}, bill : Bill, into : Bill]
             \cup [op : {"split"}, bill : Bill, orders : SUBSET Order, table : Table]
             \cup [op : {"item"}, item : Item, status : Status]
CtxRows   == [form : FormRows, kind : Kind \cup {"none"}, todo : SUBSET List, lists : ListRows]
DeskRows  == [table : Table \cup {None}, cart : [MenuItem -> Nat], ok : BOOLEAN]
OwnRows   == [closed : SUBSET Bill, placed : SUBSET Order, tapped : [MenuItem -> Nat]]

\* The floor: an open bill is at a table, and alone there.
FloorInv ==
    /\ tables \in [Table -> BOOLEAN]
    /\ bills \in [Bill -> BillRows]
    /\ orders \in [Order -> OrderRows]
    /\ \A x \in Bill : bills[x].status = "open" => bills[x].table \in Table
    /\ \A x, y \in Bill : bills[x].status = "open" /\ bills[y].status = "open" /\ bills[x].table = bills[y].table
                          => x = y

\* What a browser did with success stands on the floor.
OwnStands(b) ==
    /\ \A x \in own[b].closed : bills[x].status = "closed"
    /\ \A o \in own[b].placed : orders[o].table # None

OwnInv == own \in [Browser -> OwnRows] /\ \A b \in Browser : OwnStands(b)

\* Lists show what a browser did, those apart that are still missing.
ShowsOwn(mine, lists, missing) ==
    /\ "bills" \notin missing => \A x \in mine.closed : lists.bills[x].status = "closed"
    /\ "orders" \notin missing => \A o \in mine.placed : lists.orders[o] # None

\* A call is answered with lists that are all read after it; a page that waits for
\* an answer, or is refused, shows what it showed before.
Fresh(b) ==
    /\ pc[b] = "call" => ctx[b].todo = ListsOf(ctx[b].kind)
    /\ pc[b] = "read" /\ ctx[b].kind \in {"service", "pda"} => ShowsOwn(own[b], ctx[b].lists, ctx[b].todo)
    /\ pc[b] \in {"idle", "call", "refused"} /\ pages[b].kind \in {"service", "pda"} =>
          ShowsOwn(own[b], pages[b].lists, {})

PageInv ==
    /\ pages \in [Browser -> PageRows]
    /\ ctx \in [Browser -> CtxRows]
    /\ pc \in [Browser -> Labels]
    /\ \A b \in Browser : Fresh(b)

DeskInv ==
    /\ desk \in [Browser -> DeskRows]
    /\ opens \in 0..MaxOpens /\ taps \in 0..MaxTaps /\ calls \in 0..MaxCalls /\ faults \in 0..MaxFaults

\* Ids in use, and the calls that may still need one.
Used    == {x \in Bill : bills[x].status # "none"}
Taken   == {o \in Order : orders[o].bill # None}
Calling == {b \in Browser : pc[b] = "call"}

CountInv ==
    /\ Cardinality(Used) + Cardinality(Calling) <= calls + 1
    /\ Cardinality(Taken) + Cardinality(Calling) <= calls + Cardinality(Waiting)

StaffInv == FloorInv /\ OwnInv /\ PageInv /\ DeskInv /\ CountInv

-----------------------------------------------------------------------------
(* The lowest number, and the lists.                                       *)

LessThan == {p \in Nat \X Nat : p[1] < p[2]}

\* The lowest of some numbers is one of them.
LEMMA LowestIsOne ==
  ASSUME NEW S \in SUBSET Nat, S # {}
  PROVE  Min(S) \in S
  <1>1. LessThan = OpToRel(<, Nat)
    BY Zenon DEF LessThan, OpToRel
  <1>2. IsWellFoundedOn(LessThan, Nat)
    BY <1>1, NatLessThanWellFounded, Zenon
  <1>3. PICK x \in S : \A y \in S : ~ (<<y, x>> \in LessThan)
    BY <1>2, WFMin
  <1>4. ASSUME NEW y \in S PROVE x <= y
    <2>1. <<y, x>> \in Nat \X Nat /\ <<y, x>>[1] = y /\ <<y, x>>[2] = x
      OBVIOUS
    <2>2. ~(y < x)
      BY <1>3, <2>1 DEF LessThan
    <2>3. QED
      BY <2>2
  <1>5. QED
    BY <1>4 DEF Min

LEMMA LowestType ==
  ASSUME NEW S \in SUBSET Table
  PROVE  Lowest(S) \in S \cup {None} /\ (Lowest(S) # None => Lowest(S) \in Table)
  BY LowestIsOne, TableAssumption DEF Lowest

\* Empty rows.
LEMMA EmptyRows ==
  /\ NoLists \in ListRows /\ NoForm \in FormRows /\ NoPage \in PageRows /\ NoCtx \in CtxRows
  /\ NoDesk \in DeskRows /\ NoCart \in [MenuItem -> Nat] /\ NoPage.kind = "none" /\ NoDesk.table = None
  <1>1. NoLists \in ListRows
    BY DEF NoLists, ListRows
  <1>2. NoForm \in FormRows
    BY DEF FormRows
  <1>3. NoCart \in [MenuItem -> Nat]
    BY DEF NoCart
  <1>4. NoPage \in PageRows /\ NoPage.kind = "none"
    BY <1>1 DEF NoPage, PageRows
  <1>5. NoCtx \in CtxRows
    BY <1>1, <1>2 DEF NoCtx, CtxRows
  <1>6. NoDesk \in DeskRows /\ NoDesk.table = None
    BY <1>3 DEF NoDesk, DeskRows
  <1>7. QED
    BY <1>1, <1>2, <1>3, <1>4, <1>5, <1>6

\* The fields of the forms.
LEMMA FormFields ==
  ASSUME NEW f \in FormRows
  PROVE  /\ f.op = "order" => f.table \in Table /\ f.quantity \in [MenuItem -> Nat]
         /\ f.op = "close" => f.bill \in Bill
         /\ f.op = "move" => f.bill \in Bill /\ f.table \in Table
         /\ f.op = "merge" => f.bill \in Bill /\ f.into \in Bill
         /\ f.op = "split" => f.bill \in Bill /\ f.orders \subseteq Order /\ f.table \in Table
         /\ f.op = "item" => f.item \in Item /\ f.status \in Status
  BY DEF FormRows, NoForm

\* What a browser has.
LEMMA Fields ==
  ASSUME StaffInv, NEW b \in Browser
  PROVE  /\ ctx[b] \in CtxRows /\ ctx[b].form \in FormRows /\ ctx[b].kind \in Kind \cup {"none"}
         /\ ctx[b].todo \subseteq List /\ ctx[b].lists \in ListRows
         /\ pages[b] \in PageRows /\ pages[b].kind \in Kind \cup {"none"} /\ pages[b].lists \in ListRows
         /\ desk[b] \in DeskRows /\ desk[b].table \in Table \cup {None} /\ desk[b].cart \in [MenuItem -> Nat]
         /\ own[b] \in OwnRows /\ own[b].closed \subseteq Bill /\ own[b].placed \subseteq Order
         /\ own[b].tapped \in [MenuItem -> Nat]
  BY DEF StaffInv, PageInv, DeskInv, OwnInv, CtxRows, PageRows, DeskRows, OwnRows

LEMMA FloorFields ==
  ASSUME FloorInv
  PROVE  /\ \A x \in Bill : /\ bills[x] \in BillRows /\ bills[x].status \in {"none", "open", "closed"}
                            /\ bills[x].table \in Table \cup {None}
         /\ \A o \in Order : /\ orders[o] \in OrderRows /\ orders[o].bill \in Bill \cup {None}
                             /\ orders[o].table \in Table \cup {None}
  BY DEF FloorInv, BillRows, OrderRows

\* What is listed has the type of the list, and is what there is.
LEMMA ListedType ==
  ASSUME FloorInv, NEW list \in List, NEW l \in ListRows
  PROVE  /\ [l EXCEPT ![list] = Listed(list)] \in ListRows
         /\ [l EXCEPT ![list] = Listed(list)].bills = IF list = "bills" THEN bills ELSE l.bills
         /\ [l EXCEPT ![list] = Listed(list)].orders =
               IF list = "orders" THEN [o \in Order |-> orders[o].table] ELSE l.orders
  <1>1. CASE list = "tables"
    <2>1. Listed(list) = [t \in Table |-> [active |-> tables[t], bills |-> OpenBillAt(t)]]
      BY <1>1 DEF Listed
    <2>2. Listed(list) \in [Table -> [active : BOOLEAN, bills : SUBSET Bill]]
      BY <2>1 DEF FloorInv, OpenBillAt
    <2>3. QED
      BY <1>1, <2>2 DEF ListRows
  <1>2. CASE list = "bills"
    <2>1. Listed(list) = bills
      BY <1>2 DEF Listed
    <2>2. QED
      BY <1>2, <2>1 DEF ListRows, FloorInv
  <1>3. CASE list = "orders"
    <2>1. Listed(list) = [o \in Order |-> orders[o].table]
      BY <1>3 DEF Listed
    <2>2. Listed(list) \in [Order -> Table \cup {None}]
      BY <2>1, FloorFields
    <2>3. QED
      BY <1>3, <2>1, <2>2 DEF ListRows
  <1>4. CASE list = "board"
    <2>1. Listed(list) = {p \in Item \X (Status \ {"cancelled"}) : orders[p[1][1]].items[p[1][2]] = p[2]}
      BY <1>4 DEF Listed
    <2>2. Listed(list) \subseteq Item \X (Status \ {"cancelled"})
      BY <2>1
    <2>3. QED
      BY <1>4, <2>2 DEF ListRows
  <1>5. QED
    BY <1>1, <1>2, <1>3, <1>4 DEF List

-----------------------------------------------------------------------------
(* Frames: what a step of one browser leaves alone.                        *)

\* The bounds and the finite sets.
LEMMA Finite ==
  /\ MaxOpens \in Nat /\ MaxTaps \in Nat /\ MaxCalls \in Nat /\ MaxFaults \in Nat
  /\ IsFiniteSet(Used) /\ IsFiniteSet(Taken) /\ IsFiniteSet(Calling) /\ IsFiniteSet(Waiting)
  /\ Cardinality(Used) \in Nat /\ Cardinality(Taken) \in Nat /\ Cardinality(Calling) \in Nat
  /\ Cardinality(Waiting) \in Nat /\ Cardinality(Bill) \in Nat /\ Cardinality(Order) \in Nat
  <1>1. MaxOpens \in Nat /\ MaxTaps \in Nat /\ MaxCalls \in Nat /\ MaxFaults \in Nat
    BY BoundAssumption
  <1>2. Used \subseteq Bill /\ Taken \subseteq Order /\ Calling \subseteq Browser /\ Waiting \subseteq Order
    BY IdAssumption DEF Used, Taken, Calling
  <1>3. IsFiniteSet(Used) /\ IsFiniteSet(Taken) /\ IsFiniteSet(Calling) /\ IsFiniteSet(Waiting)
    BY <1>2, IdAssumption, FS_Subset
  <1>4. QED
    BY <1>1, <1>3, IdAssumption, FS_CardinalityType

\* One browser goes on.
LEMMA OnePage ==
  ASSUME StaffInv, NEW b \in Browser, NEW label \in Labels, NEW c \in CtxRows, NEW p \in PageRows, NEW mine,
         pages' = [pages EXCEPT ![b] = p], ctx' = [ctx EXCEPT ![b] = c],
         pc' = [pc EXCEPT ![b] = label],
         own'[b] = mine, \A a \in Browser \ {b} : own'[a] = own[a],
         label = "call" => c.todo = ListsOf(c.kind),
         label = "read" /\ c.kind \in {"service", "pda"} => ShowsOwn(mine, c.lists, c.todo),
         label \in {"idle", "call", "refused"} /\ p.kind \in {"service", "pda"} => ShowsOwn(mine, p.lists, {})
  PROVE  PageInv'
  <1>1. pages \in [Browser -> PageRows] /\ ctx \in [Browser -> CtxRows] /\ pc \in [Browser -> Labels]
    BY DEF StaffInv, PageInv
  <1>2. /\ pages' \in [Browser -> PageRows] /\ ctx' \in [Browser -> CtxRows] /\ pc' \in [Browser -> Labels]
        /\ pages'[b] = p /\ ctx'[b] = c /\ pc'[b] = label
        /\ \A a \in Browser \ {b} : pages'[a] = pages[a] /\ ctx'[a] = ctx[a] /\ pc'[a] = pc[a]
    BY <1>1
  <1>3. Fresh(b)'
    BY <1>2 DEF Fresh, ShowsOwn
  <1>4. \A a \in Browser \ {b} : Fresh(a)'
    BY <1>2 DEF StaffInv, PageInv, Fresh, ShowsOwn
  <1>5. QED
    BY <1>2, <1>3, <1>4 DEF PageInv

\* Nothing is done on the floor.
LEMMA SameFloor ==
  ASSUME StaffInv, UNCHANGED <<bills, orders>>, tables' \in [Table -> BOOLEAN]
  PROVE  FloorInv' /\ Used' = Used /\ Taken' = Taken
  BY DEF StaffInv, FloorInv, Used, Taken

LEMMA SameOwn ==
  ASSUME StaffInv, UNCHANGED <<bills, orders>>, UNCHANGED own
  PROVE  OwnInv'
  BY DEF StaffInv, OwnInv, OwnStands

\* No id is used; calls may end.
LEMMA CountQuiet ==
  ASSUME StaffInv, Used' = Used, Taken' = Taken, Calling' \subseteq Calling, calls' \in Nat, calls' >= calls
  PROVE  CountInv'
  <1>1. Cardinality(Calling') <= Cardinality(Calling) /\ Cardinality(Calling') \in Nat
    BY Finite, FS_Subset, FS_CardinalityType
  <1>2. calls \in Nat
    BY Finite DEF StaffInv, DeskInv
  <1>3. QED
    BY <1>1, <1>2, Finite DEF StaffInv, CountInv

\* A step of a page: its call goes on or ends, and uses no id.
LEMMA PageStep ==
  ASSUME StaffInv, NEW b \in Browser, NEW label \in Labels \ {"call"}, NEW c \in CtxRows, NEW p \in PageRows,
         pages' = [pages EXCEPT ![b] = p], ctx' = [ctx EXCEPT ![b] = c],
         pc' = [pc EXCEPT ![b] = label],
         UNCHANGED <<tables, bills, orders>>, UNCHANGED own, DeskInv', calls' = calls,
         label = "read" /\ c.kind \in {"service", "pda"} => ShowsOwn(own[b], c.lists, c.todo),
         label \in {"idle", "call", "refused"} /\ p.kind \in {"service", "pda"} => ShowsOwn(own[b], p.lists, {})
  PROVE  StaffInv'
  <1>1. PageInv'
    BY OnePage
  <1>2. FloorInv' /\ Used' = Used /\ Taken' = Taken
    BY SameFloor DEF StaffInv, FloorInv
  <1>3. OwnInv'
    BY SameOwn
  <1>4. Calling' \subseteq Calling
    BY DEF Calling, StaffInv, PageInv
  <1>5. CountInv'
    BY <1>2, <1>4, CountQuiet, Finite DEF StaffInv, DeskInv
  <1>6. QED
    BY <1>1, <1>2, <1>3, <1>5 DEF StaffInv

\* A tap on the desk: the calls and the pages stay, and what was done.
LEMMA TapStep ==
  ASSUME StaffInv, NEW b \in Browser, NEW d \in DeskRows, desk' = [desk EXCEPT ![b] = d],
         UNCHANGED <<tables, bills, orders, pages, pc, ctx, opens, calls, faults>>,
         taps < MaxTaps, taps' = taps + 1,
         own' \in [Browser -> OwnRows],
         \A a \in Browser : own'[a].closed = own[a].closed /\ own'[a].placed = own[a].placed
  PROVE  StaffInv'
  <1>1. FloorInv' /\ Used' = Used /\ Taken' = Taken
    BY SameFloor DEF StaffInv, FloorInv
  <1>2. OwnInv'
    BY DEF StaffInv, OwnInv, OwnStands
  <1>3. PageInv'
    <2>1. \A a \in Browser : Fresh(a)'
      BY DEF StaffInv, PageInv, Fresh, ShowsOwn
    <2>2. QED
      BY <2>1 DEF StaffInv, PageInv
  <1>4. DeskInv'
    BY Finite DEF StaffInv, DeskInv
  <1>5. Calling' = Calling
    BY DEF Calling
  <1>6. CountInv'
    BY <1>1, <1>5, CountQuiet, Finite DEF StaffInv, DeskInv
  <1>7. QED
    BY <1>1, <1>2, <1>3, <1>4, <1>6 DEF StaffInv

\* A form is sent: one call more may use an id.
LEMMA SendStep ==
  ASSUME StaffInv, NEW b \in Browser, NEW form \in FormRows, Send(b, form)
  PROVE  StaffInv'
  <1> DEFINE c == [NoCtx EXCEPT !.form = form, !.kind = pages[b].kind, !.todo = ListsOf(pages[b].kind)]
             p == pages[b]
  <1>1. /\ pc[b] = "idle" /\ calls < MaxCalls /\ calls' = calls + 1
        /\ ctx' = [ctx EXCEPT ![b] = c] /\ pc' = [pc EXCEPT ![b] = "call"]
        /\ UNCHANGED <<tables, bills, orders>> /\ UNCHANGED <<desk, opens, taps, faults>>
        /\ UNCHANGED pages /\ UNCHANGED own
    BY DEF Send, At, Goto, floor
  <1>2. ListsOf(p.kind) \subseteq List
    BY DEF ListsOf, List
  <1>3. c \in CtxRows /\ c.todo = ListsOf(p.kind) /\ c.kind = p.kind
    BY <1>2, EmptyRows, Fields DEF CtxRows
  <1>4. pages' = [pages EXCEPT ![b] = p] /\ p \in PageRows
    BY <1>1, Fields DEF StaffInv, PageInv
  <1>5. p.kind \in {"service", "pda"} => ShowsOwn(own[b], p.lists, {})
    BY <1>1 DEF StaffInv, PageInv, Fresh
  <1> HIDE DEF c, p
  <1>6. "call" \in Labels
    BY DEF Labels
  <1>7. PageInv'
    BY <1>1, <1>3, <1>4, <1>5, <1>6, OnePage
  <1>8. FloorInv' /\ Used' = Used /\ Taken' = Taken
    BY <1>1, SameFloor DEF StaffInv, FloorInv
  <1>9. OwnInv'
    BY <1>1, SameOwn
  <1>10. DeskInv'
    BY <1>1, Finite DEF StaffInv, DeskInv
  <1>11. Calling' = Calling \cup {b}
    BY <1>1 DEF Calling, StaffInv, PageInv
  <1>12. Cardinality(Calling') <= Cardinality(Calling) + 1 /\ Cardinality(Calling') \in Nat
    <2>1. IsFiniteSet(Calling) /\ Cardinality(Calling) \in Nat
      BY Finite
    <2>2. Cardinality(Calling \cup {b}) \in {Cardinality(Calling), Cardinality(Calling) + 1}
      BY <2>1, FS_AddElement
    <2>3. QED
      BY <1>11, <2>1, <2>2
  <1>13. CountInv'
    BY <1>1, <1>8, <1>12, Finite DEF StaffInv, CountInv, DeskInv
  <1>14. QED
    BY <1>7, <1>8, <1>9, <1>10, <1>13 DEF StaffInv

-----------------------------------------------------------------------------
(* Pages.                                                                  *)

LEMMA OpenPageStep ==
  ASSUME StaffInv, NEW b \in Browser, NEW kind \in Kind, OpenPage(b, kind)
  PROVE  StaffInv'
  <1> DEFINE c == [NoCtx EXCEPT !.kind = kind, !.todo = ListsOf(kind)]
  <1>1. /\ pages' = [pages EXCEPT ![b] = NoPage] /\ desk' = [desk EXCEPT ![b] = NoDesk]
        /\ ctx' = [ctx EXCEPT ![b] = c] /\ pc' = [pc EXCEPT ![b] = "read"]
        /\ opens < MaxOpens /\ opens' = opens + 1
        /\ UNCHANGED <<tables, bills, orders>> /\ UNCHANGED own /\ UNCHANGED <<taps, calls, faults>>
    BY DEF OpenPage, Goto, floor
  <1>2. ListsOf(kind) \subseteq List /\ (kind \in {"service", "pda"} => {"bills", "orders"} \subseteq ListsOf(kind))
    BY DEF ListsOf, List
  <1>3. c \in CtxRows /\ c.todo = ListsOf(kind) /\ c.kind = kind
    BY <1>2, EmptyRows DEF CtxRows
  <1> HIDE DEF c
  <1>4. c.kind \in {"service", "pda"} => ShowsOwn(own[b], c.lists, c.todo)
    BY <1>2, <1>3 DEF ShowsOwn
  <1>5. DeskInv'
    BY <1>1, Finite, EmptyRows DEF StaffInv, DeskInv
  <1>6. "read" \in Labels \ {"call"} /\ "read" \notin {"idle", "call", "refused"}
    BY DEF Labels
  <1>7. NoPage \in PageRows
    BY EmptyRows
  <1>8. QED
    BY <1>1, <1>3, <1>4, <1>5, <1>6, <1>7, PageStep

\* A list that is read shows what was done before.
LEMMA ReadListStep ==
  ASSUME StaffInv, NEW b \in Browser, ReadList(b)
  PROVE  StaffInv'
  <1>1. PICK list \in ctx[b].todo :
          /\ pc[b] = "read"
          /\ ctx' = [ctx EXCEPT ![b].todo = @ \ {list}, ![b].lists[list] = Listed(list)]
          /\ UNCHANGED <<floor, pages, desk, pc, own, bounds>>
    BY DEF ReadList, At
  <1> DEFINE l == [ctx[b].lists EXCEPT ![list] = Listed(list)]
             todo == ctx[b].todo \ {list}
             c == [ctx[b] EXCEPT !.todo = todo, !.lists = l]
  <1>2. list \in List
    BY Fields
  <1>3. /\ l \in ListRows
        /\ l.bills = IF list = "bills" THEN bills ELSE ctx[b].lists.bills
        /\ l.orders = IF list = "orders" THEN [o \in Order |-> orders[o].table] ELSE ctx[b].lists.orders
    BY <1>2, ListedType, Fields DEF StaffInv
  <1>4. ctx' = [ctx EXCEPT ![b] = c]
    BY <1>1 DEF StaffInv, PageInv
  <1> HIDE DEF l
  <1>5. c \in CtxRows /\ c.todo = todo /\ c.lists = l /\ c.kind = ctx[b].kind
    BY <1>3, Fields DEF CtxRows
  <1>6. ASSUME c.kind \in {"service", "pda"} PROVE ShowsOwn(own[b], l, todo)
    <2>1. ShowsOwn(own[b], ctx[b].lists, ctx[b].todo)
      BY <1>1, <1>5, <1>6 DEF StaffInv, PageInv, Fresh
    <2>2. /\ \A x \in own[b].closed : bills[x].status = "closed"
          /\ \A o \in own[b].placed : o \in Order /\ orders[o].table # None
      BY Fields DEF StaffInv, OwnInv, OwnStands
    <2>3. QED
      BY <1>3, <2>1, <2>2 DEF ShowsOwn
  <1> HIDE DEF c, todo
  <1>7. /\ pages' = [pages EXCEPT ![b] = pages[b]] /\ pc' = [pc EXCEPT ![b] = "read"]
        /\ UNCHANGED <<tables, bills, orders>> /\ UNCHANGED own /\ calls' = calls
    BY <1>1 DEF StaffInv, PageInv, floor, bounds
  <1>8. DeskInv'
    BY <1>1 DEF StaffInv, DeskInv, bounds
  <1>9. "read" \in Labels \ {"call"} /\ "read" \notin {"idle", "call", "refused"} /\ pages[b] \in PageRows
    BY Fields DEF Labels
  <1>10. QED
    BY <1>4, <1>5, <1>6, <1>7, <1>8, <1>9, PageStep

\* The desk of a page that is shown.
LEMMA ShowPageStep ==
  ASSUME StaffInv, NEW b \in Browser, ShowPage(b)
  PROVE  StaffInv'
  <1> DEFINE c == ctx[b]
             p == [kind |-> c.kind, lists |-> c.lists]
             d == IF c.form = NoForm THEN [NoDesk EXCEPT !.table = FirstTable(c.kind, c.lists.tables)]
                  ELSE IF c.form.op = "order" THEN AfterOk(desk[b]) ELSE desk[b]
  <1>1. /\ pc[b] = "read" /\ c.todo = {}
        /\ pages' = [pages EXCEPT ![b] = p] /\ pc' = [pc EXCEPT ![b] = "idle"]
        /\ ctx' = [ctx EXCEPT ![b] = NoCtx]
        /\ UNCHANGED <<tables, bills, orders>> /\ UNCHANGED own /\ UNCHANGED <<opens, taps, calls, faults>>
    BY DEF ShowPage, At, Goto, floor, bounds
  <1>2. desk' = [desk EXCEPT ![b] = d]
    BY DEF ShowPage, StaffInv, DeskInv
  <1>3. d \in DeskRows
    <2>1. FirstTable(c.kind, c.lists.tables) \in Table \cup {None}
      BY LowestType DEF FirstTable
    <2>2. [NoDesk EXCEPT !.table = FirstTable(c.kind, c.lists.tables)] \in DeskRows
      BY <2>1, EmptyRows DEF DeskRows
    <2>3. AfterOk(desk[b]) \in DeskRows
      BY Fields, EmptyRows DEF AfterOk, DeskRows
    <2>4. QED
      BY <2>2, <2>3, Fields
  <1>4. p \in PageRows /\ p.kind = c.kind /\ p.lists = c.lists
    BY Fields DEF PageRows
  <1>5. c.kind \in {"service", "pda"} => ShowsOwn(own[b], c.lists, {})
    BY <1>1 DEF StaffInv, PageInv, Fresh
  <1> HIDE DEF p, d
  <1>6. DeskInv'
    BY <1>1, <1>2, <1>3 DEF StaffInv, DeskInv
  <1>7. "idle" \in Labels \ {"call"} /\ "idle" # "read" /\ NoCtx \in CtxRows
    BY EmptyRows DEF Labels
  <1>8. p.kind \in {"service", "pda"} => ShowsOwn(own[b], p.lists, {})
    BY <1>4, <1>5
  <1> HIDE DEF c
  <1>9. QED
    BY <1>1, <1>4, <1>6, <1>7, <1>8, PageStep

LEMMA ShowRefusalStep ==
  ASSUME StaffInv, NEW b \in Browser, ShowRefusal(b)
  PROVE  StaffInv'
  <1> DEFINE d == [desk[b] EXCEPT !.ok = IF ctx[b].form.op = "order" THEN FALSE ELSE desk[b].ok]
  <1>1. /\ pc[b] = "refused" /\ pc' = [pc EXCEPT ![b] = "idle"] /\ ctx' = [ctx EXCEPT ![b] = NoCtx]
        /\ UNCHANGED <<tables, bills, orders>> /\ UNCHANGED own /\ UNCHANGED <<opens, taps, calls, faults>>
        /\ UNCHANGED pages
    BY DEF ShowRefusal, At, Goto, floor, bounds
  <1>2. desk' = [desk EXCEPT ![b] = d]
    BY DEF ShowRefusal, StaffInv, DeskInv
  <1>3. d \in DeskRows
    BY Fields DEF DeskRows
  <1>4. pages' = [pages EXCEPT ![b] = pages[b]] /\ pages[b] \in PageRows
    BY <1>1, Fields DEF StaffInv, PageInv
  <1>5. pages[b].kind \in {"service", "pda"} => ShowsOwn(own[b], pages[b].lists, {})
    BY <1>1 DEF StaffInv, PageInv, Fresh
  <1> HIDE DEF d
  <1>6. DeskInv'
    BY <1>1, <1>2, <1>3 DEF StaffInv, DeskInv
  <1>7. "idle" \in Labels \ {"call"} /\ "idle" # "read" /\ NoCtx \in CtxRows
    BY EmptyRows DEF Labels
  <1>8. QED
    BY <1>1, <1>4, <1>5, <1>6, <1>7, PageStep

LEMMA CallFailsStep ==
  ASSUME StaffInv, NEW b \in Browser, CallFails(b)
  PROVE  StaffInv'
  <1>1. /\ faults < MaxFaults /\ faults' = faults + 1
        /\ UNCHANGED <<tables, bills, orders>> /\ UNCHANGED own /\ UNCHANGED <<opens, taps, calls>>
    BY DEF CallFails, floor
  <1>2. {"idle", "refused"} \subseteq Labels \ {"call"} /\ NoCtx \in CtxRows /\ NoPage \in PageRows
        /\ NoPage.kind \notin {"service", "pda"}
    BY EmptyRows DEF Labels
  <1>3. CASE pc[b] = "call" /\ pc' = [pc EXCEPT ![b] = "refused"] /\ UNCHANGED <<pages, desk, ctx>>
    <2>1. /\ pages' = [pages EXCEPT ![b] = pages[b]] /\ pages[b] \in PageRows
          /\ ctx' = [ctx EXCEPT ![b] = ctx[b]] /\ ctx[b] \in CtxRows
      BY <1>3, Fields DEF StaffInv, PageInv
    <2>2. pages[b].kind \in {"service", "pda"} => ShowsOwn(own[b], pages[b].lists, {})
      BY <1>3 DEF StaffInv, PageInv, Fresh
    <2>3. DeskInv'
      BY <1>1, <1>3, Finite DEF StaffInv, DeskInv
    <2>4. QED
      BY <1>1, <1>2, <1>3, <2>1, <2>2, <2>3, PageStep
  <1>4. CASE /\ pc' = [pc EXCEPT ![b] = "idle"] /\ ctx' = [ctx EXCEPT ![b] = NoCtx]
             /\ pages' = [pages EXCEPT ![b] = NoPage] /\ desk' = [desk EXCEPT ![b] = NoDesk]
    <2>1. DeskInv'
      BY <1>1, <1>4, Finite, EmptyRows DEF StaffInv, DeskInv
    <2>2. QED
      BY <1>1, <1>2, <1>4, <2>1, PageStep
  <1>5. QED
    BY <1>3, <1>4 DEF CallFails, At, Goto

-----------------------------------------------------------------------------
(* Taps and forms.                                                         *)

LEMMA ChooseTableStep ==
  ASSUME StaffInv, NEW b \in Browser, NEW t \in Table, ChooseTable(b, t)
  PROVE  StaffInv'
  <1> DEFINE d == [desk[b] EXCEPT !.table = t]
  <1>1. desk' = [desk EXCEPT ![b] = d]
    BY DEF ChooseTable, StaffInv, DeskInv
  <1>2. d \in DeskRows
    BY Fields DEF DeskRows
  <1> HIDE DEF d
  <1>3. /\ taps < MaxTaps /\ taps' = taps + 1 /\ own' = own
        /\ UNCHANGED <<tables, bills, orders, pages, pc, ctx, opens, calls, faults>>
    BY DEF ChooseTable, floor
  <1>4. own' \in [Browser -> OwnRows]
    BY <1>3 DEF StaffInv, OwnInv
  <1>5. QED
    BY <1>1, <1>2, <1>3, <1>4, TapStep

LEMMA ChangeCartStep ==
  ASSUME StaffInv, NEW b \in Browser, NEW cart \in [MenuItem -> Nat], ChangeCart(b, cart),
         own' \in [Browser -> OwnRows],
         \A a \in Browser : own'[a].closed = own[a].closed /\ own'[a].placed = own[a].placed
  PROVE  StaffInv'
  <1> DEFINE d == [desk[b] EXCEPT !.cart = cart]
  <1>1. desk' = [desk EXCEPT ![b] = d]
    BY DEF ChangeCart, StaffInv, DeskInv
  <1>2. d \in DeskRows
    BY Fields DEF DeskRows
  <1> HIDE DEF d
  <1>3. /\ taps < MaxTaps /\ taps' = taps + 1
        /\ UNCHANGED <<tables, bills, orders, pages, pc, ctx, opens, calls, faults>>
    BY DEF ChangeCart, floor
  <1>4. QED
    BY <1>1, <1>2, <1>3, TapStep

LEMMA CartStep ==
  ASSUME StaffInv, NEW b \in Browser,
         (\E m \in MenuItem : Increment(b, m) \/ Decrement(b, m)) \/ ClearCart(b)
  PROVE  StaffInv'
  <1>1. own \in [Browser -> OwnRows]
    BY DEF StaffInv, OwnInv
  <1>2. ASSUME NEW m \in MenuItem, Increment(b, m) PROVE StaffInv'
    <2> DEFINE mine == [own[b] EXCEPT !.tapped = [own[b].tapped EXCEPT ![m] = own[b].tapped[m] + 1]]
    <2>1. [desk[b].cart EXCEPT ![m] = desk[b].cart[m] + 1] \in [MenuItem -> Nat]
          /\ [own[b].tapped EXCEPT ![m] = own[b].tapped[m] + 1] \in [MenuItem -> Nat]
      BY Fields
    <2>2. ChangeCart(b, [desk[b].cart EXCEPT ![m] = desk[b].cart[m] + 1]) /\ own' = [own EXCEPT ![b] = mine]
      BY <1>1, <1>2 DEF Increment
    <2>3. mine \in OwnRows /\ mine.closed = own[b].closed /\ mine.placed = own[b].placed
      BY <2>1, Fields DEF OwnRows
    <2> HIDE DEF mine
    <2>4. /\ own' \in [Browser -> OwnRows]
          /\ \A a \in Browser : own'[a].closed = own[a].closed /\ own'[a].placed = own[a].placed
      BY <1>1, <2>2, <2>3
    <2>5. QED
      BY <2>1, <2>2, <2>4, ChangeCartStep
  <1>3. ASSUME NEW m \in MenuItem, Decrement(b, m) PROVE StaffInv'
    <2>1. [desk[b].cart EXCEPT ![m] = desk[b].cart[m] - 1] \in [MenuItem -> Nat]
      BY <1>3, Fields DEF Decrement
    <2>2. ChangeCart(b, [desk[b].cart EXCEPT ![m] = desk[b].cart[m] - 1]) /\ own' = own
      BY <1>3 DEF Decrement
    <2>3. QED
      BY <1>1, <2>1, <2>2, ChangeCartStep
  <1>4. CASE ClearCart(b)
    BY <1>1, <1>4, EmptyRows, ChangeCartStep DEF ClearCart
  <1>5. QED
    BY <1>2, <1>3, <1>4

\* The table that is worked on is one of the tables, if any.
LEMMA SelectedType ==
  ASSUME StaffInv, NEW b \in Browser
  PROVE  SelectedTable(b) \in Table \cup {None} /\ Active(b) \subseteq Table
  <1>1. Active(b) \subseteq Table
    BY DEF Active
  <1>2. QED
    BY <1>1, LowestType, Fields DEF SelectedTable

\* Every form has its fields from the page.
LEMMA FormsStep ==
  ASSUME StaffInv, NEW b \in Browser,
         SendOrder(b) \/ SendClose(b) \/ SendMove(b) \/ SendMerge(b) \/ SendSplit(b) \/ SendItemStatus(b)
  PROVE  StaffInv'
  <1>1. ShownBill(b) \subseteq Bill /\ ShownOpen(b) \subseteq Bill
    BY DEF ShownBill, ShownOpen, Checks
  <1>2. CASE SendOrder(b)
    <2> DEFINE f == [op |-> "order", table |-> SelectedTable(b), quantity |-> desk[b].cart]
    <2>1. SelectedTable(b) # None /\ Send(b, f)
      BY <1>2 DEF SendOrder
    <2>2. f \in FormRows
      BY <2>1, SelectedType, Fields DEF FormRows
    <2>3. QED
      BY <2>1, <2>2, SendStep
  <1>3. CASE SendClose(b)
    <2>1. PICK x \in ShownBill(b) : Send(b, [op |-> "close", bill |-> x])
      BY <1>3 DEF SendClose
    <2>2. [op |-> "close", bill |-> x] \in FormRows
      BY <1>1 DEF FormRows
    <2>3. QED
      BY <2>1, <2>2, SendStep
  <1>4. CASE SendMove(b)
    <2>1. PICK x \in ShownBill(b), t \in Active(b) \ {SelectedTable(b)} :
             Send(b, [op |-> "move", bill |-> x, table |-> t])
      BY <1>4 DEF SendMove
    <2>2. [op |-> "move", bill |-> x, table |-> t] \in FormRows
      BY <1>1, SelectedType DEF FormRows
    <2>3. QED
      BY <2>1, <2>2, SendStep
  <1>5. CASE SendMerge(b)
    <2>1. PICK x \in ShownBill(b) : \E y \in ShownOpen(b) \ {x} : Send(b, [op |-> "merge", bill |-> y, into |-> x])
      BY <1>5 DEF SendMerge
    <2>2. PICK y \in ShownOpen(b) : Send(b, [op |-> "merge", bill |-> y, into |-> x])
      BY <2>1
    <2>3. [op |-> "merge", bill |-> y, into |-> x] \in FormRows
      BY <1>1 DEF FormRows
    <2>4. QED
      BY <2>2, <2>3, SendStep
  <1>6. CASE SendSplit(b)
    <2>1. PICK x \in ShownBill(b), t \in Active(b) \ {SelectedTable(b)} :
             \E os \in SUBSET {o \in Order : Given(b).orders[o] = SelectedTable(b)} \ {{}} :
                Send(b, [op |-> "split", bill |-> x, orders |-> os, table |-> t])
      BY <1>6 DEF SendSplit
    <2>2. PICK os \in SUBSET Order : Send(b, [op |-> "split", bill |-> x, orders |-> os, table |-> t])
      BY <2>1
    <2>3. [op |-> "split", bill |-> x, orders |-> os, table |-> t] \in FormRows
      BY <1>1, SelectedType DEF FormRows
    <2>4. QED
      BY <2>2, <2>3, SendStep
  <1>7. CASE SendItemStatus(b)
    <2>1. PICK card \in Given(b).board : \E status \in CardMoves(card[2]) :
             Send(b, [op |-> "item", item |-> card[1], status |-> status])
      BY <1>7 DEF SendItemStatus
    <2>2. Given(b).board \subseteq Item \X (Status \ {"cancelled"})
      BY Fields DEF Given, ListRows
    <2>3. PICK status \in CardMoves(card[2]) : Send(b, [op |-> "item", item |-> card[1], status |-> status])
      BY <2>1
    <2>4. status \in Status
      <3>1. card[2] \in {"submitted", "preparing", "ready"}
        BY <2>1, <2>2 DEF Status
      <3>2. QED
        BY <3>1, <2>3 DEF CardMoves, Status
    <2>5. [op |-> "item", item |-> card[1], status |-> status] \in FormRows
      BY <2>1, <2>2, <2>4 DEF FormRows
    <2>6. QED
      BY <2>3, <2>5, SendStep
  <1>8. QED
    BY <1>2, <1>3, <1>4, <1>5, <1>6, <1>7

-----------------------------------------------------------------------------
(* What the API does.                                                      *)

\* An id is free for every call under way.
LEMMA FreeIds ==
  ASSUME StaffInv, NEW b \in Browser, pc[b] = "call"
  PROVE  (\E x \in Bill : bills[x].status = "none") /\ (\E o \in Order : orders[o].bill = None)
  <1>1. b \in Calling
    BY DEF Calling
  <1>2. Cardinality(Calling) >= 1
    <2>1. Cardinality(Calling) # 0
      BY <1>1, Finite, FS_EmptySet
    <2>2. QED
      BY <2>1, Finite
  <1>3. calls \in 0..MaxCalls
    BY DEF StaffInv, DeskInv
  <1>4. Cardinality(Used) <= MaxCalls /\ Cardinality(Taken) < MaxCalls + Cardinality(Waiting)
    BY <1>2, <1>3, Finite DEF StaffInv, CountInv
  <1>5. Cardinality(Bill) > MaxCalls /\ Cardinality(Order) >= Cardinality(Waiting) + MaxCalls
    BY IdAssumption
  <1>6. Used # Bill /\ Taken # Order
    BY <1>4, <1>5, Finite
  <1>7. Used \subseteq Bill /\ Taken \subseteq Order
    BY DEF Used, Taken
  <1>8. QED
    BY <1>6, <1>7 DEF Used, Taken

\* The bill for a table is the open one that is there, or a new one.
LEMMA BillForIs ==
  ASSUME StaffInv, NEW b \in Browser, pc[b] = "call", NEW t \in Table
  PROVE  /\ BillFor(t) \in Bill
         /\ \/ bills[BillFor(t)].status = "open" /\ bills[BillFor(t)].table = t
            \/ bills[BillFor(t)].status = "none" /\ \A x \in Bill : ~(bills[x].status = "open" /\ bills[x].table = t)
  <1> DEFINE S == IF OpenBillAt(t) # {} THEN OpenBillAt(t) ELSE {x \in Bill : bills[x].status = "none"}
  <1>1. S # {}
    BY FreeIds
  <1>2. BillFor(t) \in S
    BY <1>1 DEF BillFor, AnyOf
  <1>3. QED
    BY <1>2 DEF OpenBillAt

\* A call that was served uses one id at most of each kind.
LEMMA CountServed ==
  ASSUME StaffInv, NEW b \in Browser, pc[b] = "call", NEW label, label # "call",
         pc' = [pc EXCEPT ![b] = label], calls' = calls,
         NEW x, Used' \subseteq Used \cup {x}, NEW o, Taken' \subseteq Taken \cup {o}
  PROVE  CountInv'
  <1>1. Calling' = Calling \ {b} /\ b \in Calling
    BY DEF Calling, StaffInv, PageInv
  <1>2. Cardinality(Calling \ {b}) = Cardinality(Calling) - 1
    BY <1>1, Finite, FS_RemoveElement
  <1>3. Cardinality(Used') \in Nat /\ Cardinality(Used') <= Cardinality(Used) + 1
    <2>1. IsFiniteSet(Used) /\ Cardinality(Used) \in Nat
      BY Finite
    <2>2. IsFiniteSet(Used \cup {x}) /\ Cardinality(Used \cup {x}) \in {Cardinality(Used), Cardinality(Used) + 1}
      BY <2>1, FS_AddElement
    <2>3. IsFiniteSet(Used') /\ Cardinality(Used') <= Cardinality(Used \cup {x})
      BY <2>2, FS_Subset
    <2>4. Cardinality(Used') \in Nat
      BY <2>3, FS_CardinalityType
    <2>5. QED
      BY <2>1, <2>2, <2>3, <2>4
  <1>4. Cardinality(Taken') \in Nat /\ Cardinality(Taken') <= Cardinality(Taken) + 1
    <2>1. IsFiniteSet(Taken) /\ Cardinality(Taken) \in Nat
      BY Finite
    <2>2. IsFiniteSet(Taken \cup {o}) /\ Cardinality(Taken \cup {o}) \in {Cardinality(Taken), Cardinality(Taken) + 1}
      BY <2>1, FS_AddElement
    <2>3. IsFiniteSet(Taken') /\ Cardinality(Taken') <= Cardinality(Taken \cup {o})
      BY <2>2, FS_Subset
    <2>4. Cardinality(Taken') \in Nat
      BY <2>3, FS_CardinalityType
    <2>5. QED
      BY <2>1, <2>2, <2>3, <2>4
  <1>5. calls \in Nat
    BY Finite DEF StaffInv, DeskInv
  <1>6. QED
    BY <1>1, <1>2, <1>3, <1>4, <1>5, Finite DEF StaffInv, CountInv

\* What may not happen to a closed bill, and what stands of the work of others.
Kept ==
    /\ \A x \in Bill : bills[x].status = "closed" => bills'[x].status = "closed" /\ OrdersOf(x) \subseteq OrdersOf(x)'
    /\ \A o \in Order : orders[o].table # None => orders'[o].table # None

\* The call is answered, or its answer is lost; own has what was told.
LEMMA ServedStep ==
  ASSUME StaffInv, NEW b \in Browser, pc[b] = "call", NEW op, Serving(b, op), Answered(b),
         tables' = tables, FloorInv', Kept,
         NEW told \in OwnRows,
         own' = own \/ own' = [own EXCEPT ![b] = IF pc'[b] = "read" THEN told ELSE own[b]],
         \A x \in told.closed : bills'[x].status = "closed",
         \A o \in told.placed : orders'[o].table # None,
         NEW x, Used' \subseteq Used \cup {x}, NEW o, Taken' \subseteq Taken \cup {o}
  PROVE  StaffInv'
  <1>1. /\ own \in [Browser -> OwnRows] /\ pc \in [Browser -> Labels]
        /\ pages \in [Browser -> PageRows] /\ ctx \in [Browser -> CtxRows]
    BY DEF StaffInv, OwnInv, PageInv
  <1>2. PICK label \in {"read", "refused"} : pc' = [pc EXCEPT ![b] = label]
    BY DEF Answered, Served, Goto
  <1>3. label \in Labels /\ label # "call" /\ pc'[b] = label
    BY <1>1, <1>2 DEF Labels
  <1>4. PICK mine \in {own[b], told} : own' = [own EXCEPT ![b] = mine] /\ (label # "read" => mine = own[b])
    BY <1>1, <1>3
  <1>5. own' \in [Browser -> OwnRows] /\ own'[b] = mine /\ \A a \in Browser \ {b} : own'[a] = own[a]
    BY <1>1, <1>4
  <1>6. \A a \in Browser : /\ own[a].closed \subseteq Bill /\ own[a].placed \subseteq Order
                           /\ \A y \in own[a].closed : bills'[y].status = "closed"
                           /\ \A p \in own[a].placed : orders'[p].table # None
    BY Fields DEF Kept, StaffInv, OwnInv, OwnStands
  <1>7. \A a \in Browser : OwnStands(a)'
    BY <1>4, <1>5, <1>6 DEF OwnStands
  <1>8. /\ UNCHANGED <<pages, desk, opens, taps, calls>> /\ UNCHANGED ctx
        /\ faults' \in 0..MaxFaults
    BY Finite DEF Serving, Answered, Served, StaffInv, DeskInv
  <1>9. DeskInv'
    BY <1>8 DEF StaffInv, DeskInv
  <1>10. PageInv'
    <2>1. pages' = [pages EXCEPT ![b] = pages[b]] /\ ctx' = [ctx EXCEPT ![b] = ctx[b]]
      BY <1>1, <1>8
    <2>2. label = "read" /\ ctx[b].kind \in {"service", "pda"} => ShowsOwn(mine, ctx[b].lists, ctx[b].todo)
      BY DEF StaffInv, PageInv, Fresh, ShowsOwn, ListsOf
    <2>3. label \in {"idle", "call", "refused"} /\ pages[b].kind \in {"service", "pda"} =>
             ShowsOwn(mine, pages[b].lists, {})
      BY <1>4 DEF StaffInv, PageInv, Fresh
    <2>4. QED
      BY <1>1, <1>2, <1>3, <1>5, <2>1, <2>2, <2>3, Fields, OnePage
  <1>11. CountInv'
    BY <1>2, <1>3, <1>8, CountServed
  <1>12. QED
    BY <1>5, <1>7, <1>9, <1>10, <1>11 DEF StaffInv, OwnInv

\* A refusal leaves the floor as it is.
LEMMA RefuseStep ==
  ASSUME StaffInv, NEW b \in Browser, pc[b] = "call", NEW op, Serving(b, op), Refuse(b)
  PROVE  StaffInv' /\ Kept
  <1>1. /\ pc' = [pc EXCEPT ![b] = "refused"] /\ UNCHANGED own /\ UNCHANGED ctx
        /\ UNCHANGED <<tables, bills, orders>> /\ UNCHANGED <<pages, desk, opens, taps, calls, faults>>
    BY DEF Refuse, Serving, Goto, floor
  <1>2. /\ pages' = [pages EXCEPT ![b] = pages[b]] /\ pages[b] \in PageRows
        /\ ctx' = [ctx EXCEPT ![b] = ctx[b]] /\ ctx[b] \in CtxRows
    BY <1>1, Fields DEF StaffInv, PageInv
  <1>3. pages[b].kind \in {"service", "pda"} => ShowsOwn(own[b], pages[b].lists, {})
    BY DEF StaffInv, PageInv, Fresh
  <1>4. DeskInv'
    BY <1>1 DEF StaffInv, DeskInv
  <1>5. "refused" \in Labels \ {"call"} /\ "refused" # "read"
    BY DEF Labels
  <1>6. StaffInv'
    BY <1>1, <1>2, <1>3, <1>4, <1>5, PageStep
  <1>7. Kept
    BY <1>1 DEF Kept, OrdersOf
  <1>8. QED
    BY <1>6, <1>7

-----------------------------------------------------------------------------
\* A bill that is opened at a table is the only one there.
LEMMA OpenedIs ==
  ASSUME StaffInv, NEW b \in Browser, pc[b] = "call", NEW t \in Table, bills' = Opened(BillFor(t), t),
         tables' = tables, orders' \in [Order -> OrderRows]
  PROVE  FloorInv' /\ Used' \subseteq Used \cup {BillFor(t)}
         /\ \A x \in Bill : bills[x].status = "closed" => bills'[x].status = "closed"
  <1> DEFINE z == BillFor(t)
  <1>1. /\ z \in Bill
        /\ \/ bills[z].status = "open" /\ bills[z].table = t
           \/ bills[z].status = "none" /\ \A x \in Bill : ~(bills[x].status = "open" /\ bills[x].table = t)
    BY BillForIs
  <1> HIDE DEF z
  <1>2. bills \in [Bill -> BillRows]
    BY DEF StaffInv, FloorInv
  <1>3. [status |-> "open", table |-> t] \in BillRows
    BY DEF BillRows
  <1>4. /\ bills' = [bills EXCEPT ![z] = [status |-> "open", table |-> t]]
        /\ bills' \in [Bill -> BillRows]
        /\ bills'[z].status = "open" /\ bills'[z].table = t
        /\ \A x \in Bill \ {z} : bills'[x] = bills[x]
    BY <1>1, <1>2, <1>3 DEF Opened, z
  <1>5. \A x \in Bill : bills'[x].status = "open" => bills'[x].table \in Table
    BY <1>4 DEF StaffInv, FloorInv
  <1>6. \A x \in Bill \ {z} : ~(bills[x].status = "open" /\ bills[x].table = t)
    BY <1>1 DEF StaffInv, FloorInv
  <1>7. ASSUME NEW x \in Bill, NEW y \in Bill, bills'[x].status = "open", bills'[y].status = "open",
               bills'[x].table = bills'[y].table
        PROVE  x = y
    <2>1. CASE x = z
      BY <1>4, <1>6, <1>7, <2>1
    <2>2. CASE y = z
      BY <1>4, <1>6, <1>7, <2>2
    <2>3. CASE x # z /\ y # z
      BY <1>4, <1>7, <2>3 DEF StaffInv, FloorInv
    <2>4. QED
      BY <2>1, <2>2, <2>3
  <1>8. tables' \in [Table -> BOOLEAN]
    BY DEF StaffInv, FloorInv
  <1>9. FloorInv'
    <2>1. (\A x, y \in Bill : bills[x].status = "open" /\ bills[y].status = "open" /\ bills[x].table = bills[y].table
                             => x = y)'
      BY <1>7
    <2>2. QED
      BY <1>4, <1>5, <1>8, <2>1 DEF FloorInv
  <1>10. Used' \subseteq Used \cup {z}
    BY <1>4 DEF Used
  <1>11. \A x \in Bill : bills[x].status = "closed" => bills'[x].status = "closed"
    BY <1>1, <1>4
  <1>12. QED
    BY <1>9, <1>10, <1>11 DEF z

\* Orders of an open bill that go to another bill, or with their bill to another table.
LEMMA RehomedIs ==
  ASSUME FloorInv, NEW y \in Bill, bills[y].status = "open", NEW os \in SUBSET OrdersOf(y),
         NEW x \in Bill, NEW t \in Table, orders' = Rehomed(os, x, t)
  PROVE  /\ orders' \in [Order -> OrderRows] /\ Taken' \subseteq Taken
         /\ \A o \in Order : orders[o].table # None => orders'[o].table # None
         /\ \A z \in Bill : bills[z].status = "closed" => OrdersOf(z) \subseteq OrdersOf(z)'
  <1>1. os \subseteq Order /\ \A o \in os : orders[o].bill = y
    BY DEF OrdersOf
  <1>2. ASSUME NEW o \in Order
        PROVE  /\ o \in os => orders'[o].bill = x /\ orders'[o].table = t
               /\ o \notin os => orders'[o] = orders[o]
               /\ orders'[o] \in OrderRows
    <2>1. orders[o] \in OrderRows
      BY FloorFields
    <2>2. orders'[o] = IF o \in os THEN [orders[o] EXCEPT !.bill = x, !.table = t] ELSE orders[o]
      BY DEF Rehomed
    <2>3. QED
      BY <2>1, <2>2 DEF OrderRows
  <1>3. orders' \in [Order -> OrderRows]
    <2>1. orders' = [o \in Order |-> orders'[o]]
      BY DEF Rehomed
    <2>2. QED
      BY <1>2, <2>1
  <1>4. x # None /\ t # None /\ y # None
    BY NoneAssumption
  <1>5. Taken' \subseteq Taken
    BY <1>1, <1>2, <1>4 DEF Taken
  <1>6. \A o \in Order : orders[o].table # None => orders'[o].table # None
    BY <1>2, <1>4
  <1>7. \A z \in Bill : bills[z].status = "closed" => OrdersOf(z) \subseteq OrdersOf(z)'
    BY <1>1, <1>2 DEF OrdersOf
  <1>8. QED
    BY <1>3, <1>5, <1>6, <1>7

\* A bill that is no longer open leaves its table; another one that goes to a table
\* finds none there.
LEMMA OneBillMoves ==
  ASSUME StaffInv, NEW x \in Bill, bills[x].status = "open", NEW row \in BillRows,
         bills' = [bills EXCEPT ![x] = row], tables' = tables, orders' \in [Order -> OrderRows],
         \/ row.status = "closed"
         \/ row.status = "open" /\ row.table \in Table /\ OpenBillAt(row.table) = {}
  PROVE  FloorInv' /\ Used' \subseteq Used
         /\ \A y \in Bill : bills[y].status = "closed" => bills'[y].status = "closed"
  <1>1. bills \in [Bill -> BillRows] /\ tables' \in [Table -> BOOLEAN]
    BY DEF StaffInv, FloorInv
  <1>2. bills' \in [Bill -> BillRows] /\ bills'[x] = row /\ \A y \in Bill \ {x} : bills'[y] = bills[y]
    BY <1>1
  <1>3. \A y \in Bill : bills'[y].status = "open" => bills'[y].table \in Table
    BY <1>2 DEF StaffInv, FloorInv
  <1>4. row.status = "open" => \A y \in Bill : ~(bills[y].status = "open" /\ bills[y].table = row.table)
    BY DEF OpenBillAt
  <1>5. ASSUME NEW y \in Bill, NEW z \in Bill, bills'[y].status = "open", bills'[z].status = "open",
               bills'[y].table = bills'[z].table
        PROVE  y = z
    <2>1. CASE y = x
      BY <1>2, <1>4, <1>5, <2>1
    <2>2. CASE z = x
      BY <1>2, <1>4, <1>5, <2>2
    <2>3. CASE y # x /\ z # x
      BY <1>2, <1>5, <2>3 DEF StaffInv, FloorInv
    <2>4. QED
      BY <2>1, <2>2, <2>3
  <1>6. FloorInv'
    <2>1. (\A y, z \in Bill : bills[y].status = "open" /\ bills[z].status = "open" /\ bills[y].table = bills[z].table
                             => y = z)'
      BY <1>5
    <2>2. QED
      BY <1>1, <1>2, <1>3, <2>1 DEF FloorInv
  <1>7. Used' \subseteq Used
    BY <1>2 DEF Used
  <1>8. \A y \in Bill : bills[y].status = "closed" => bills'[y].status = "closed"
    BY <1>2
  <1>9. QED
    BY <1>6, <1>7, <1>8

\* What a browser was told of before.
LEMMA OwnStandsOn ==
  ASSUME StaffInv, NEW b \in Browser, Kept
  PROVE  /\ \A x \in own[b].closed : x \in Bill /\ bills'[x].status = "closed"
         /\ \A o \in own[b].placed : o \in Order /\ orders'[o].table # None
  BY Fields DEF StaffInv, OwnInv, OwnStands, Kept

LEMMA PlaceOrderStep ==
  ASSUME StaffInv, NEW b \in Browser, PlaceOrder(b)
  PROVE  StaffInv' /\ Kept
  <1> DEFINE f == ctx[b].form
             o == AnyOf({p \in Order : orders[p].bill = None})
             x == BillFor(f.table)
             row == [bill |-> x, table |-> f.table, quantity |-> f.quantity,
                     items |-> [m \in MenuItem |-> IF f.quantity[m] > 0 THEN "submitted" ELSE "none"]]
             told == [own[b] EXCEPT !.placed = own[b].placed \cup {o}]
  <1>1. Serving(b, "order") /\ pc[b] = "call" /\ f.op = "order"
    BY DEF PlaceOrder, Serving, At
  <1>2. CASE Refuse(b)
    BY <1>1, <1>2, RefuseStep
  <1>3. CASE ~Refuse(b)
    <2>1. /\ orders' = [orders EXCEPT ![o] = row]
          /\ bills' = Opened(x, f.table) /\ Answered(b) /\ tables' = tables
          /\ own' = [own EXCEPT ![b] = IF pc'[b] = "read" THEN told ELSE own[b]]
      BY <1>3, Fields DEF PlaceOrder, Own, StaffInv, OwnInv
    <2>2. f.table \in Table /\ f.quantity \in [MenuItem -> Nat] /\ f.table # None
      BY <1>1, Fields, FormFields, NoneAssumption
    <2>3. o \in Order /\ orders[o].bill = None
      BY <1>1, FreeIds DEF AnyOf
    <2>4. x \in Bill /\ x # None
      BY <1>1, <2>2, BillForIs, NoneAssumption
    <2>5. row \in OrderRows /\ row.table = f.table /\ row.bill = x
      <3>1. [m \in MenuItem |-> IF f.quantity[m] > 0 THEN "submitted" ELSE "none"]
               \in [MenuItem -> Status \cup {"none"}]
        BY DEF Status
      <3>2. QED
        BY <2>2, <2>4, <3>1 DEF OrderRows
    <2>6. told \in OwnRows /\ told.closed = own[b].closed /\ told.placed = own[b].placed \cup {o}
      BY <2>3, Fields DEF OwnRows
    <2> HIDE DEF row, told, o, f
    <2>7. orders \in [Order -> OrderRows]
      BY DEF StaffInv, FloorInv
    <2>8. /\ orders' \in [Order -> OrderRows] /\ orders'[o] = row
          /\ \A p \in Order \ {o} : orders'[p] = orders[p]
      BY <2>1, <2>3, <2>5, <2>7
    <2>9. FloorInv' /\ Used' \subseteq Used \cup {x}
          /\ \A y \in Bill : bills[y].status = "closed" => bills'[y].status = "closed"
      BY <1>1, <2>1, <2>2, <2>8, OpenedIs
    <2> HIDE DEF x
    <2>10. Taken' \subseteq Taken \cup {o}
      BY <2>8 DEF Taken
    <2>11. Kept
      <3>1. \A y \in Bill : o \notin OrdersOf(y)
        BY <2>3, NoneAssumption DEF OrdersOf
      <3>2. \A y \in Bill : OrdersOf(y) \subseteq OrdersOf(y)'
        BY <2>8, <3>1 DEF OrdersOf
      <3>3. \A p \in Order : orders[p].table # None => orders'[p].table # None
        BY <2>2, <2>5, <2>8
      <3>4. QED
        BY <2>9, <3>2, <3>3 DEF Kept
    <2>12. /\ \A y \in told.closed : bills'[y].status = "closed"
           /\ \A p \in told.placed : orders'[p].table # None
      BY <2>2, <2>5, <2>6, <2>8, <2>11, OwnStandsOn
    <2>13. StaffInv'
      BY <1>1, <2>1, <2>6, <2>9, <2>10, <2>11, <2>12, ServedStep
    <2>14. QED
      BY <2>11, <2>13
  <1>4. QED
    BY <1>2, <1>3

LEMMA CloseBillStep ==
  ASSUME StaffInv, NEW b \in Browser, CloseBill(b)
  PROVE  StaffInv' /\ Kept
  <1> DEFINE x == ctx[b].form.bill
             row == [bills[x] EXCEPT !.status = "closed"]
             told == [own[b] EXCEPT !.closed = own[b].closed \cup {x}]
  <1>1. Serving(b, "close") /\ pc[b] = "call" /\ ctx[b].form.op = "close"
    BY DEF CloseBill, Serving, At
  <1>2. CASE Refuse(b)
    BY <1>1, <1>2, RefuseStep
  <1>3. CASE ~Refuse(b)
    <2>1. x \in Bill
      BY <1>1, Fields, FormFields
    <2>2. bills[x].status = "open" /\ Answered(b) /\ UNCHANGED <<tables, orders>>
      BY <1>3 DEF CloseBill
    <2>3. bills' = [bills EXCEPT ![x] = row]
      BY <1>3, <2>1 DEF CloseBill, StaffInv, FloorInv
    <2>4. own' = [own EXCEPT ![b] = IF pc'[b] = "read" THEN told ELSE own[b]]
      BY <1>3 DEF CloseBill, Own, StaffInv, OwnInv
    <2>5. row \in BillRows /\ row.status = "closed"
      BY <2>1, FloorFields DEF StaffInv, BillRows
    <2>6. told \in OwnRows /\ told.closed = own[b].closed \cup {x} /\ told.placed = own[b].placed
      BY <2>1, Fields DEF OwnRows
    <2> HIDE DEF row, told, x
    <2>7. orders' \in [Order -> OrderRows] /\ bills \in [Bill -> BillRows]
      BY <2>2 DEF StaffInv, FloorInv
    <2>8. FloorInv' /\ Used' \subseteq Used
          /\ \A y \in Bill : bills[y].status = "closed" => bills'[y].status = "closed"
      BY <2>1, <2>2, <2>3, <2>5, <2>7, OneBillMoves
    <2>9. Kept
      BY <2>2, <2>8 DEF Kept, OrdersOf
    <2>10. bills'[x].status = "closed"
      BY <2>1, <2>3, <2>5, <2>7
    <2>11. /\ \A y \in told.closed : bills'[y].status = "closed"
           /\ \A p \in told.placed : orders'[p].table # None
      BY <2>6, <2>9, <2>10, OwnStandsOn
    <2>12. Taken' = Taken
      BY <2>2 DEF Taken
    <2>13. StaffInv'
      <3>1. Used' \subseteq Used \cup {x} /\ Taken' \subseteq Taken \cup {None}
        BY <2>8, <2>12
      <3>2. QED
        BY <1>1, <2>2, <2>4, <2>6, <2>8, <2>9, <2>11, <3>1, ServedStep
    <2>14. QED
      BY <2>9, <2>13
  <1>4. QED
    BY <1>2, <1>3

LEMMA MoveBillStep ==
  ASSUME StaffInv, NEW b \in Browser, MoveBill(b)
  PROVE  StaffInv' /\ Kept
  <1> DEFINE f == ctx[b].form
             row == [bills[f.bill] EXCEPT !.table = f.table]
  <1>1. Serving(b, "move") /\ pc[b] = "call" /\ f.op = "move"
    BY DEF MoveBill, Serving, At
  <1>2. CASE Refuse(b)
    BY <1>1, <1>2, RefuseStep
  <1>3. CASE ~Refuse(b)
    <2>1. f.bill \in Bill /\ f.table \in Table
      BY <1>1, Fields, FormFields
    <2>2. /\ bills[f.bill].status = "open" /\ OpenBillAt(f.table) = {} /\ Answered(b)
          /\ UNCHANGED tables /\ UNCHANGED own
          /\ orders' = Rehomed(OrdersOf(f.bill), f.bill, f.table)
      BY <1>3 DEF MoveBill
    <2>3. bills' = [bills EXCEPT ![f.bill] = row]
      BY <1>3, <2>1 DEF MoveBill, StaffInv, FloorInv
    <2>4. row \in BillRows /\ row.status = "open" /\ row.table = f.table
      BY <2>1, <2>2, FloorFields DEF StaffInv, BillRows
    <2> HIDE DEF row, f
    <2>5. FloorInv
      BY DEF StaffInv
    <2>6. /\ orders' \in [Order -> OrderRows] /\ Taken' \subseteq Taken
          /\ \A o \in Order : orders[o].table # None => orders'[o].table # None
          /\ \A z \in Bill : bills[z].status = "closed" => OrdersOf(z) \subseteq OrdersOf(z)'
      BY <2>1, <2>2, <2>5, RehomedIs
    <2>7. FloorInv' /\ Used' \subseteq Used
          /\ \A y \in Bill : bills[y].status = "closed" => bills'[y].status = "closed"
      BY <2>1, <2>2, <2>3, <2>4, <2>6, OneBillMoves
    <2>8. Kept
      BY <2>6, <2>7 DEF Kept
    <2>9. StaffInv'
      <3>1. Used' \subseteq Used \cup {None} /\ Taken' \subseteq Taken \cup {None} /\ own[b] \in OwnRows
        BY <2>6, <2>7, Fields
      <3>2. QED
        BY <1>1, <2>2, <2>7, <2>8, <3>1, OwnStandsOn, ServedStep
    <2>10. QED
      BY <2>8, <2>9
  <1>4. QED
    BY <1>2, <1>3

-----------------------------------------------------------------------------
LEMMA MergeBillStep ==
  ASSUME StaffInv, NEW b \in Browser, MergeBill(b)
  PROVE  StaffInv' /\ Kept
  <1> DEFINE f == ctx[b].form
             x == f.bill
             row == [bills[x] EXCEPT !.status = "closed"]
             t == bills[f.into].table
             told == [own[b] EXCEPT !.closed = own[b].closed \cup {x}]
  <1>1. Serving(b, "merge") /\ pc[b] = "call" /\ f.op = "merge"
    BY DEF MergeBill, Serving, At
  <1>2. CASE Refuse(b)
    BY <1>1, <1>2, RefuseStep
  <1>3. CASE ~Refuse(b)
    <2>1. x \in Bill /\ f.into \in Bill
      BY <1>1, Fields, FormFields
    <2>2. /\ bills[x].status = "open" /\ bills[f.into].status = "open" /\ Answered(b)
          /\ UNCHANGED tables /\ orders' = Rehomed(OrdersOf(x), f.into, t)
      BY <1>3 DEF MergeBill
    <2>3. bills' = [bills EXCEPT ![x] = row]
      BY <1>3, <2>1 DEF MergeBill, StaffInv, FloorInv
    <2>4. own' = [own EXCEPT ![b] = IF pc'[b] = "read" THEN told ELSE own[b]]
      BY <1>3 DEF MergeBill, Own, StaffInv, OwnInv
    <2>5. row \in BillRows /\ row.status = "closed"
      BY <2>1, FloorFields DEF StaffInv, BillRows
    <2>6. told \in OwnRows /\ told.closed = own[b].closed \cup {x} /\ told.placed = own[b].placed
      BY <2>1, Fields DEF OwnRows
    <2>7. t \in Table /\ FloorInv
      BY <2>1, <2>2 DEF StaffInv, FloorInv
    <2> HIDE DEF row, told, x, t, f
    <2>8. /\ orders' \in [Order -> OrderRows] /\ Taken' \subseteq Taken
          /\ \A o \in Order : orders[o].table # None => orders'[o].table # None
          /\ \A z \in Bill : bills[z].status = "closed" => OrdersOf(z) \subseteq OrdersOf(z)'
      BY <2>1, <2>2, <2>7, RehomedIs
    <2>9. FloorInv' /\ Used' \subseteq Used
          /\ \A y \in Bill : bills[y].status = "closed" => bills'[y].status = "closed"
      BY <2>1, <2>2, <2>3, <2>5, <2>8, OneBillMoves
    <2>10. Kept
      BY <2>8, <2>9 DEF Kept
    <2>11. bills'[x].status = "closed"
      BY <2>1, <2>3, <2>5, <2>7 DEF FloorInv
    <2>12. /\ \A y \in told.closed : bills'[y].status = "closed"
           /\ \A p \in told.placed : orders'[p].table # None
      BY <2>6, <2>10, <2>11, OwnStandsOn
    <2>13. StaffInv'
      <3>1. Used' \subseteq Used \cup {None} /\ Taken' \subseteq Taken \cup {None}
        BY <2>8, <2>9
      <3>2. QED
        BY <1>1, <2>2, <2>4, <2>6, <2>9, <2>10, <2>12, <3>1, ServedStep
    <2>14. QED
      BY <2>10, <2>13
  <1>4. QED
    BY <1>2, <1>3

LEMMA SplitBillStep ==
  ASSUME StaffInv, NEW b \in Browser, SplitBill(b)
  PROVE  StaffInv' /\ Kept
  <1> DEFINE f == ctx[b].form
             x == BillFor(f.table)
  <1>1. Serving(b, "split") /\ pc[b] = "call" /\ f.op = "split"
    BY DEF SplitBill, Serving, At
  <1>2. CASE Refuse(b)
    BY <1>1, <1>2, RefuseStep
  <1>3. CASE ~Refuse(b)
    <2>1. f.bill \in Bill /\ f.table \in Table
      BY <1>1, Fields, FormFields
    <2>2. /\ bills[f.bill].status = "open" /\ f.orders \subseteq OrdersOf(f.bill) /\ Answered(b)
          /\ UNCHANGED tables /\ UNCHANGED own
          /\ orders' = Rehomed(f.orders, x, f.table)
          /\ bills' = Opened(x, f.table)
      BY <1>3 DEF SplitBill
    <2>3. x \in Bill
      BY <1>1, <2>1, BillForIs
    <2>4. FloorInv
      BY DEF StaffInv
    <2>5. bills' = Opened(BillFor(f.table), f.table)
      BY <2>2
    <2> HIDE DEF f, x
    <2>6. /\ orders' \in [Order -> OrderRows] /\ Taken' \subseteq Taken
          /\ \A o \in Order : orders[o].table # None => orders'[o].table # None
          /\ \A z \in Bill : bills[z].status = "closed" => OrdersOf(z) \subseteq OrdersOf(z)'
      BY <2>1, <2>2, <2>3, <2>4, RehomedIs
    <2>7. FloorInv' /\ Used' \subseteq Used \cup {x}
          /\ \A y \in Bill : bills[y].status = "closed" => bills'[y].status = "closed"
      BY <1>1, <2>1, <2>2, <2>5, <2>6, OpenedIs DEF x
    <2>8. Kept
      BY <2>6, <2>7 DEF Kept
    <2>9. StaffInv'
      <3>1. Taken' \subseteq Taken \cup {None} /\ own[b] \in OwnRows
        BY <2>6, Fields
      <3>2. QED
        BY <1>1, <2>2, <2>7, <2>8, <3>1, OwnStandsOn, ServedStep
    <2>10. QED
      BY <2>8, <2>9
  <1>4. QED
    BY <1>2, <1>3

LEMMA UpdateKitchenItemStatusStep ==
  ASSUME StaffInv, NEW b \in Browser, UpdateKitchenItemStatus(b)
  PROVE  StaffInv' /\ Kept
  <1> DEFINE f == ctx[b].form
             o == f.item[1]
             m == f.item[2]
             row == [orders[o] EXCEPT !.items = [orders[o].items EXCEPT ![m] = f.status]]
  <1>1. Serving(b, "item") /\ pc[b] = "call" /\ f.op = "item"
    BY DEF UpdateKitchenItemStatus, Serving, At
  <1>2. CASE Refuse(b)
    BY <1>1, <1>2, RefuseStep
  <1>3. CASE ~Refuse(b)
    <2>1. o \in Order /\ m \in MenuItem /\ f.status \in Status
      BY <1>1, Fields, FormFields DEF Item
    <2>2. Answered(b) /\ UNCHANGED <<tables, bills>> /\ UNCHANGED own
      BY <1>3 DEF UpdateKitchenItemStatus
    <2>3. orders \in [Order -> OrderRows] /\ FloorInv
      BY DEF StaffInv, FloorInv
    <2>4. orders' = [orders EXCEPT ![o] = row]
      BY <1>3, <2>1, <2>3 DEF UpdateKitchenItemStatus
    <2>5. row \in OrderRows /\ row.bill = orders[o].bill /\ row.table = orders[o].table
      <3>1. orders[o] \in OrderRows
        BY <2>1, <2>3
      <3>2. [orders[o].items EXCEPT ![m] = f.status] \in [MenuItem -> Status \cup {"none"}]
        BY <2>1, <3>1 DEF OrderRows
      <3>3. QED
        BY <3>1, <3>2 DEF OrderRows
    <2> HIDE DEF row, o, m, f
    <2>6. /\ orders' \in [Order -> OrderRows]
          /\ \A p \in Order : orders'[p].bill = orders[p].bill /\ orders'[p].table = orders[p].table
      BY <2>1, <2>3, <2>4, <2>5
    <2>7. FloorInv'
      BY <2>2, <2>3, <2>6 DEF FloorInv
    <2>8. Used' = Used /\ Taken' = Taken
      BY <2>2, <2>6 DEF Used, Taken
    <2>9. Kept
      BY <2>2, <2>6 DEF Kept, OrdersOf
    <2>10. StaffInv'
      <3>1. Used' \subseteq Used \cup {None} /\ Taken' \subseteq Taken \cup {None} /\ own[b] \in OwnRows
        BY <2>8, Fields
      <3>2. QED
        BY <1>1, <2>2, <2>7, <2>9, <3>1, OwnStandsOn, ServedStep
    <2>11. QED
      BY <2>9, <2>10
  <1>4. QED
    BY <1>2, <1>3

LEMMA UpdateTableStep ==
  ASSUME StaffInv, NEW t \in Table, UpdateTable(t)
  PROVE  StaffInv'
  <1>1. /\ calls < MaxCalls /\ calls' = calls + 1 /\ tables' = [tables EXCEPT ![t] = ~tables[t]]
        /\ UNCHANGED <<bills, orders>> /\ UNCHANGED own
        /\ UNCHANGED <<pages, desk, pc, ctx, opens, taps, faults>>
    BY DEF UpdateTable
  <1>2. tables' \in [Table -> BOOLEAN]
    BY <1>1 DEF StaffInv, FloorInv
  <1>3. FloorInv' /\ Used' = Used /\ Taken' = Taken
    BY <1>1, <1>2, SameFloor
  <1>4. OwnInv'
    BY <1>1, SameOwn
  <1>5. PageInv'
    <2>1. \A a \in Browser : Fresh(a)'
      BY <1>1 DEF StaffInv, PageInv, Fresh, ShowsOwn
    <2>2. QED
      BY <1>1, <2>1 DEF StaffInv, PageInv
  <1>6. DeskInv'
    BY <1>1, Finite DEF StaffInv, DeskInv
  <1>7. Calling' = Calling
    BY <1>1 DEF Calling
  <1>8. CountInv'
    BY <1>1, <1>3, <1>7, CountQuiet, Finite DEF StaffInv, DeskInv
  <1>9. QED
    BY <1>3, <1>4, <1>5, <1>6, <1>8 DEF StaffInv

-----------------------------------------------------------------------------
(* The invariant.                                                          *)

LEMMA StaffInit == Init => StaffInv
  <1> SUFFICES ASSUME Init PROVE StaffInv
    OBVIOUS
  <1>1. Min(Table) \in Table
    BY TableAssumption, LowestIsOne
  <1>2. AnyOf(Bill) \in Bill
    <2>1. Bill # {}
      BY IdAssumption, FS_EmptySet, Finite
    <2>2. QED
      BY <2>1 DEF AnyOf
  <1>3. bills \in [Bill -> BillRows]
    BY <1>1 DEF Init, BillRows
  <1>4. orders \in [Order -> OrderRows]
    <2>1. [m \in MenuItem |-> 1] \in [MenuItem -> Nat]
      OBVIOUS
    <2>2. [m \in MenuItem |-> "submitted"] \in [MenuItem -> Status \cup {"none"}]
      BY DEF Status
    <2>3. [bill |-> AnyOf(Bill), table |-> Min(Table), quantity |-> [m \in MenuItem |-> 1],
           items |-> [m \in MenuItem |-> "submitted"]] \in OrderRows
      BY <1>1, <1>2, <2>1, <2>2 DEF OrderRows
    <2>4. NoOrder \in OrderRows
      BY EmptyRows DEF NoOrder, OrderRows
    <2>5. QED
      BY <2>3, <2>4 DEF Init
  <1>5. FloorInv
    <2>1. tables \in [Table -> BOOLEAN]
      BY DEF Init
    <2>2. \A x \in Bill : bills[x].status = "open" => x = AnyOf(Bill) /\ bills[x].table \in Table
      BY <1>1 DEF Init
    <2>3. QED
      BY <1>3, <1>4, <2>1, <2>2 DEF FloorInv
  <1>6. OwnInv
    <2>1. [closed |-> {}, placed |-> {}, tapped |-> NoCart] \in OwnRows
      BY EmptyRows DEF OwnRows
    <2>2. QED
      BY <2>1 DEF Init, OwnInv, OwnStands
  <1>7. PageInv
    <2>1. \A b \in Browser : Fresh(b)
      BY EmptyRows DEF Init, Fresh
    <2>2. QED
      BY <2>1, EmptyRows DEF Init, PageInv, Labels
  <1>8. DeskInv
    BY Finite, EmptyRows DEF Init, DeskInv
  <1>9. CountInv
    <2>1. Used \subseteq {AnyOf(Bill)}
      BY DEF Used, Init
    <2>2. Cardinality(Used) <= 1
      <3>1. IsFiniteSet({AnyOf(Bill)}) /\ Cardinality({AnyOf(Bill)}) = 1
        BY FS_Singleton
      <3>2. QED
        BY <2>1, <3>1, FS_Subset
    <2>3. Calling = {}
      BY DEF Calling, Init
    <2>4. Cardinality(Calling) = 0
      BY <2>3, FS_EmptySet
    <2>5. Taken \subseteq Waiting
      BY DEF Taken, Init, NoOrder
    <2>6. Cardinality(Taken) <= Cardinality(Waiting)
      BY <2>5, Finite, FS_Subset
    <2>7. calls = 0
      BY DEF Init
    <2>8. QED
      BY <2>2, <2>4, <2>6, <2>7, Finite DEF CountInv
  <1>10. QED
    BY <1>5, <1>6, <1>7, <1>8, <1>9 DEF StaffInv

\* Steps at the pages leave bills and orders alone.
LEMMA PagesKeep ==
  ASSUME UNCHANGED <<bills, orders>>
  PROVE  Kept
  BY DEF Kept, OrdersOf

LEMMA DeskStep ==
  ASSUME StaffInv, NEW b \in Browser, Desk(b)
  PROVE  StaffInv' /\ Kept
  <1>1. UNCHANGED <<bills, orders>>
    BY DEF Desk, OpenPage, ChooseTable, Increment, Decrement, ClearCart, ChangeCart, SendOrder, SendClose,
           SendMove, SendMerge, SendSplit, SendItemStatus, Send, floor
  <1>2. StaffInv'
    BY OpenPageStep, ChooseTableStep, CartStep, FormsStep DEF Desk
  <1>3. QED
    BY <1>1, <1>2, PagesKeep

LEMMA HandleStep ==
  ASSUME StaffInv, NEW b \in Browser, Handle(b)
  PROVE  StaffInv' /\ Kept
  <1>1. CASE ReadList(b) \/ ShowPage(b) \/ ShowRefusal(b)
    <2>1. UNCHANGED <<bills, orders>>
      BY <1>1 DEF ReadList, ShowPage, ShowRefusal, floor
    <2>2. StaffInv'
      BY <1>1, ReadListStep, ShowPageStep, ShowRefusalStep
    <2>3. QED
      BY <2>1, <2>2, PagesKeep
  <1>2. CASE PlaceOrder(b)
    BY <1>2, PlaceOrderStep
  <1>3. CASE CloseBill(b)
    BY <1>3, CloseBillStep
  <1>4. CASE MoveBill(b)
    BY <1>4, MoveBillStep
  <1>5. CASE MergeBill(b)
    BY <1>5, MergeBillStep
  <1>6. CASE SplitBill(b)
    BY <1>6, SplitBillStep
  <1>7. CASE UpdateKitchenItemStatus(b)
    BY <1>7, UpdateKitchenItemStatusStep
  <1>8. QED
    BY <1>1, <1>2, <1>3, <1>4, <1>5, <1>6, <1>7 DEF Handle

LEMMA StaffNext == StaffInv /\ [Next]_vars => StaffInv' /\ Kept
  <1> SUFFICES ASSUME StaffInv, [Next]_vars PROVE StaffInv' /\ Kept
    OBVIOUS
  <1>1. CASE UNCHANGED vars
    <2>1. UNCHANGED <<bills, orders>>
      BY <1>1 DEF vars
    <2>2. StaffInv'
      BY <1>1 DEF vars, StaffInv, FloorInv, OwnInv, OwnStands, PageInv, Fresh, DeskInv, CountInv, Used, Taken,
                  Calling, ShowsOwn
    <2>3. QED
      BY <2>1, <2>2, PagesKeep
  <1>2. ASSUME NEW b \in Browser, Desk(b) PROVE StaffInv' /\ Kept
    BY <1>2, DeskStep
  <1>3. ASSUME NEW b \in Browser, Handle(b) PROVE StaffInv' /\ Kept
    BY <1>3, HandleStep
  <1>4. ASSUME NEW b \in Browser, CallFails(b) PROVE StaffInv' /\ Kept
    <2>1. UNCHANGED <<bills, orders>>
      BY <1>4 DEF CallFails, floor
    <2>2. QED
      BY <1>4, <2>1, CallFailsStep, PagesKeep
  <1>5. ASSUME NEW t \in Table, UpdateTable(t) PROVE StaffInv' /\ Kept
    <2>1. UNCHANGED <<bills, orders>>
      BY <1>5 DEF UpdateTable
    <2>2. QED
      BY <1>5, <2>1, UpdateTableStep, PagesKeep
  <1>6. QED
    BY <1>1, <1>2, <1>3, <1>4, <1>5 DEF Next

-----------------------------------------------------------------------------
(* What staff can rely on.                                                 *)

\* What the pages, the forms, the floor and the count of the ids are in every
\* state: the inductive invariant.
THEOREM StaffInvariance == Spec => []StaffInv
  <1>1. StaffInv /\ [Next]_vars => StaffInv'
    BY StaffNext
  <1>2. QED
    BY <1>1, StaffInit, PTL DEF Spec

\* Every page, form and row has its type, in every state (the pages, their lists
\* and the calls of floor-cash-workspace.tsx, pda-order-workspace.tsx and
\* kitchen-board.tsx).
THEOREM StaffTypeCorrect == Spec => []TypeOK
  <1>1. StaffInv => TypeOK
    <2> SUFFICES ASSUME StaffInv PROVE TypeOK
      OBVIOUS
    <2>1. \A b \in Browser : pages[b].kind \in Kind \cup {"none"} /\ DOMAIN pages[b].lists = List
      BY Fields DEF ListRows, List
    <2>2. QED
      BY <2>1 DEF StaffInv, FloorInv, PageInv, DeskInv, TypeOK, BillRows, OrderRows, DeskRows
  <1>2. QED
    BY <1>1, StaffInvariance, PTL

\* Who was told that a bill is closed or an order placed sees it so on every page
\* from then on: the lists of a page are read after the answers (the path a
\* server action revalidates), and closed bills and placed orders stay so.
THEOREM OwnWorkStaysShown == Spec => []OwnWorkIsShown
  <1>1. StaffInv => OwnWorkIsShown
    <2> SUFFICES ASSUME StaffInv, NEW b \in Browser, pages[b].kind \in {"service", "pda"}, pc[b] = "idle"
                 PROVE  /\ own[b].closed \subseteq Checks(b, "closed-checks") \ Checks(b, "payment-queue")
                        /\ \A o \in own[b].placed : Given(b).orders[o] # None
      BY DEF OwnWorkIsShown, At
    <2>1. ShowsOwn(own[b], pages[b].lists, {})
      BY DEF StaffInv, PageInv, Fresh
    <2>2. own[b].closed \subseteq Bill
      BY Fields
    <2>3. QED
      BY <2>1, <2>2 DEF ShowsOwn, Checks, Given
  <1>2. QED
    BY <1>1, StaffInvariance, PTL

\* Two open bills are never at one table, however old the pages are whose forms
\* the API is sent (BillService.cs, OrderService.cs: the target of a move and the
\* bill of an order are looked up when the call is served).
THEOREM OneBillAtATable == Spec => []OneOpenBillPerTable
  <1>1. StaffInv => OneOpenBillPerTable
    <2> SUFFICES ASSUME StaffInv, NEW t \in Table PROVE Cardinality(OpenBillAt(t)) <= 1
      BY DEF OneOpenBillPerTable
    <2>1. \A x, y \in OpenBillAt(t) : x = y
      BY DEF OpenBillAt, StaffInv, FloorInv
    <2>2. CASE OpenBillAt(t) = {}
      BY <2>2, FS_EmptySet
    <2>3. CASE OpenBillAt(t) # {}
      <3>1. PICK x \in OpenBillAt(t) : TRUE
        BY <2>3
      <3>2. OpenBillAt(t) = {x}
        BY <2>1, <3>1
      <3>3. Cardinality({x}) = 1
        BY FS_Singleton
      <3>4. QED
        BY <3>2, <3>3
    <2>4. QED
      BY <2>2, <2>3
  <1>2. QED
    BY <1>1, StaffInvariance, PTL

\* No step takes an order from a closed bill or opens it again, although pages
\* go on to offer its orders for a split (BillService.cs: the orders have to be
\* those of a bill that is open).
THEOREM ClosedBillsKeepOrders == Spec => ClosedBillKeepsItsOrders
  <1>1. StaffInv /\ [Next]_vars =>
           [\A x \in Bill : bills[x].status = "closed" =>
                bills'[x].status = "closed" /\ OrdersOf(x) \subseteq OrdersOf(x)']_vars
    BY StaffNext DEF Kept
  <1>2. QED
    BY <1>1, StaffInvariance, PTL DEF Spec, ClosedBillKeepsItsOrders

=============================================================================
