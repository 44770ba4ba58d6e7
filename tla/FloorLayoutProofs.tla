-------------------------- MODULE FloorLayoutProofs --------------------------
(***************************************************************************)
(* Proofs about FloorLayout, for any number of tables, numbers, browsers   *)
(* and spots of the pointer, on the canvas or beyond it.                   *)
(***************************************************************************)
EXTENDS FloorLayout, FiniteSetTheorems, TLAPS

-----------------------------------------------------------------------------
(* The inductive invariant.                                                *)

Size      == P(10)..P(26)
Look      == [width : Size, height : Size, shape : Shape, rotation : {0, 90, 180, 270}]
Away      == {n \in Int : n >= 2}                  \* a whole percent or more
Spot      == [left : Away, top : Away]
Thing     == [kind : Kind, box : Boxes, rotation : Int]
Drawing   == [Layout -> Seq(Boxes)]
Furniture == [Layout -> Seq(Thing)]
Partial(S) == UNION {[D -> S] : D \in SUBSET Table}

Page == [page : {"none", "floor", "error", "menu"}, tables : SUBSET Table,
         places : Partial(Spot), visuals : Partial(Look),
         zones : {<<>>} \cup Drawing, objects : {<<>>} \cup Furniture, touched : SUBSET Table]

Document == [stored : BOOLEAN, visuals : Partial(Look),
             zones : {<<>>} \cup Drawing, objects : {<<>>} \cup Furniture]

\* A place that is stored: 0 for none.
Row == [there : BOOLEAN, number : Number \cup {None}, keyed : BOOLEAN, layout : Layout,
        at : [left : {0} \cup Away, top : {0} \cup Away]]

\* How a page draws a table.
LookOf(p, t) == IF t \in DOMAIN p.visuals THEN p.visuals[t] ELSE Visual(DefaultWidth(t), P(14), DefaultShape(t))

Inside(at, v) == at.left + v.width <= P(100) /\ at.top + v.height <= P(100)

\* A page has places and looks of tables that are there, at least a percent away
\* from the corner; what was moved in it is inside the canvas.
PageOK(p) ==
    /\ p \in Page
    /\ p.tables \cup DOMAIN p.places \cup DOMAIN p.visuals \subseteq There
    /\ p.touched \subseteq DOMAIN p.places
    /\ \A t \in p.touched : Inside(p.places[t], LookOf(p, t))
    /\ p.page = "floor" => p.zones \in Drawing /\ p.objects \in Furniture

DocumentOK(d) == d \in Document /\ (d.stored => d.zones \in Drawing /\ d.objects \in Furniture)

\* Each table that is there has a number of its own and a device key.
RowsInv ==
    /\ rows \in [Table -> Row]
    /\ \A t \in There : rows[t].number \in Number /\ rows[t].keyed
    /\ NumbersAreUnique

\* The rows have the places of the drawing they were last written from, the
\* document the rest of the one it was.
StoreInv ==
    /\ DocumentOK(document) /\ PageOK(rowsOf) /\ PageOK(docOf)
    /\ rowsOf.page = "floor" => \A t \in DOMAIN rowsOf.places : rows[t].at = Entry(rowsOf.places[t])
    /\ docOf.page = "floor" => document = [stored |-> TRUE, visuals |-> docOf.visuals,
                                           zones |-> docOf.zones, objects |-> docOf.objects]

Context == [rows : {<<>>} \cup [Table -> Row], document : Document, shown : Page,
            number : Number \cup {None}, given : {<<>>, Link(Token)}]

\* What an action has in hand at its next call.
CallIs(label, c) ==
    /\ c \in Context /\ label \in Labels
    /\ DocumentOK(c.document) /\ PageOK(c.shown)
    /\ label \in {"readDocument", "write"} => c.rows \in [Table -> Row]
    /\ label = "readDocument" => \A t \in Table : c.rows[t].there => t \in There
    /\ label \in {"load", "write", "document"} => c.shown.page = "floor"
    /\ label \in {"create", "insert", "previewCreate", "previewInsert"} => c.number \in Number

CallOK(b) == CallIs(pc[b], ctx[b])

PagesInv == /\ pages \in [Browser -> Page] /\ \A b \in Browser : PageOK(pages[b])
            /\ ctx \in [Browser -> Context] /\ pc \in [Browser -> Labels] /\ \A b \in Browser : CallOK(b)

BoundsInv == opens \in 0..MaxOpens /\ calls \in 0..MaxCalls /\ edits \in 0..MaxEdits /\ faults \in 0..MaxFaults

LayoutInv == RowsInv /\ StoreInv /\ PagesInv /\ BoundsInv

-----------------------------------------------------------------------------
(* Numbers and partial functions.                                          *)

\* Clamp, where the bounds are in order, is between them and keeps what is.
LEMMA ClampIs ==
  ASSUME NEW lo \in Int, NEW hi \in Int, NEW x \in Int
  PROVE  /\ Clamp(lo, hi, x) \in Int /\ Clamp(lo, hi, x) >= lo
         /\ lo <= hi => Clamp(lo, hi, x) <= hi
         /\ lo <= x /\ x <= hi => Clamp(lo, hi, x) = x
  <1> DEFINE m == Min({hi, x})
  <1>1. m = IF hi <= x THEN hi ELSE x
    <2>1. (IF hi <= x THEN hi ELSE x) \in {hi, x} /\ \A y \in {hi, x} : (IF hi <= x THEN hi ELSE x) <= y
      OBVIOUS
    <2>2. \A y \in {hi, x} : (\A z \in {hi, x} : y <= z) => y = IF hi <= x THEN hi ELSE x
      OBVIOUS
    <2>3. m \in {hi, x} /\ \A y \in {hi, x} : m <= y
      BY <2>1 DEF Min
    <2>4. QED
      BY <2>2, <2>3
  <1>2. m \in Int
    BY <1>1
  <1> HIDE DEF m
  <1> DEFINE c == Max({lo, m})
  <1>3. c = IF lo >= m THEN lo ELSE m
    <2>1. (IF lo >= m THEN lo ELSE m) \in {lo, m} /\ \A y \in {lo, m} : (IF lo >= m THEN lo ELSE m) >= y
      BY <1>2
    <2>2. \A y \in {lo, m} : (\A z \in {lo, m} : y >= z) => y = IF lo >= m THEN lo ELSE m
      BY <1>2
    <2>3. c \in {lo, m} /\ \A y \in {lo, m} : c >= y
      BY <2>1 DEF Max
    <2>4. QED
      BY <2>2, <2>3
  <1>4. Clamp(lo, hi, x) = c
    BY DEF Clamp, m
  <1>5. QED
    BY <1>1, <1>2, <1>3, <1>4

\* Rounding to whole percents.
LEMMA RoundIs ==
  ASSUME NEW x \in Int
  PROVE  /\ Round(x) \in Int
         /\ x \in Size => Round(x) \in Size
         /\ x \in Away => Round(x) \in Away
  BY DEF Round, P, Size, Away

LEMMA PartialIs ==
  ASSUME NEW S, NEW f
  PROVE  f \in Partial(S) <=> DOMAIN f \subseteq Table /\ f \in [DOMAIN f -> S]
  BY DEF Partial

\* A partial function without places.
LEMMA NothingYet ==
  ASSUME NEW S
  PROVE  <<>> \in Partial(S) /\ DOMAIN <<>> = {}
  <1>1. DOMAIN <<>> = {}
    OBVIOUS
  <1>2. <<>> \in [{} -> S]
    BY <1>1
  <1>3. QED
    BY <1>1, <1>2 DEF Partial

LEMMA PutPartial ==
  ASSUME NEW S, NEW f \in Partial(S), NEW t \in Table, NEW v \in S
  PROVE  Put(f, t, v) \in Partial(S)
  BY PartialIs DEF Put

\* The spots that are given to tables without a place.
LEMMA SpotsAre ==
  ASSUME NEW index \in Nat
  PROVE  InitialSpot(index) \in Spot /\ FallbackSpot(index) \in Spot
  <1>1. index % 4 \in 0..3 /\ index \div 4 \in Nat
    OBVIOUS
  <1>2. QED
    BY <1>1 DEF InitialSpot, FallbackSpot, Point, P, Spot, Away

LEMMA DefaultsAre ==
  ASSUME NEW t \in Table
  PROVE  /\ Visual(DefaultWidth(t), P(14), DefaultShape(t)) \in Look
         /\ DefaultWidth(t) \in P(14)..P(18) /\ LayoutOf(t) \in Layout
         /\ Visual(P(14), P(14), "square") \in Look
  BY ZoneAssumption DEF Visual, DefaultWidth, DefaultShape, LayoutOf, Layout, Look, Size, Shape, P

\* Pages without an editor.
LEMMA EmptyPages ==
  /\ PageOK(NoPage) /\ PageOK([NoPage EXCEPT !.page = "error"]) /\ PageOK([NoPage EXCEPT !.page = "menu"])
  /\ NoPage.page = "none" /\ DocumentOK(NoDocument)
  /\ NoCtx \in Context /\ NoCtx.document = NoDocument /\ NoCtx.shown = NoPage
  <1>1. NoPage \in Page /\ NoPage.tables = {} /\ NoPage.touched = {} /\ NoPage.places = <<>> /\ NoPage.visuals = <<>>
    BY NothingYet DEF NoPage, Page
  <1>2. ASSUME NEW p \in Page, p.tables = {}, p.touched = {}, p.places = <<>>, p.visuals = <<>>, p.page # "floor"
        PROVE  PageOK(p)
    BY <1>2, NothingYet DEF PageOK
  <1>3. ASSUME NEW s \in {"error", "menu"} PROVE PageOK([NoPage EXCEPT !.page = s])
    <2> DEFINE p == [NoPage EXCEPT !.page = s]
    <2>1. p \in Page
      BY <1>1 DEF Page
    <2>2. /\ p.tables = NoPage.tables /\ p.touched = NoPage.touched /\ p.places = NoPage.places
          /\ p.visuals = NoPage.visuals /\ p.page = s
      BY <1>1 DEF Page
    <2> HIDE DEF p
    <2>3. PageOK(p)
      BY <1>1, <1>2, <2>1, <2>2
    <2>4. QED
      BY <2>3 DEF p
  <1>4. NoPage.page = "none" /\ PageOK(NoPage)
    BY <1>1, <1>2 DEF NoPage
  <1>5. DocumentOK(NoDocument)
    BY NothingYet DEF NoDocument, DocumentOK, Document
  <1>6. NoCtx \in Context /\ NoCtx.document = NoDocument /\ NoCtx.shown = NoPage
    BY <1>1, <1>5 DEF NoCtx, Context, DocumentOK
  <1>7. QED
    BY <1>3, <1>4, <1>5, <1>6

-----------------------------------------------------------------------------
(* What a page is mounted with.                                            *)

\* The table's spot when its place is not stored.
LEMMA PlacedAt ==
  ASSUME NEW given \in [Table -> Row]
  PROVE  LET tables == {t \in Table : given[t].there}
             places == InitialPlacements(given)
         IN  /\ places \in Partial(Spot) /\ DOMAIN places = tables
             /\ \A t \in tables : given[t].at.left # 0 => places[t].left = given[t].at.left
             /\ \A t \in tables : given[t].at.top # 0 => places[t].top = given[t].at.top
  <1> DEFINE tables == {t \in Table : given[t].there}
             places == InitialPlacements(given)
             before(t) == {u \in tables : LayoutOf(u) = LayoutOf(t) /\ given[u].number < given[t].number}
             spot(t) == InitialSpot(Cardinality(before(t)))
  <1>1. places = [t \in tables |-> Point(Or(given[t].at.left, spot(t).left), Or(given[t].at.top, spot(t).top))]
    BY DEF InitialPlacements
  <1>2. ASSUME NEW t \in tables
        PROVE  /\ places[t] \in Spot
               /\ given[t].at.left # 0 => places[t].left = given[t].at.left
               /\ given[t].at.top # 0 => places[t].top = given[t].at.top
    <2>1. Cardinality(before(t)) \in Nat
      <3>1. before(t) \subseteq Table /\ IsFiniteSet(Table)
        BY TableAssumption
      <3>2. QED
        BY <3>1, FS_Subset, FS_CardinalityType
    <2>2. spot(t) \in Spot
      BY <2>1, SpotsAre
    <2> HIDE DEF spot
    <2>3. given[t].at \in [left : {0} \cup Away, top : {0} \cup Away]
      BY DEF Row
    <2>4. places[t] = Point(Or(given[t].at.left, spot(t).left), Or(given[t].at.top, spot(t).top))
      BY <1>1
    <2>5. QED
      BY <2>2, <2>3, <2>4 DEF Point, Or, Spot
  <1> HIDE DEF spot, before
  <1>3. DOMAIN places = tables
    BY <1>1
  <1>4. places \in [tables -> Spot]
    BY <1>1, <1>2
  <1>5. QED
    BY <1>2, <1>3, <1>4 DEF Partial

\* A look that is drawn anew is within the bounds, and the same if it was.
LEMMA LoadedIs ==
  ASSUME NEW t \in Table, NEW v \in Look
  PROVE  /\ LoadedVisual(t, v) \in Look
         /\ LoadedVisual(t, v) = [v EXCEPT !.width = Round(v.width), !.height = Round(v.height)]
  <1>1. v.width \in Size /\ v.height \in Size
    BY DEF Look
  <1>2. \A x \in Size : x \in Int /\ Round(x) \in Size
    BY RoundIs DEF Size, P
  <1>3. ASSUME NEW x \in Size PROVE Clamp(P(10), P(26), x) = x
    <2>1. P(10) \in Int /\ P(26) \in Int /\ x \in Int /\ P(10) <= x /\ x <= P(26)
      BY DEF P, Size
    <2>2. QED
      BY <2>1, ClampIs
  <1>4. /\ Clamp(P(10), P(26), Round(v.width)) = Round(v.width) /\ Round(v.width) \in Size
        /\ Clamp(P(10), P(26), Round(v.height)) = Round(v.height) /\ Round(v.height) \in Size
    BY <1>1, <1>2, <1>3
  <1>5. LoadedVisual(t, v) = [v EXCEPT !.width = Round(v.width), !.height = Round(v.height)]
    <2> DEFINE w == Clamp(P(10), P(26), Round(v.width))
               h == Clamp(P(10), P(26), Round(v.height))
    <2>1. LoadedVisual(t, v) = [v EXCEPT !.width = w, !.height = h]
      BY DEF LoadedVisual
    <2> HIDE DEF w, h
    <2>2. w = Round(v.width) /\ h = Round(v.height)
      BY <1>4 DEF w, h
    <2>3. QED
      BY <2>1, <2>2
  <1> DEFINE w == Round(v.width)
             h == Round(v.height)
  <1>6. ASSUME NEW x \in Size, NEW y \in Size PROVE [v EXCEPT !.width = x, !.height = y] \in Look
    BY DEF Look
  <1>7. QED
    BY <1>4, <1>5, <1>6

LEMMA MountedIs ==
  ASSUME NEW given \in [Table -> Row], NEW doc, DocumentOK(doc), \A t \in Table : given[t].there => t \in There
  PROVE  PageOK(Mounted(given, doc)) /\ Mounted(given, doc).page = "floor"
  <1> DEFINE tables == {t \in Table : given[t].there}
             visuals == InitialVisuals(tables, doc)
             zones == IF doc.stored THEN doc.zones ELSE InitialZones
             objects == IF doc.stored THEN doc.objects ELSE InitialObjects
  <1>1. /\ Mounted(given, doc) = [page |-> "floor", tables |-> tables, places |-> InitialPlacements(given),
                                  visuals |-> visuals, zones |-> zones, objects |-> objects, touched |-> {}]
    BY DEF Mounted
  <1>2. InitialPlacements(given) \in Partial(Spot) /\ DOMAIN InitialPlacements(given) = tables
    BY PlacedAt
  <1>3. visuals \in Partial(Look) /\ DOMAIN visuals = tables
    <2>1. doc.visuals \in [DOMAIN doc.visuals -> Look]
      BY PartialIs DEF DocumentOK, Document
    <2>2. \A t \in tables : visuals[t] \in Look
      BY <2>1, LoadedIs, DefaultsAre DEF InitialVisuals
    <2>3. visuals = [t \in tables |-> visuals[t]] /\ DOMAIN visuals = tables
      BY DEF InitialVisuals
    <2> HIDE DEF visuals
    <2>4. visuals \in [tables -> Look]
      BY <2>2, <2>3
    <2>5. QED
      BY <2>3, <2>4 DEF Partial
  <1>4. zones \in Drawing
    <2>1. InitialZones \in Drawing
      <3>1. ASSUME NEW l \in Layout PROVE InitialZones[l] \in Seq(Boxes)
        <4>1. \A a, b, c, d \in Int : Box(a, b, c, d) \in Boxes
          BY DEF Box, Boxes
        <4>2. \A n \in Int : P(n) \in Int
          BY DEF P
        <4>3. \A a, b \in Boxes : <<a>> \in Seq(Boxes) /\ <<a, b>> \in Seq(Boxes)
          OBVIOUS
        <4>4. CASE l = "ana-kat"
          <5>1. InitialZones[l] = <<Box(P(6), P(8), P(62), P(42)), Box(P(70), P(8), P(22), P(42))>>
            BY <4>4 DEF InitialZones
          <5>2. Box(P(6), P(8), P(62), P(42)) \in Boxes /\ Box(P(70), P(8), P(22), P(42)) \in Boxes
            BY <4>1, <4>2
          <5>3. QED
            BY <4>3, <5>1, <5>2
        <4>5. CASE l = "balkon"
          <5>1. InitialZones[l] = <<Box(P(8), P(10), P(70), P(48))>>
            BY <4>5 DEF InitialZones
          <5>2. Box(P(8), P(10), P(70), P(48)) \in Boxes
            BY <4>1, <4>2
          <5>3. QED
            BY <4>3, <5>1, <5>2
        <4>6. CASE l = "paket"
          <5>1. InitialZones[l] = <<Box(P(10), P(12), P(56), P(36))>>
            BY <4>6 DEF InitialZones
          <5>2. Box(P(10), P(12), P(56), P(36)) \in Boxes
            BY <4>1, <4>2
          <5>3. QED
            BY <4>3, <5>1, <5>2
        <4>7. QED
          BY <4>4, <4>5, <4>6 DEF Layout
      <3>2. QED
        BY <3>1 DEF InitialZones, Drawing
    <2>2. QED
      BY <2>1 DEF DocumentOK
  <1>5. objects \in Furniture
    <2>1. InitialObjects \in Furniture
      <3> DEFINE hall == <<Object("cashier", Box(P(44), P(4), P(16), P(8))),
                           Object("service-pass", Box(P(18), P(2), P(28), P(12))),
                           Object("wc", Box(P(72), P(2), P(18), P(12))),
                           Object("entrance", Box(P(10), P(84), P(14), P(10)))>>
      <3>1. \A kind \in Kind, box \in Boxes : Object(kind, box) \in Thing
        BY DEF Object, Thing
      <3>2. InitialObjects = [l \in Layout |-> IF l = "ana-kat" THEN hall ELSE <<>>]
        BY DEF InitialObjects
      <3>3. hall \in Seq(Thing)
        <4>1. \A a, b, c, d \in Thing : <<a, b, c, d>> \in Seq(Thing)
          OBVIOUS
        <4>2. {"cashier", "service-pass", "wc", "entrance"} \subseteq Kind
          BY DEF Kind
        <4>3. /\ Box(P(44), P(4), P(16), P(8)) \in Boxes /\ Box(P(18), P(2), P(28), P(12)) \in Boxes
              /\ Box(P(72), P(2), P(18), P(12)) \in Boxes /\ Box(P(10), P(84), P(14), P(10)) \in Boxes
          BY DEF Box, Boxes, P
        <4>4. QED
          BY <3>1, <4>1, <4>2, <4>3
      <3> HIDE DEF hall
      <3>4. QED
        BY <3>2, <3>3 DEF Furniture
    <2>2. QED
      BY <2>1 DEF DocumentOK
  <1> HIDE DEF visuals, zones, objects
  <1>6. Mounted(given, doc) \in Page
    BY <1>1, <1>2, <1>3, <1>4, <1>5 DEF Page
  <1>7. QED
    BY <1>1, <1>2, <1>3, <1>4, <1>5, <1>6 DEF PageOK

-----------------------------------------------------------------------------
(* The editor.                                                             *)

\* The rows stay: what was said about a page still holds.
LEMMA PageStays ==
  ASSUME NEW p, PageOK(p), There \subseteq There'
  PROVE  PageOK(p)'
  BY DEF PageOK, LookOf, Inside

\* A change in the editor of one page.
LEMMA EditStep ==
  ASSUME LayoutInv, NEW b \in Browser, NEW page, Edit(b, page), PageOK(page)
  PROVE  LayoutInv'
  <1>1. UNCHANGED <<store, pc, ctx, opens, calls, faults>> /\ pages' = [pages EXCEPT ![b] = page]
    BY DEF Edit
  <1>2. UNCHANGED <<rows, document, rowsOf, docOf>> /\ There' = There
    BY <1>1 DEF store, There
  <1>3. RowsInv'
    BY <1>2 DEF LayoutInv, RowsInv, NumbersAreUnique
  <1>4. \A p : PageOK(p) => PageOK(p)'
    BY <1>2, PageStays
  <1>5. StoreInv'
    BY <1>2, <1>4 DEF LayoutInv, StoreInv, DocumentOK
  <1>6. pages' \in [Browser -> Page] /\ \A a \in Browser : PageOK(pages'[a])
    <2>1. pages' \in [Browser -> Page]
      BY <1>1 DEF LayoutInv, PagesInv, PageOK
    <2>2. \A a \in Browser : pages'[a] = IF a = b THEN page ELSE pages[a]
      BY <1>1 DEF LayoutInv, PagesInv
    <2>3. QED
      BY <2>1, <2>2 DEF LayoutInv, PagesInv
  <1>7. PagesInv'
    <2>1. \A a \in Browser : PageOK(pages[a])'
      BY <1>4, <1>6 DEF PageOK, LookOf, Inside, There
    <2>2. \A a \in Browser : CallOK(a)'
      BY <1>1, <1>2, <1>4 DEF LayoutInv, PagesInv, CallOK, CallIs, DocumentOK
    <2>3. QED
      BY <1>1, <1>6, <2>1, <2>2 DEF LayoutInv, PagesInv
  <1>8. BoundsInv'
    BY <1>1, BoundAssumption DEF LayoutInv, BoundsInv, Edit
  <1>9. QED
    BY <1>3, <1>5, <1>7, <1>8 DEF LayoutInv

\* How the editor draws a table and what its changes start from.
LEMMA DrawnIs ==
  ASSUME LayoutInv, NEW b \in Browser, NEW t \in Table
  PROVE  /\ Drawn(b, t) = LookOf(pages[b], t) /\ Drawn(b, t) \in Look /\ Current(b, t) \in Look
         /\ Drawn(b, t).width <= Current(b, t).width + P(4) /\ Drawn(b, t).height = Current(b, t).height
         /\ Current(b, t).width <= Drawn(b, t).width
  <1>1. Drawn(b, t) = LookOf(pages[b], t)
    BY DEF Drawn, LookOf
  <1>2. pages[b].visuals \in [DOMAIN pages[b].visuals -> Look]
    BY PartialIs DEF LayoutInv, PagesInv, Page
  <1>3. CASE t \in DOMAIN pages[b].visuals
    <2>1. Drawn(b, t) = pages[b].visuals[t] /\ Current(b, t) = pages[b].visuals[t] /\ pages[b].visuals[t] \in Look
      BY <1>2, <1>3 DEF Drawn, Current
    <2>2. pages[b].visuals[t].width \in Int /\ pages[b].visuals[t].height \in Int
      BY <2>1 DEF Look, Size, P
    <2>3. QED
      BY <1>1, <2>1, <2>2 DEF P
  <1>4. CASE t \notin DOMAIN pages[b].visuals
    <2>1. /\ Drawn(b, t) = Visual(DefaultWidth(t), P(14), DefaultShape(t))
          /\ Current(b, t) = Visual(P(14), P(14), "square")
      BY <1>4 DEF Drawn, Current
    <2>2. /\ Drawn(b, t).width = DefaultWidth(t) /\ Drawn(b, t).height = P(14)
          /\ Current(b, t).width = P(14) /\ Current(b, t).height = P(14)
      BY <2>1 DEF Visual
    <2>3. QED
      BY <1>1, <2>1, <2>2, DefaultsAre DEF P
  <1>5. QED
    BY <1>3, <1>4

\* A size is kept within its bounds.
LEMMA SizeIs ==
  ASSUME NEW x \in Int
  PROVE  Clamp(P(10), P(26), x) \in Size
  <1> DEFINE lo == P(10)
             hi == P(26)
             w  == Clamp(lo, hi, x)
  <1>1. lo \in Int /\ hi \in Int /\ lo <= hi
    BY DEF P
  <1>2. Size = lo..hi
    BY DEF Size
  <1> HIDE DEF lo, hi
  <1>3. w \in Int /\ w >= lo /\ w <= hi
    BY <1>1, ClampIs
  <1> HIDE DEF w
  <1>4. w \in Size
    BY <1>1, <1>2, <1>3
  <1>5. QED
    BY <1>4 DEF w, lo, hi

\* Where a table is put.
LEMMA OnCanvasIs ==
  ASSUME NEW v \in Look, NEW at \in Points
  PROVE  OnCanvas(at, v) \in Spot /\ OnCanvas(at, v).left <= P(96) - v.width /\ OnCanvas(at, v).top <= P(94) - v.height
  <1> DEFINE right == P(96) - v.width
             bottom == P(94) - v.height
             left == Clamp(P(2), right, at.left)
             top == Clamp(P(4), bottom, at.top)
  <1>1. /\ P(2) \in Int /\ P(2) >= 2 /\ P(4) \in Int /\ P(4) >= 2 /\ right \in Int /\ bottom \in Int
        /\ P(2) <= right /\ P(4) <= bottom /\ at.left \in Int /\ at.top \in Int
    BY DEF P, Look, Size, Points
  <1> HIDE DEF right, bottom
  <1>2. left \in Int /\ left >= P(2) /\ left <= right
    BY <1>1, ClampIs
  <1>3. top \in Int /\ top >= P(4) /\ top <= bottom
    BY <1>1, ClampIs
  <1>4. OnCanvas(at, v) = [left |-> left, top |-> top]
    BY DEF OnCanvas, Point, right, bottom
  <1> HIDE DEF left, top
  <1>5. OnCanvas(at, v) \in Spot
    BY <1>1, <1>2, <1>3, <1>4 DEF Spot, Away
  <1>6. OnCanvas(at, v).left <= right /\ OnCanvas(at, v).top <= bottom
    BY <1>2, <1>3, <1>4
  <1>7. QED
    BY <1>5, <1>6 DEF right, bottom

\* A table is drawn anew, and the other tables as before.
LEMMA RedrawnOK ==
  ASSUME LayoutInv, NEW b \in Browser, Editing(b), NEW t \in pages[b].tables,
         NEW at \in Spot, NEW v \in Look, Inside(at, v), NEW q \in Page,
         q.page = "floor", q.tables = pages[b].tables, q.zones = pages[b].zones, q.objects = pages[b].objects,
         q.places = Put(pages[b].places, t, at), q.touched = pages[b].touched \cup {t},
         q.visuals = Put(pages[b].visuals, t, v) \/ (q.visuals = pages[b].visuals /\ v = LookOf(pages[b], t))
  PROVE  PageOK(q)
  <1> DEFINE p == pages[b]
  <1>1. PageOK(p) /\ t \in Table /\ p.places \in Partial(Spot) /\ p.visuals \in Partial(Look) /\ p.page = "floor"
    BY DEF LayoutInv, PagesInv, Page, PageOK, Editing
  <1> HIDE DEF p
  <1>2. DOMAIN q.places = DOMAIN p.places \cup {t} /\ q.places[t] = at /\ \A u \in DOMAIN p.places \ {t} : q.places[u] = p.places[u]
    <2> DEFINE f == Put(p.places, t, at)
    <2>1. DOMAIN f = DOMAIN p.places \cup {t} /\ f[t] = at /\ \A u \in DOMAIN p.places \ {t} : f[u] = p.places[u]
      BY DEF Put
    <2>2. q.places = f
      BY DEF p
    <2> HIDE DEF f
    <2>3. QED
      BY <2>1, <2>2
  <1>3. DOMAIN q.visuals \subseteq DOMAIN p.visuals \cup {t} /\ LookOf(q, t) = v
        /\ \A u \in Table \ {t} : LookOf(q, u) = LookOf(p, u)
    <2> DEFINE f == Put(p.visuals, t, v)
    <2>1. CASE q.visuals = f
      <3>1. DOMAIN f = DOMAIN p.visuals \cup {t} /\ f[t] = v /\ \A u \in DOMAIN p.visuals \ {t} : f[u] = p.visuals[u]
        BY DEF Put
      <3> HIDE DEF f
      <3>2. QED
        BY <2>1, <3>1 DEF LookOf
    <2>2. CASE q.visuals = p.visuals /\ v = LookOf(p, t)
      BY <2>2 DEF LookOf
    <2>3. q.visuals = f \/ (q.visuals = p.visuals /\ v = LookOf(p, t))
      BY DEF p
    <2>4. QED
      BY <2>1, <2>2, <2>3
  <1>4. p.touched \subseteq Table /\ p.touched \subseteq DOMAIN p.places /\ \A u \in p.touched : Inside(p.places[u], LookOf(p, u))
    BY <1>1 DEF PageOK, Page
  <1>5. \A u \in q.touched : Inside(q.places[u], LookOf(q, u))
    <2> SUFFICES ASSUME NEW u \in q.touched PROVE Inside(q.places[u], LookOf(q, u))
      OBVIOUS
    <2>1. CASE u = t
      BY <1>2, <1>3, <2>1
    <2>2. CASE u # t
      <3>1. u \in p.touched /\ q.places[u] = p.places[u] /\ LookOf(q, u) = LookOf(p, u)
        BY <1>2, <1>3, <1>4, <2>2 DEF p
      <3>2. QED
        BY <1>4, <3>1
    <2>3. QED
      BY <2>1, <2>2
  <1>6. t \in There /\ DOMAIN q.places \subseteq There /\ DOMAIN q.visuals \subseteq There
    BY <1>1, <1>2, <1>3 DEF PageOK, p
  <1>7. q.touched \subseteq DOMAIN q.places
    BY <1>2, <1>4 DEF p
  <1>8. QED
    BY <1>1, <1>5, <1>6, <1>7 DEF PageOK, p

LEMMA DragOK ==
  ASSUME LayoutInv, NEW b \in Browser, Editing(b), NEW t \in Table, NEW to \in Pointer, DragTable(b, t, to)
  PROVE  LayoutInv'
  <1> DEFINE p == pages[b]
             at == Centered(to, Drawn(b, t))
             spot == OnCanvas(at, Current(b, t))
             q == [p EXCEPT !.places = Put(p.places, t, spot), !.touched = p.touched \cup {t}]
  <1>1. t \in p.tables /\ Edit(b, q)
    BY DEF DragTable
  <1>2. Drawn(b, t) = LookOf(p, t) /\ Drawn(b, t) \in Look /\ Current(b, t) \in Look
        /\ Drawn(b, t).width <= Current(b, t).width + P(4) /\ Drawn(b, t).height = Current(b, t).height
    BY DrawnIs
  <1>3. at \in Points
    BY <1>2, EditorAssumption DEF Centered, Point, Points, Look, Size, P
  <1>4. spot \in Spot /\ spot.left <= P(96) - Current(b, t).width /\ spot.top <= P(94) - Current(b, t).height
    BY <1>2, <1>3, OnCanvasIs
  <1>5. Inside(spot, Drawn(b, t))
    BY <1>2, <1>4 DEF Inside, Spot, Away, Look, Size, P
  <1>6. p \in Page /\ p.places \in Partial(Spot) /\ p.touched \in SUBSET Table
    BY DEF LayoutInv, PagesInv, Page
  <1>7. Put(p.places, t, spot) \in Partial(Spot)
    BY <1>4, <1>6, PutPartial
  <1> HIDE DEF spot
  <1>8. /\ q \in Page /\ q.page = p.page /\ q.tables = p.tables /\ q.zones = p.zones /\ q.objects = p.objects
        /\ q.places = Put(p.places, t, spot) /\ q.touched = p.touched \cup {t} /\ q.visuals = p.visuals
    BY <1>6, <1>7 DEF Page
  <1> HIDE DEF q
  <1>9. PageOK(q)
    BY <1>1, <1>2, <1>4, <1>5, <1>8, RedrawnOK DEF Editing
  <1>10. QED
    BY <1>1, <1>9, EditStep

\* A table that was sized is within the bounds, and where it was put on the canvas.
LEMMA ResizeOK ==
  ASSUME LayoutInv, NEW b \in Browser, Editing(b), NEW t \in Table, NEW to \in Pointer, ResizeTable(b, t, to)
  PROVE  LayoutInv'
  <1> DEFINE p == pages[b]
  <1>1. p \in Page /\ p.places \in Partial(Spot) /\ p.visuals \in Partial(Look) /\ p.touched \in SUBSET Table
        /\ p.tables \subseteq Table
    BY DEF LayoutInv, PagesInv, Page
  <1>2. Cardinality(p.tables) \in Nat
    BY <1>1, TableAssumption, FS_Subset, FS_CardinalityType
  <1>3. PICK index \in 0..Cardinality(p.tables) - 1 :
          LET at == PlaceOf(b, t, index)
              v  == Resized(b, t, to, at)
          IN  /\ t \in p.tables
              /\ Edit(b, [p EXCEPT !.visuals = Put(@, t, v), !.places = Put(@, t, OnCanvas(at, v)),
                                   !.touched = @ \cup {t}])
    BY DEF ResizeTable
  <1>4. index \in Nat
    BY <1>2
  <1> DEFINE at == PlaceOf(b, t, index)
             v  == Resized(b, t, to, at)
             spot == OnCanvas(at, v)
             q == [p EXCEPT !.visuals = Put(p.visuals, t, v), !.places = Put(p.places, t, spot),
                            !.touched = p.touched \cup {t}]
  <1>5. t \in p.tables /\ Edit(b, q)
    BY <1>3
  <1>6. at \in Spot
    <2>1. CASE t \in DOMAIN p.places
      BY <1>1, <2>1, PartialIs DEF PlaceOf
    <2>2. CASE t \notin DOMAIN p.places
      BY <1>4, <2>2, SpotsAre DEF PlaceOf
    <2>3. QED
      BY <2>1, <2>2
  <1>7. at \in Points
    BY <1>6 DEF Spot, Away, Points
  <1> HIDE DEF at
  <1>8. v \in Look
    <2> DEFINE dx == to.left - at.left
               dy == to.top - at.top
               w == Clamp(P(10), P(26), dx)
               h == Clamp(P(10), P(26), dy)
    <2>1. dx \in Int /\ dy \in Int
      BY <1>7, EditorAssumption DEF Points
    <2>2. w \in Size /\ h \in Size
      BY <2>1, SizeIs
    <2>3. v = [Current(b, t) EXCEPT !.width = w, !.height = h] /\ Current(b, t) \in Look
      BY DrawnIs DEF Resized
    <2> HIDE DEF v, w, h
    <2>4. QED
      BY <2>2, <2>3 DEF Look
  <1> HIDE DEF v
  <1>9. spot \in Spot /\ spot.left <= P(96) - v.width /\ spot.top <= P(94) - v.height
    BY <1>7, <1>8, OnCanvasIs
  <1> HIDE DEF spot
  <1>10. Inside(spot, v)
    BY <1>8, <1>9 DEF Inside, Spot, Away, Look, Size, P
  <1>11. Put(p.places, t, spot) \in Partial(Spot) /\ Put(p.visuals, t, v) \in Partial(Look)
    BY <1>1, <1>8, <1>9, PutPartial
  <1>12. /\ q \in Page /\ q.page = p.page /\ q.tables = p.tables /\ q.zones = p.zones /\ q.objects = p.objects
         /\ q.places = Put(p.places, t, spot) /\ q.touched = p.touched \cup {t} /\ q.visuals = Put(p.visuals, t, v)
    BY <1>1, <1>11 DEF Page
  <1> HIDE DEF q
  <1>13. PageOK(q)
    BY <1>5, <1>8, <1>9, <1>10, <1>12, RedrawnOK DEF Editing
  <1>14. QED
    BY <1>5, <1>13, EditStep

\* A table is drawn anew where it is, no larger than before.
LEMMA RelookOK ==
  ASSUME LayoutInv, NEW b \in Browser, NEW t \in pages[b].tables, NEW v \in Look,
         v.width = Current(b, t).width, v.height = Current(b, t).height,
         Edit(b, [pages[b] EXCEPT !.visuals = Put(@, t, v)])
  PROVE  LayoutInv'
  <1> DEFINE p == pages[b]
             q == [p EXCEPT !.visuals = Put(p.visuals, t, v)]
  <1>1. PageOK(p) /\ p \in Page /\ t \in Table /\ p.visuals \in Partial(Look) /\ p.places \in Partial(Spot)
    BY DEF LayoutInv, PagesInv, Page
  <1>2. Put(p.visuals, t, v) \in Partial(Look)
    BY <1>1, PutPartial
  <1>3. /\ q \in Page /\ q.page = p.page /\ q.tables = p.tables /\ q.zones = p.zones /\ q.objects = p.objects
        /\ q.places = p.places /\ q.touched = p.touched /\ q.visuals = Put(p.visuals, t, v)
    BY <1>1, <1>2 DEF Page
  <1>4. Edit(b, q)
    OBVIOUS
  <1>5. /\ LookOf(p, t) \in Look /\ v.width <= LookOf(p, t).width /\ v.height = LookOf(p, t).height
    <2>1. /\ Drawn(b, t) = LookOf(p, t) /\ Drawn(b, t) \in Look /\ Drawn(b, t).height = Current(b, t).height
          /\ Current(b, t).width <= Drawn(b, t).width
      BY <1>1, DrawnIs
    <2>2. QED
      BY <2>1
  <1> HIDE DEF q
  <1>6. /\ DOMAIN q.visuals = DOMAIN p.visuals \cup {t} /\ LookOf(q, t) = v
        /\ \A u \in Table \ {t} : LookOf(q, u) = LookOf(p, u)
    <2> DEFINE f == Put(p.visuals, t, v)
    <2>1. DOMAIN f = DOMAIN p.visuals \cup {t} /\ f[t] = v /\ \A u \in DOMAIN p.visuals \ {t} : f[u] = p.visuals[u]
      BY DEF Put
    <2>2. q.visuals = f
      BY <1>3
    <2> HIDE DEF f, p
    <2>3. QED
      BY <2>1, <2>2 DEF LookOf
  <1> HIDE DEF p
  <1>7. \A u \in q.touched : Inside(q.places[u], LookOf(q, u))
    <2> SUFFICES ASSUME NEW u \in q.touched PROVE Inside(q.places[u], LookOf(q, u))
      OBVIOUS
    <2>1. u \in p.touched /\ u \in Table /\ u \in DOMAIN p.places /\ q.places[u] = p.places[u]
          /\ Inside(p.places[u], LookOf(p, u))
      BY <1>1, <1>3 DEF PageOK, Page
    <2>2. CASE u = t
      <3>1. p.places[t] \in Spot
        BY <1>1, <2>1, <2>2, PartialIs
      <3>2. Inside(p.places[t], v)
        BY <1>5, <2>1, <2>2, <3>1 DEF Inside, Spot, Away, Look, Size, P
      <3>3. QED
        BY <1>6, <2>1, <2>2, <3>2
    <2>3. CASE u # t
      BY <1>6, <2>1, <2>3
    <2>4. QED
      BY <2>2, <2>3
  <1>8. PageOK(q)
    <2>1. t \in There
      BY <1>1 DEF PageOK, p
    <2>2. QED
      BY <1>1, <1>3, <1>6, <1>7, <2>1 DEF PageOK
  <1>9. QED
    BY <1>4, <1>8, EditStep

LEMMA CycleOK ==
  ASSUME LayoutInv, NEW b \in Browser, NEW t \in Table, CycleTableShape(b, t) \/ RotateTable(b, t)
  PROVE  LayoutInv'
  <1>1. Current(b, t) \in Look
    BY DrawnIs
  <1>2. CASE CycleTableShape(b, t)
    <2> DEFINE v == [Current(b, t) EXCEPT !.shape = NextShape(@)]
    <2>1. t \in pages[b].tables /\ Edit(b, [pages[b] EXCEPT !.visuals = Put(@, t, v)])
      BY <1>2 DEF CycleTableShape
    <2>2. v \in Look /\ v.width = Current(b, t).width /\ v.height = Current(b, t).height
      BY <1>1 DEF Look, NextShape, Shape
    <2> HIDE DEF v
    <2>3. QED
      BY <2>1, <2>2, RelookOK
  <1>3. CASE RotateTable(b, t)
    <2> DEFINE v == [Current(b, t) EXCEPT !.rotation = RotateNext(@)]
    <2>1. t \in pages[b].tables /\ Edit(b, [pages[b] EXCEPT !.visuals = Put(@, t, v)])
      BY <1>3 DEF RotateTable
    <2>2. \A r \in {0, 90, 180, 270} : RotateNext(r) \in {0, 90, 180, 270}
      BY DEF RotateNext
    <2>3. v \in Look /\ v.width = Current(b, t).width /\ v.height = Current(b, t).height
      BY <1>1, <2>2 DEF Look
    <2> HIDE DEF v
    <2>4. QED
      BY <2>1, <2>3, RelookOK
  <1>4. QED
    BY <1>2, <1>3

\* Zones and fixed objects are drawn anew.
LEMMA FurnishOK ==
  ASSUME LayoutInv, NEW b \in Browser, Editing(b), NEW q,
         \/ \E zones \in Drawing : q = [pages[b] EXCEPT !.zones = zones]
         \/ \E objects \in Furniture : q = [pages[b] EXCEPT !.objects = objects],
         Edit(b, q)
  PROVE  LayoutInv'
  <1> DEFINE p == pages[b]
  <1>1. PageOK(p) /\ p \in Page /\ p.page = "floor" /\ p.zones \in Drawing /\ p.objects \in Furniture
    BY DEF LayoutInv, PagesInv, PageOK, Editing
  <1> DEFINE Kept == /\ q \in Page /\ q.page = p.page /\ q.tables = p.tables /\ q.places = p.places
                     /\ q.visuals = p.visuals /\ q.touched = p.touched /\ q.zones \in Drawing /\ q.objects \in Furniture
  <1>2. Kept
    <2>1. ASSUME NEW zones \in Drawing, q = [p EXCEPT !.zones = zones] PROVE Kept
      <3> HIDE DEF p
      <3>1. QED
        BY <1>1, <2>1 DEF Page
    <2>2. ASSUME NEW objects \in Furniture, q = [p EXCEPT !.objects = objects] PROVE Kept
      <3> HIDE DEF p
      <3>1. QED
        BY <1>1, <2>2 DEF Page
    <2>3. QED
      BY <2>1, <2>2
  <1> HIDE DEF p
  <1>3. PageOK(q)
    BY <1>1, <1>2 DEF PageOK, LookOf
  <1>4. QED
    BY <1>3, EditStep

\* What a drag makes of a box.
LEMMA BoxesAre ==
  ASSUME NEW box \in Boxes, NEW to \in Pointer
  PROVE  /\ ZoneAt(box, Centered(to, box)) \in Boxes /\ ZoneSized(box, Extent(to, box)) \in Boxes
         /\ ObjectAt(box, Centered(to, box)) \in Boxes /\ ObjectSized(box, Extent(to, box)) \in Boxes
  <1>1. /\ box.left \in Int /\ box.top \in Int /\ box.width \in Int /\ box.height \in Int
        /\ to.left \in Int /\ to.top \in Int
    BY EditorAssumption DEF Boxes
  <1>2. \A n \in Int : P(n) \in Int
    BY DEF P
  <1>3. Centered(to, box) \in Points /\ Extent(to, box) \in Points
    BY <1>1 DEF Centered, Extent, Point, Points
  <1>4. \A lo, hi, x \in Int : Clamp(lo, hi, x) \in Int
    BY ClampIs
  <1>5. ASSUME NEW at \in Points
        PROVE  ZoneAt(box, at) \in Boxes /\ ZoneSized(box, at) \in Boxes
               /\ ObjectAt(box, at) \in Boxes /\ ObjectSized(box, at) \in Boxes
    <2>1. at.left \in Int /\ at.top \in Int
      BY DEF Points
    <2>2. \A x, y \in Int : [box EXCEPT !.left = x, !.top = y] \in Boxes /\ [box EXCEPT !.width = x, !.height = y] \in Boxes
      BY DEF Boxes
    <2>3. ZoneAt(box, at) \in Boxes
      <3>1. P(2) \in Int /\ P(84) \in Int /\ P(4) \in Int /\ P(80) \in Int
        BY <1>2
      <3>2. Clamp(P(2), P(84), at.left) \in Int /\ Clamp(P(4), P(80), at.top) \in Int
        BY <1>4, <2>1, <3>1
      <3>3. QED
        BY <2>2, <3>2 DEF ZoneAt
    <2>4. ZoneSized(box, at) \in Boxes
      <3>1. P(16) \in Int /\ P(94) - box.left \in Int /\ P(12) \in Int /\ P(92) - box.top \in Int
        BY <1>1, <1>2
      <3>2. Clamp(P(16), P(94) - box.left, at.left) \in Int /\ Clamp(P(12), P(92) - box.top, at.top) \in Int
        BY <1>4, <2>1, <3>1
      <3>3. QED
        BY <2>2, <3>2 DEF ZoneSized
    <2>5. ObjectAt(box, at) \in Boxes
      <3>1. P(2) \in Int /\ P(96) - box.width \in Int /\ P(96) - box.height \in Int
        BY <1>1, <1>2
      <3>2. Clamp(P(2), P(96) - box.width, at.left) \in Int /\ Clamp(P(2), P(96) - box.height, at.top) \in Int
        BY <1>4, <2>1, <3>1
      <3>3. QED
        BY <2>2, <3>2 DEF ObjectAt
    <2>6. ObjectSized(box, at) \in Boxes
      <3>1. P(10) \in Int /\ P(96) - box.left \in Int /\ P(4) \in Int /\ P(96) - box.top \in Int
        BY <1>1, <1>2
      <3>2. Clamp(P(10), P(96) - box.left, at.left) \in Int /\ Clamp(P(4), P(96) - box.top, at.top) \in Int
        BY <1>4, <2>1, <3>1
      <3>3. QED
        BY <2>2, <3>2 DEF ObjectSized
    <2>7. QED
      BY <2>3, <2>4, <2>5, <2>6
  <1>6. QED
    BY <1>3, <1>5

LEMMA ZonesOK ==
  ASSUME LayoutInv, NEW b \in Browser, Editing(b), NEW l \in EditLayout,
         AddZone(b, l) \/ \E to \in Pointer : MoveZone(b, l, to) \/ SizeZone(b, l, to)
  PROVE  LayoutInv'
  <1> DEFINE zones == pages[b].zones
  <1>1. zones \in Drawing /\ l \in Layout /\ pages[b] \in Page
    BY EditorAssumption DEF LayoutInv, PagesInv, PageOK, Editing
  <1>2. zones[l] \in Seq(Boxes)
    BY <1>1 DEF Drawing
  <1>3. ASSUME NEW z \in Seq(Boxes), Edit(b, [pages[b] EXCEPT !.zones = [zones EXCEPT ![l] = z]])
        PROVE  LayoutInv'
    <2>1. [zones EXCEPT ![l] = z] \in Drawing
      BY <1>1 DEF Drawing
    <2>2. QED
      BY <1>3, <2>1, FurnishOK
  <1>4. CASE AddZone(b, l)
    <2> DEFINE box == Box(P(12), P(12 + Len(zones[l]) * 8), P(28), P(18))
    <2>1. box \in Boxes
      BY <1>2 DEF Box, Boxes, P
    <2>2. Edit(b, [pages[b] EXCEPT !.zones = [zones EXCEPT ![l] = Append(zones[l], box)]])
      BY <1>4 DEF AddZone
    <2> HIDE DEF box
    <2>3. Append(zones[l], box) \in Seq(Boxes)
      BY <1>2, <2>1
    <2>4. QED
      BY <1>3, <2>2, <2>3
  <1>5. ASSUME NEW to \in Pointer, MoveZone(b, l, to) \/ SizeZone(b, l, to) PROVE LayoutInv'
    <2>1. PICK i \in DOMAIN zones[l] : \E box \in {ZoneAt(zones[l][i], Centered(to, zones[l][i])),
                                                    ZoneSized(zones[l][i], Extent(to, zones[l][i]))} :
            Edit(b, [pages[b] EXCEPT !.zones = [zones EXCEPT ![l] = [zones[l] EXCEPT ![i] = box]]])
      BY <1>5 DEF MoveZone, SizeZone
    <2>2. zones[l][i] \in Boxes
      BY <1>2
    <2>6. PICK box \in {ZoneAt(zones[l][i], Centered(to, zones[l][i])),
                        ZoneSized(zones[l][i], Extent(to, zones[l][i]))} :
            Edit(b, [pages[b] EXCEPT !.zones = [zones EXCEPT ![l] = [zones[l] EXCEPT ![i] = box]]])
      BY <2>1
    <2>3. box \in Boxes
      BY <2>2, BoxesAre
    <2>4. [zones[l] EXCEPT ![i] = box] \in Seq(Boxes)
      BY <1>2, <2>3
    <2>5. QED
      BY <1>3, <2>6, <2>4
  <1>6. QED
    BY <1>4, <1>5

LEMMA ObjectsOK ==
  ASSUME LayoutInv, NEW b \in Browser, Editing(b), NEW l \in EditLayout,
         \/ RotateFixedObject(b, l) \/ \E kind \in EditKind : AddFixedObject(b, l, kind)
         \/ \E to \in Pointer : MoveFixedObject(b, l, to) \/ SizeFixedObject(b, l, to)
  PROVE  LayoutInv'
  <1> DEFINE objects == pages[b].objects
  <1>1. objects \in Furniture /\ l \in Layout /\ pages[b] \in Page
    BY EditorAssumption DEF LayoutInv, PagesInv, PageOK, Editing
  <1>2. objects[l] \in Seq(Thing)
    BY <1>1 DEF Furniture
  <1>3. ASSUME NEW z \in Seq(Thing), Edit(b, [pages[b] EXCEPT !.objects = [objects EXCEPT ![l] = z]])
        PROVE  LayoutInv'
    <2>1. [objects EXCEPT ![l] = z] \in Furniture
      BY <1>1 DEF Furniture
    <2>2. QED
      BY <1>3, <2>1, FurnishOK
  <1>4. ASSUME NEW kind \in EditKind, AddFixedObject(b, l, kind) PROVE LayoutInv'
    <2> DEFINE width == CASE kind = "wall" -> P(26) [] kind = "service-pass" -> P(22) [] OTHER -> P(16)
               height == IF kind = "wall" THEN P(4) ELSE P(10)
               thing == Object(kind, Box(P(14), P(14 + Len(objects[l]) * 7), width, height))
    <2>1. thing \in Thing
      <3>1. width \in Int /\ height \in Int
        BY DEF P
      <3> HIDE DEF width, height
      <3>2. Box(P(14), P(14 + Len(objects[l]) * 7), width, height) \in Boxes
        BY <1>2, <3>1 DEF Box, Boxes, P
      <3>3. QED
        BY <3>2, EditorAssumption DEF Object, Thing
    <2>2. Edit(b, [pages[b] EXCEPT !.objects = [objects EXCEPT ![l] = Append(objects[l], thing)]])
      BY <1>4 DEF AddFixedObject
    <2> HIDE DEF thing
    <2>3. Append(objects[l], thing) \in Seq(Thing)
      BY <1>2, <2>1
    <2>4. QED
      BY <1>3, <2>2, <2>3
  <1>5. ASSUME NEW to \in Pointer, MoveFixedObject(b, l, to) \/ SizeFixedObject(b, l, to) PROVE LayoutInv'
    <2>1. PICK i \in DOMAIN objects[l] : \E box \in {ObjectAt(objects[l][i].box, Centered(to, objects[l][i].box)),
                                                      ObjectSized(objects[l][i].box, Extent(to, objects[l][i].box))} :
            Edit(b, [pages[b] EXCEPT !.objects = [objects EXCEPT ![l] =
                       [objects[l] EXCEPT ![i] = [objects[l][i] EXCEPT !.box = box]]]])
      BY <1>5 DEF MoveFixedObject, SizeFixedObject
    <2>2. objects[l][i] \in Thing /\ objects[l][i].box \in Boxes
      <3>1. objects[l][i] \in Thing
        BY <1>2
      <3>2. QED
        BY <3>1 DEF Thing
    <2>7. PICK box \in {ObjectAt(objects[l][i].box, Centered(to, objects[l][i].box)),
                        ObjectSized(objects[l][i].box, Extent(to, objects[l][i].box))} :
            Edit(b, [pages[b] EXCEPT !.objects = [objects EXCEPT ![l] =
                       [objects[l] EXCEPT ![i] = [objects[l][i] EXCEPT !.box = box]]]])
      BY <2>1
    <2>3. box \in Boxes
      BY <2>2, BoxesAre
    <2>4. [objects[l][i] EXCEPT !.box = box] \in Thing
      BY <2>2, <2>3 DEF Thing
    <2>5. [objects[l] EXCEPT ![i] = [objects[l][i] EXCEPT !.box = box]] \in Seq(Thing)
      BY <1>2, <2>4
    <2>6. QED
      BY <1>3, <2>7, <2>5
  <1>6. CASE RotateFixedObject(b, l)
    <2>1. PICK i \in DOMAIN objects[l] :
            Edit(b, [pages[b] EXCEPT !.objects = [objects EXCEPT ![l] = [objects[l] EXCEPT ![i] =
                       [objects[l][i] EXCEPT !.rotation = RotateNext(@)]]]])
      BY <1>6 DEF RotateFixedObject
    <2>2. objects[l][i] \in Thing
      BY <1>2
    <2>3. [objects[l][i] EXCEPT !.rotation = RotateNext(@)] \in Thing
      BY <2>2 DEF Thing, RotateNext
    <2>4. [objects[l] EXCEPT ![i] = [objects[l][i] EXCEPT !.rotation = RotateNext(@)]] \in Seq(Thing)
      BY <1>2, <2>3
    <2>5. QED
      BY <1>3, <2>1, <2>4
  <1>7. QED
    BY <1>4, <1>5, <1>6

LEMMA EditorOK ==
  ASSUME LayoutInv, NEW b \in Browser, Editing(b), Editor(b)
  PROVE  LayoutInv'
  BY DragOK, ResizeOK, CycleOK, ZonesOK, ObjectsOK DEF Editor

-----------------------------------------------------------------------------
(* The calls.                                                              *)

LEMMA CallStays ==
  ASSUME NEW label, NEW c, CallIs(label, c), There \subseteq There'
  PROVE  CallIs(label, c)'
  BY DEF CallIs, DocumentOK, PageOK, LookOf, Inside

\* A browser goes on; tables may have come.
LEMMA PagesStep ==
  ASSUME LayoutInv, There \subseteq There', NEW b \in Browser, NEW label, NEW c, NEW page,
         pc' = [pc EXCEPT ![b] = label], ctx' = [ctx EXCEPT ![b] = c], pages' = [pages EXCEPT ![b] = page],
         CallIs(label, c), PageOK(page)
  PROVE  PagesInv'
  <1>1. /\ pages \in [Browser -> Page] /\ ctx \in [Browser -> Context] /\ pc \in [Browser -> Labels]
        /\ \A a \in Browser : PageOK(pages[a]) /\ CallIs(pc[a], ctx[a])
    BY DEF LayoutInv, PagesInv, CallOK
  <1>2. label \in Labels /\ c \in Context /\ page \in Page
    BY DEF CallIs, PageOK
  <1>3. pages' \in [Browser -> Page] /\ ctx' \in [Browser -> Context] /\ pc' \in [Browser -> Labels]
    BY <1>1, <1>2
  <1>4. ASSUME NEW a \in Browser PROVE PageOK(pages[a])' /\ CallOK(a)'
    <2>1. /\ pages'[a] = IF a = b THEN page ELSE pages[a]
          /\ ctx'[a] = IF a = b THEN c ELSE ctx[a]
          /\ pc'[a] = IF a = b THEN label ELSE pc[a]
      BY <1>1
    <2>2. PageOK(pages'[a])
      BY <1>1, <2>1
    <2>3. CallIs(pc'[a], ctx'[a])
      BY <1>1, <2>1
    <2>4. PageOK(pages[a])'
      BY <2>2 DEF PageOK, LookOf, Inside
    <2>5. CallOK(a)'
      BY <2>3 DEF CallOK, CallIs, DocumentOK, PageOK, LookOf, Inside
    <2>6. QED
      BY <2>4, <2>5
  <1>5. QED
    BY <1>3, <1>4 DEF PagesInv

\* Rows and document stay.
LEMMA StoreKept ==
  ASSUME LayoutInv, UNCHANGED store
  PROVE  There' = There /\ RowsInv' /\ StoreInv'
  <1>1. UNCHANGED <<rows, document, rowsOf, docOf>> /\ There' = There
    BY DEF store, There
  <1>2. RowsInv'
    BY <1>1 DEF LayoutInv, RowsInv, NumbersAreUnique
  <1>3. StoreInv'
    BY <1>1 DEF LayoutInv, StoreInv, DocumentOK, PageOK, LookOf, Inside
  <1>4. QED
    BY <1>1, <1>2, <1>3

LEMMA CallStep ==
  ASSUME LayoutInv, UNCHANGED store, NEW b \in Browser, NEW label, NEW c, NEW page,
         pc' = [pc EXCEPT ![b] = label], ctx' = [ctx EXCEPT ![b] = c], pages' = [pages EXCEPT ![b] = page],
         CallIs(label, c), PageOK(page), BoundsInv'
  PROVE  LayoutInv'
  BY StoreKept, PagesStep DEF LayoutInv

\* The browser keeps its page, its locals, or both.
LEMMA KeepsPage ==
  ASSUME LayoutInv, NEW b \in Browser
  PROVE  /\ CallIs(pc[b], ctx[b]) /\ PageOK(pages[b])
         /\ pages = [pages EXCEPT ![b] = pages[b]] /\ ctx = [ctx EXCEPT ![b] = ctx[b]]
  BY DEF LayoutInv, PagesInv, CallOK

LEMMA IdleIs == CallIs("idle", NoCtx)
  BY EmptyPages DEF CallIs, Labels

\* The labels at which nothing is asked of the locals.
LEMMA FreeIs ==
  ASSUME NEW from, NEW c, CallIs(from, c),
         NEW label \in {"idle", "read", "readTables", "answer", "preview", "refresh", "join"}
  PROVE  CallIs(label, c)
  BY DEF CallIs, Labels

LEMMA BoundsKept ==
  ASSUME LayoutInv, UNCHANGED bounds
  PROVE  BoundsInv'
  BY DEF LayoutInv, BoundsInv, bounds

LEMMA SubmitIs ==
  ASSUME LayoutInv, NEW b \in Browser, NEW label, Submit(b, label)
  PROVE  /\ pc' = [pc EXCEPT ![b] = label] /\ pc[b] = "idle" /\ pages[b].page = "floor" /\ BoundsInv'
  BY BoundAssumption DEF LayoutInv, BoundsInv, Submit, Goto, At, Editing

-----------------------------------------------------------------------------
(* Pages are opened.                                                       *)

LEMMA OpenOK ==
  ASSUME LayoutInv, NEW b \in Browser, OpenPage(b)
  PROVE  LayoutInv'
  <1>1. /\ pc' = [pc EXCEPT ![b] = "read"] /\ pages' = [pages EXCEPT ![b] = NoPage] /\ UNCHANGED store
        /\ ctx' = [ctx EXCEPT ![b] = ctx[b]]
    BY KeepsPage DEF OpenPage, Goto
  <1>2. CallIs("read", ctx[b])
    BY KeepsPage, FreeIs
  <1>3. BoundsInv'
    BY BoundAssumption DEF OpenPage, LayoutInv, BoundsInv
  <1>4. QED
    BY <1>1, <1>2, <1>3, EmptyPages, CallStep

LEMMA ReadTablesOK ==
  ASSUME LayoutInv, NEW b \in Browser, ReadTables(b)
  PROVE  LayoutInv'
  <1>1. UNCHANGED store /\ BoundsInv'
    BY BoundsKept DEF ReadTables
  <1>2. CallIs(pc[b], ctx[b]) /\ ctx[b] \in Context /\ DocumentOK(ctx[b].document) /\ rows \in [Table -> Row]
    BY KeepsPage DEF CallIs, LayoutInv, RowsInv
  <1>3. CASE At(b, "read")
    <2> DEFINE c == [ctx[b] EXCEPT !.rows = rows]
    <2>1. /\ pc' = [pc EXCEPT ![b] = "readDocument"] /\ ctx' = [ctx EXCEPT ![b] = c]
          /\ pages' = [pages EXCEPT ![b] = pages[b]]
      BY <1>3, KeepsPage DEF ReadTables, At, Goto
    <2>2. c \in Context /\ c.rows = rows /\ c.document = ctx[b].document /\ c.shown = ctx[b].shown
      BY <1>2 DEF Context
    <2> HIDE DEF c
    <2>3. CallIs("readDocument", c)
      BY <1>2, <2>2 DEF CallIs, Labels, There
    <2>4. QED
      BY <1>1, <2>1, <2>3, KeepsPage, CallStep
  <1>4. CASE At(b, "readTables")
    <2>1. /\ pc' = [pc EXCEPT ![b] = "idle"] /\ ctx' = [ctx EXCEPT ![b] = NoCtx]
          /\ pages' = [pages EXCEPT ![b] = Mounted(rows, ctx[b].document)]
      BY <1>4 DEF ReadTables, At, Goto, Done
    <2>2. PageOK(Mounted(rows, ctx[b].document))
      BY <1>2, MountedIs DEF There
    <2>3. QED
      BY <1>1, <2>1, <2>2, IdleIs, CallStep
  <1>5. QED
    BY <1>3, <1>4 DEF ReadTables

LEMMA ReadDocumentOK ==
  ASSUME LayoutInv, NEW b \in Browser, ReadDocument(b)
  PROVE  LayoutInv'
  <1>1. UNCHANGED store /\ BoundsInv'
    BY BoundsKept DEF ReadDocument
  <1>2. CallIs(pc[b], ctx[b]) /\ ctx[b] \in Context /\ PageOK(ctx[b].shown) /\ DocumentOK(document) /\ document \in Document
    BY KeepsPage DEF CallIs, LayoutInv, StoreInv, DocumentOK
  <1>3. CASE At(b, "read")
    <2> DEFINE c == [ctx[b] EXCEPT !.document = document]
    <2>1. /\ pc' = [pc EXCEPT ![b] = "readTables"] /\ ctx' = [ctx EXCEPT ![b] = c]
          /\ pages' = [pages EXCEPT ![b] = pages[b]]
      BY <1>3, KeepsPage DEF ReadDocument, At, Goto
    <2>2. c \in Context /\ c.document = document /\ c.shown = ctx[b].shown
      BY <1>2 DEF Context
    <2> HIDE DEF c
    <2>3. CallIs("readTables", c)
      BY <1>2, <2>2 DEF CallIs, Labels
    <2>4. QED
      BY <1>1, <2>1, <2>3, KeepsPage, CallStep
  <1>4. CASE At(b, "readDocument")
    <2>1. /\ pc' = [pc EXCEPT ![b] = "idle"] /\ ctx' = [ctx EXCEPT ![b] = NoCtx]
          /\ pages' = [pages EXCEPT ![b] = Mounted(ctx[b].rows, document)]
      BY <1>4 DEF ReadDocument, At, Goto, Done
    <2>2. ctx[b].rows \in [Table -> Row] /\ \A t \in Table : ctx[b].rows[t].there => t \in There
      BY <1>2, <1>4 DEF CallIs, At
    <2>3. PageOK(Mounted(ctx[b].rows, document))
      BY <1>2, <2>2, MountedIs
    <2>4. QED
      BY <1>1, <2>1, <2>3, IdleIs, CallStep
  <1>5. QED
    BY <1>3, <1>4 DEF ReadDocument

-----------------------------------------------------------------------------
(* The drawing is saved.                                                   *)

LEMMA SaveOK ==
  ASSUME LayoutInv, NEW b \in Browser, SaveLayout(b)
  PROVE  LayoutInv'
  <1> DEFINE c == [NoCtx EXCEPT !.shown = pages[b]]
  <1>1. /\ pc' = [pc EXCEPT ![b] = "load"] /\ ctx' = [ctx EXCEPT ![b] = c] /\ UNCHANGED store
        /\ pages' = [pages EXCEPT ![b] = pages[b]] /\ BoundsInv' /\ pages[b].page = "floor"
    BY SubmitIs, KeepsPage DEF SaveLayout
  <1>2. pages[b] \in Page /\ PageOK(pages[b])
    BY KeepsPage DEF PageOK
  <1>3. c \in Context /\ c.shown = pages[b] /\ c.document = NoDocument
    BY <1>2, EmptyPages DEF Context
  <1> HIDE DEF c
  <1>4. CallIs("load", c)
    BY <1>1, <1>2, <1>3, EmptyPages DEF CallIs, Labels
  <1>5. QED
    BY <1>1, <1>2, <1>4, CallStep

LEMMA LoadOK ==
  ASSUME LayoutInv, NEW b \in Browser, LoadRows(b)
  PROVE  LayoutInv'
  <1>1. UNCHANGED store /\ BoundsInv' /\ pages' = [pages EXCEPT ![b] = pages[b]] /\ pc[b] = "load"
    BY BoundsKept, KeepsPage DEF LoadRows, At
  <1>2. CallIs(pc[b], ctx[b]) /\ ctx[b] \in Context /\ rows \in [Table -> Row]
    BY KeepsPage DEF CallIs, LayoutInv, RowsInv
  <1>3. CASE Goto(b, "write") /\ ctx' = [ctx EXCEPT ![b].rows = rows]
    <2> DEFINE c == [ctx[b] EXCEPT !.rows = rows]
    <2>1. pc' = [pc EXCEPT ![b] = "write"] /\ ctx' = [ctx EXCEPT ![b] = c]
      BY <1>3 DEF Goto
    <2>2. c \in Context /\ c.rows = rows /\ c.document = ctx[b].document /\ c.shown = ctx[b].shown
      BY <1>2 DEF Context
    <2> HIDE DEF c
    <2>3. CallIs("write", c)
      BY <1>1, <1>2, <2>2 DEF CallIs, Labels
    <2>4. QED
      BY <1>1, <2>1, <2>3, KeepsPage, CallStep
  <1>4. CASE Done(b)
    BY <1>1, <1>4, KeepsPage, IdleIs, CallStep DEF Done, Goto
  <1>5. QED
    BY <1>3, <1>4 DEF LoadRows

\* What is written to the row of a table.
LEMMA WrittenIs ==
  ASSUME LayoutInv, NEW b \in Browser, WriteRows(b), NEW t \in Table
  PROVE  LET named == DOMAIN ctx[b].shown.places
         IN  /\ rows'[t] \in Row /\ rows'[t].there = rows[t].there /\ rows'[t].number = rows[t].number
             /\ rows'[t].keyed = rows[t].keyed
             /\ t \in named /\ t \in There /\ rows[t] = ctx[b].rows[t] => rows'[t].at = Entry(ctx[b].shown.places[t])
             /\ t \notin named => rows'[t].at = rows[t].at
  <1> DEFINE c == ctx[b]
             named == DOMAIN c.shown.places
             layout == Column(LayoutOf(t), c.rows[t].layout, rows[t].layout)
             left == Column(Round(c.shown.places[t].left), c.rows[t].at.left, rows[t].at.left)
             top == Column(Round(c.shown.places[t].top), c.rows[t].at.top, rows[t].at.top)
             written == [rows[t] EXCEPT !.layout = layout, !.at = Point(left, top)]
  <1>1. rows'[t] = IF t \in named /\ rows[t].there THEN written ELSE rows[t]
    BY DEF WriteRows, Entry, Point
  <1>2. rows[t] \in Row /\ c.shown.places \in Partial(Spot)
    BY KeepsPage DEF LayoutInv, RowsInv, CallIs, PageOK, Page
  <1>3. ASSUME t \in named, rows[t].there
        PROVE  /\ written \in Row /\ written.there = rows[t].there /\ written.number = rows[t].number
               /\ written.keyed = rows[t].keyed /\ written.at = Point(left, top)
    <2>1. c.shown.places[t] \in Spot
      BY <1>2, <1>3, PartialIs
    <2>2. Round(c.shown.places[t].left) \in Away /\ Round(c.shown.places[t].top) \in Away
      <3>1. \A x \in Away : x \in Int /\ Round(x) \in Away
        BY RoundIs DEF Away
      <3>2. QED
        BY <2>1, <3>1 DEF Spot
    <2>3. rows[t].at.left \in {0} \cup Away /\ rows[t].at.top \in {0} \cup Away
      BY <1>2 DEF Row
    <2>4. left \in {0} \cup Away /\ top \in {0} \cup Away
      BY <2>2, <2>3 DEF Column
    <2>5. layout \in Layout
      BY <1>2, DefaultsAre DEF Column, Row
    <2> HIDE DEF left, top, layout
    <2>6. Point(left, top) \in [left : {0} \cup Away, top : {0} \cup Away]
      BY <2>4 DEF Point
    <2>7. QED
      BY <1>2, <2>5, <2>6 DEF Row
  <1>4. ASSUME rows[t] = c.rows[t] PROVE Point(left, top) = Entry(c.shown.places[t])
    BY <1>4 DEF Point, Entry, Column
  <1> HIDE DEF written, left, top
  <1>5. QED
    BY <1>1, <1>2, <1>3, <1>4 DEF There

LEMMA WriteOK ==
  ASSUME LayoutInv, NEW b \in Browser, WriteRows(b)
  PROVE  LayoutInv'
  <1> DEFINE shown == ctx[b].shown
             named == DOMAIN shown.places
  <1>1. /\ pc[b] = "write" /\ pc' = [pc EXCEPT ![b] = "document"] /\ ctx' = [ctx EXCEPT ![b] = ctx[b]]
        /\ pages' = [pages EXCEPT ![b] = pages[b]] /\ UNCHANGED <<document, docOf, bounds>>
        /\ rowsOf' = IF \A t \in named : rows[t] = ctx[b].rows[t] THEN shown ELSE NoPage
    BY KeepsPage DEF WriteRows, At, Goto
  <1>2. CallIs("write", ctx[b]) /\ PageOK(shown)
    BY <1>1, KeepsPage DEF CallIs
  <1>3. \A t \in Table :
          /\ rows'[t] \in Row /\ rows'[t].there = rows[t].there /\ rows'[t].number = rows[t].number
          /\ rows'[t].keyed = rows[t].keyed
          /\ t \in named /\ t \in There /\ rows[t] = ctx[b].rows[t] => rows'[t].at = Entry(shown.places[t])
    BY WrittenIs
  <1>4. There' = There
    BY <1>3 DEF There
  <1>5. RowsInv'
    <2>1. rows' \in [Table -> Row]
      BY <1>3 DEF WriteRows
    <2>2. There \subseteq Table
      BY DEF There
    <2>3. QED
      BY <1>3, <1>4, <2>1, <2>2 DEF LayoutInv, RowsInv, NumbersAreUnique
  <1>6. StoreInv'
    <2>1. DocumentOK(document)' /\ PageOK(docOf)'
      BY <1>1, <1>4 DEF LayoutInv, StoreInv, DocumentOK, PageOK, LookOf, Inside
    <2>2. docOf'.page = "floor" => document' = [stored |-> TRUE, visuals |-> docOf'.visuals,
                                                zones |-> docOf'.zones, objects |-> docOf'.objects]
      BY <1>1 DEF LayoutInv, StoreInv
    <2>3. PageOK(rowsOf')
      BY <1>1, <1>2, EmptyPages
    <2>4. PageOK(rowsOf)'
      BY <1>4, <2>3 DEF PageOK, LookOf, Inside
    <2>5. ASSUME rowsOf'.page = "floor", NEW t \in DOMAIN rowsOf'.places PROVE rows'[t].at = Entry(rowsOf'.places[t])
      <3>1. rowsOf' = shown /\ \A u \in named : rows[u] = ctx[b].rows[u]
        BY <1>1, <2>5, EmptyPages
      <3>2. named \subseteq There /\ There \subseteq Table
        BY <1>2 DEF PageOK, There
      <3>3. QED
        BY <1>3, <2>5, <3>1, <3>2
    <2>6. QED
      BY <2>1, <2>2, <2>4, <2>5 DEF StoreInv, Entry
  <1>7. CallIs("document", ctx[b])
    BY <1>2 DEF CallIs, Labels
  <1>8. PagesInv' /\ BoundsInv'
    BY <1>1, <1>4, <1>7, KeepsPage, PagesStep, BoundsKept
  <1>9. QED
    BY <1>5, <1>6, <1>8 DEF LayoutInv

LEMMA SaveDocumentOK ==
  ASSUME LayoutInv, NEW b \in Browser, SaveDocument(b)
  PROVE  LayoutInv'
  <1> DEFINE shown == ctx[b].shown
             stored == [stored |-> TRUE, visuals |-> shown.visuals, zones |-> shown.zones, objects |-> shown.objects]
  <1>1. /\ pc[b] = "document" /\ pc' = [pc EXCEPT ![b] = "answer"] /\ ctx' = [ctx EXCEPT ![b] = ctx[b]]
        /\ pages' = [pages EXCEPT ![b] = pages[b]] /\ UNCHANGED <<rows, rowsOf, bounds>>
        /\ document' = stored /\ docOf' = shown
    BY KeepsPage DEF SaveDocument, At, Goto
  <1>2. CallIs("document", ctx[b]) /\ PageOK(shown) /\ shown.page = "floor"
    BY <1>1, KeepsPage DEF CallIs
  <1>3. There' = There
    BY <1>1 DEF There
  <1>4. RowsInv'
    BY <1>1, <1>3 DEF LayoutInv, RowsInv, NumbersAreUnique
  <1>5. DocumentOK(stored)
    <2>1. shown.visuals \in Partial(Look) /\ shown.zones \in Drawing /\ shown.objects \in Furniture
      BY <1>2 DEF PageOK, Page
    <2>2. QED
      BY <2>1 DEF DocumentOK, Document
  <1>6. DocumentOK(document)'
    BY <1>1, <1>5 DEF DocumentOK
  <1>7. PageOK(rowsOf)' /\ PageOK(docOf)'
    BY <1>1, <1>2, <1>3 DEF LayoutInv, StoreInv, PageOK, LookOf, Inside
  <1>8. StoreInv'
    BY <1>1, <1>6, <1>7 DEF LayoutInv, StoreInv
  <1>9. CallIs("answer", ctx[b])
    BY <1>2, FreeIs
  <1>10. PagesInv' /\ BoundsInv'
    BY <1>1, <1>3, <1>9, KeepsPage, PagesStep, BoundsKept
  <1>11. QED
    BY <1>4, <1>8, <1>10 DEF LayoutInv

LEMMA AnswerOK ==
  ASSUME LayoutInv, NEW b \in Browser, Answer(b)
  PROVE  LayoutInv'
  <1> DEFINE p == pages[b]
             tables == IF Editing(b) THEN There ELSE p.tables
             page == [p EXCEPT !.tables = tables]
  <1>1. /\ pc' = [pc EXCEPT ![b] = "idle"] /\ ctx' = [ctx EXCEPT ![b] = NoCtx]
        /\ pages' = [pages EXCEPT ![b] = page] /\ UNCHANGED store /\ BoundsInv'
    BY BoundsKept DEF Answer, Rendered, Done, Goto
  <1>2. PageOK(p) /\ p \in Page
    BY KeepsPage DEF PageOK
  <1>3. tables \in SUBSET Table /\ tables \subseteq There
    BY <1>2 DEF There, PageOK
  <1> HIDE DEF tables, p
  <1>4. /\ page \in Page /\ page.tables = tables /\ page.page = p.page /\ page.places = p.places
        /\ page.visuals = p.visuals /\ page.touched = p.touched /\ page.zones = p.zones /\ page.objects = p.objects
    BY <1>2, <1>3 DEF Page
  <1> HIDE DEF page
  <1>5. PageOK(page)
    BY <1>2, <1>3, <1>4 DEF PageOK, LookOf
  <1>6. QED
    BY <1>1, <1>5, IdleIs, CallStep

-----------------------------------------------------------------------------
(* Tables come, and the menu is previewed.                                 *)

LEMMA CreateOK ==
  ASSUME LayoutInv, NEW b \in Browser, NEW n \in Number, CreateTable(b, n)
  PROVE  LayoutInv'
  <1> DEFINE c == [NoCtx EXCEPT !.number = n]
  <1>1. /\ pc' = [pc EXCEPT ![b] = "create"] /\ ctx' = [ctx EXCEPT ![b] = c] /\ UNCHANGED store
        /\ pages' = [pages EXCEPT ![b] = pages[b]] /\ BoundsInv'
    BY SubmitIs, KeepsPage DEF CreateTable
  <1>2. c \in Context /\ c.shown = NoPage /\ c.document = NoDocument /\ c.number = n
    BY EmptyPages DEF Context
  <1> HIDE DEF c
  <1>3. CallIs("create", c)
    BY <1>2, EmptyPages DEF CallIs, Labels
  <1>4. QED
    BY <1>1, <1>3, KeepsPage, CallStep

\* A call ends, whether the page stays or is left.
LEMMA EndsOK ==
  ASSUME LayoutInv, NEW b \in Browser, UNCHANGED store, BoundsInv', Error(b) \/ (Done(b) /\ UNCHANGED pages)
  PROVE  LayoutInv'
  <1>1. pc' = [pc EXCEPT ![b] = "idle"] /\ ctx' = [ctx EXCEPT ![b] = NoCtx]
    BY DEF Error, Done, Goto
  <1>2. CASE Error(b)
    <2>1. pages' = [pages EXCEPT ![b] = [NoPage EXCEPT !.page = "error"]]
      BY <1>2 DEF Error
    <2>2. PageOK([NoPage EXCEPT !.page = "error"])
      BY EmptyPages
    <2> DEFINE page == [NoPage EXCEPT !.page = "error"]
    <2>3. pages' = [pages EXCEPT ![b] = page] /\ PageOK(page)
      BY <2>1, <2>2
    <2> HIDE DEF page
    <2>4. QED
      BY <1>1, <2>3, IdleIs, CallStep
  <1>3. CASE Done(b) /\ UNCHANGED pages
    BY <1>1, <1>3, IdleIs, KeepsPage, CallStep
  <1>4. QED
    BY <1>2, <1>3

LEMMA CheckOK ==
  ASSUME LayoutInv, NEW b \in Browser, CheckNumber(b)
  PROVE  LayoutInv'
  <1>1. UNCHANGED store /\ BoundsInv'
    BY BoundsKept DEF CheckNumber
  <1>2. PICK preview \in BOOLEAN :
          /\ At(b, IF preview THEN "previewCreate" ELSE "create")
          /\ IF Taken(ctx[b].number)
             THEN Refused(b, preview)
             ELSE Goto(b, IF preview THEN "previewInsert" ELSE "insert") /\ UNCHANGED <<pages, ctx>>
    BY DEF CheckNumber
  <1>3. CASE Refused(b, preview)
    BY <1>1, <1>3, EndsOK DEF Refused
  <1>4. CASE Goto(b, IF preview THEN "previewInsert" ELSE "insert") /\ UNCHANGED <<pages, ctx>>
    <2> DEFINE label == IF preview THEN "previewInsert" ELSE "insert"
    <2>1. pc[b] \in {"previewCreate", "create"} /\ label \in {"previewInsert", "insert"}
      BY <1>2 DEF At
    <2>2. /\ pc' = [pc EXCEPT ![b] = label] /\ ctx' = [ctx EXCEPT ![b] = ctx[b]]
          /\ pages' = [pages EXCEPT ![b] = pages[b]]
      BY <1>4, KeepsPage DEF Goto
    <2> HIDE DEF label
    <2>3. CallIs(label, ctx[b])
      <3>1. CallIs(pc[b], ctx[b])
        BY KeepsPage
      <3>2. QED
        BY <2>1, <3>1 DEF CallIs, Labels
    <2>4. QED
      BY <1>1, <2>2, <2>3, KeepsPage, CallStep
  <1>5. QED
    BY <1>2, <1>3, <1>4

\* A table that is inserted has a number no other has.
LEMMA InsertedRows ==
  ASSUME LayoutInv, NEW t \in Table \ There, NEW n \in Number, ~Taken(n), rows' = [rows EXCEPT ![t] = NewRow(n)]
  PROVE  RowsInv' /\ There \subseteq There' /\ \A u \in There : rows'[u] = rows[u]
  <1>1. rows \in [Table -> Row]
    BY DEF LayoutInv, RowsInv
  <1>2. NewRow(n) \in Row /\ NewRow(n).there /\ NewRow(n).number = n /\ NewRow(n).keyed
    BY DEF NewRow, NoRow, Row, Layout, Point
  <1>3. \A u \in Table : rows'[u] = IF u = t THEN NewRow(n) ELSE rows[u]
    BY <1>1
  <1>4. rows' \in [Table -> Row]
    BY <1>1, <1>2
  <1>5. There' = There \cup {t} /\ There \subseteq Table
    BY <1>2, <1>3 DEF There
  <1>6. \A u \in There : rows'[u] = rows[u]
    BY <1>3, <1>5
  <1>7. rows'[t].number = n /\ rows'[t].keyed /\ \A u \in There : rows[u].number # n
    BY <1>2, <1>3 DEF Taken
  <1>8. RowsInv'
    <2>1. \A u \in There : rows[u].number \in Number /\ rows[u].keyed
      BY DEF LayoutInv, RowsInv
    <2>2. \A u, v \in There : u # v => rows[u].number # rows[v].number
      BY DEF LayoutInv, RowsInv, NumbersAreUnique
    <2>3. \A u \in There' : rows'[u].number \in Number /\ rows'[u].keyed
      BY <1>5, <1>6, <1>7, <2>1
    <2>4. \A u, v \in There' : u # v => rows'[u].number # rows'[v].number
      BY <1>5, <1>6, <1>7, <2>2
    <2>5. QED
      BY <1>4, <2>3, <2>4 DEF RowsInv, NumbersAreUnique
  <1>9. QED
    BY <1>5, <1>6, <1>8

LEMMA InsertOK ==
  ASSUME LayoutInv, NEW b \in Browser, InsertTable(b)
  PROVE  LayoutInv'
  <1>1. UNCHANGED <<document, rowsOf, docOf>> /\ BoundsInv'
    BY BoundsKept DEF InsertTable
  <1>2. PICK preview \in BOOLEAN :
          /\ At(b, IF preview THEN "previewInsert" ELSE "insert")
          /\ IF Taken(ctx[b].number)
             THEN Refused(b, preview) /\ UNCHANGED rows
             ELSE /\ \E t \in Table \ There : rows' = [rows EXCEPT ![t] = NewRow(ctx[b].number)]
                  /\ Goto(b, IF preview THEN "refresh" ELSE "answer") /\ UNCHANGED <<pages, ctx>>
    BY DEF InsertTable
  <1>3. CASE Taken(ctx[b].number)
    <2>1. UNCHANGED store
      BY <1>1, <1>2, <1>3 DEF store
    <2>2. Error(b) \/ (Done(b) /\ UNCHANGED pages)
      BY <1>2, <1>3 DEF Refused
    <2>3. QED
      BY <1>1, <2>1, <2>2, EndsOK
  <1>4. CASE ~Taken(ctx[b].number)
    <2> DEFINE label == IF preview THEN "refresh" ELSE "answer"
    <2>1. PICK t \in Table \ There : rows' = [rows EXCEPT ![t] = NewRow(ctx[b].number)]
      BY <1>2, <1>4
    <2>2. /\ pc' = [pc EXCEPT ![b] = label] /\ ctx' = [ctx EXCEPT ![b] = ctx[b]]
          /\ pages' = [pages EXCEPT ![b] = pages[b]] /\ label \in {"refresh", "answer"}
          /\ pc[b] \in {"previewInsert", "insert"}
      BY <1>2, <1>4, KeepsPage DEF Goto, At
    <2> HIDE DEF label
    <2>3. CallIs(pc[b], ctx[b]) /\ ctx[b].number \in Number
      BY <2>2, KeepsPage DEF CallIs
    <2>4. RowsInv' /\ There \subseteq There' /\ \A u \in There : rows'[u] = rows[u]
      BY <1>4, <2>1, <2>3, InsertedRows
    <2>5. CallIs(label, ctx[b])
      BY <2>2, <2>3, FreeIs
    <2>6. PagesInv'
      BY <2>2, <2>4, <2>5, KeepsPage, PagesStep
    <2>7. StoreInv'
      <3>1. DocumentOK(document)' /\ PageOK(rowsOf)' /\ PageOK(docOf)'
        BY <1>1, <2>4 DEF LayoutInv, StoreInv, DocumentOK, PageOK, LookOf, Inside
      <3>2. DOMAIN rowsOf.places \subseteq There
        BY DEF LayoutInv, StoreInv, PageOK
      <3>3. rowsOf'.page = "floor" => \A u \in DOMAIN rowsOf'.places : rows'[u].at = Entry(rowsOf'.places[u])
        BY <1>1, <2>4, <3>2 DEF LayoutInv, StoreInv
      <3>4. QED
        BY <1>1, <3>1, <3>3 DEF LayoutInv, StoreInv, Entry
    <2>8. QED
      BY <1>1, <2>4, <2>6, <2>7 DEF LayoutInv
  <1>5. QED
    BY <1>3, <1>4

\* Every table has a device key, so none is deleted.
LEMMA DeleteOK ==
  ASSUME LayoutInv, NEW t \in Table, DeleteTable(t)
  PROVE  LayoutInv'
  <1>1. rows' = rows /\ UNCHANGED <<document, pages, pc, ctx, rowsOf, docOf, bounds>>
    BY DEF DeleteTable, LayoutInv, RowsInv, There
  <1>2. UNCHANGED store
    BY <1>1 DEF store
  <1>3. BoundsInv' /\ RowsInv' /\ StoreInv' /\ There' = There
    BY <1>1, <1>2, BoundsKept, StoreKept
  <1>4. PagesInv'
    BY <1>1, <1>3 DEF LayoutInv, PagesInv, CallOK, CallIs, DocumentOK, PageOK, LookOf, Inside
  <1>5. QED
    BY <1>3, <1>4 DEF LayoutInv

LEMMA PreviewOK ==
  ASSUME LayoutInv, NEW b \in Browser,
         OpenPreview(b) \/ LookForPreviewTable(b) \/ RefreshPreviewToken(b) \/ JoinPreview(b)
  PROVE  LayoutInv'
  <1>1. CallIs(pc[b], ctx[b]) /\ ctx[b] \in Context
    BY KeepsPage DEF CallIs
  <1>2. CASE OpenPreview(b)
    <2>1. /\ pc' = [pc EXCEPT ![b] = "preview"] /\ ctx' = [ctx EXCEPT ![b] = ctx[b]] /\ UNCHANGED store
          /\ pages' = [pages EXCEPT ![b] = pages[b]] /\ BoundsInv'
      BY <1>2, SubmitIs, KeepsPage DEF OpenPreview
    <2>2. CallIs("preview", ctx[b])
      BY <1>1, FreeIs
    <2>3. QED
      BY <2>1, <2>2, KeepsPage, CallStep
  <1>3. CASE LookForPreviewTable(b)
    <2>1. UNCHANGED store /\ BoundsInv' /\ pages' = [pages EXCEPT ![b] = pages[b]] /\ pc[b] = "preview"
      BY <1>3, BoundsKept, KeepsPage DEF LookForPreviewTable, At
    <2>2. CASE Goto(b, "refresh") /\ UNCHANGED ctx
      <3>1. pc' = [pc EXCEPT ![b] = "refresh"] /\ ctx' = [ctx EXCEPT ![b] = ctx[b]]
        BY <2>2, KeepsPage DEF Goto
      <3>2. CallIs("refresh", ctx[b])
        BY <1>1, FreeIs
      <3>3. QED
        BY <2>1, <3>1, <3>2, KeepsPage, CallStep
    <2>3. CASE Goto(b, "previewCreate") /\ ctx' = [ctx EXCEPT ![b].number = PreviewNumber]
      <3> DEFINE c == [ctx[b] EXCEPT !.number = PreviewNumber]
      <3>1. pc' = [pc EXCEPT ![b] = "previewCreate"] /\ ctx' = [ctx EXCEPT ![b] = c]
        BY <2>3 DEF Goto
      <3>2. c \in Context /\ c.number = PreviewNumber /\ c.document = ctx[b].document /\ c.shown = ctx[b].shown
        BY <1>1, TableAssumption DEF Context
      <3> HIDE DEF c
      <3>3. CallIs("previewCreate", c)
        BY <1>1, <3>2, TableAssumption DEF CallIs, Labels
      <3>4. QED
        BY <2>1, <3>1, <3>3, KeepsPage, CallStep
    <2>4. QED
      BY <1>3, <2>2, <2>3 DEF LookForPreviewTable
  <1>4. CASE RefreshPreviewToken(b)
    <2> DEFINE c == [ctx[b] EXCEPT !.given = Link(Token)]
    <2>1. /\ UNCHANGED store /\ BoundsInv' /\ pages' = [pages EXCEPT ![b] = pages[b]]
          /\ pc' = [pc EXCEPT ![b] = "join"] /\ ctx' = [ctx EXCEPT ![b] = c]
      BY <1>4, BoundsKept, KeepsPage DEF RefreshPreviewToken, Goto
    <2>2. c \in Context /\ c.document = ctx[b].document /\ c.shown = ctx[b].shown
      BY <1>1 DEF Context
    <2> HIDE DEF c
    <2>3. CallIs("join", c)
      BY <1>1, <2>2 DEF CallIs, Labels
    <2>4. QED
      BY <2>1, <2>3, KeepsPage, CallStep
  <1>5. CASE JoinPreview(b)
    <2>1. UNCHANGED store /\ BoundsInv'
      BY <1>5, BoundsKept DEF JoinPreview
    <2>2. CASE Error(b)
      BY <2>1, <2>2, EndsOK
    <2>3. CASE Done(b) /\ pages' = [pages EXCEPT ![b] = [NoPage EXCEPT !.page = "menu"]]
      <3> DEFINE page == [NoPage EXCEPT !.page = "menu"]
      <3>1. PageOK(page)
        BY EmptyPages
      <3>2. pages' = [pages EXCEPT ![b] = page]
        BY <2>3
      <3> HIDE DEF page
      <3>3. QED
        BY <2>1, <2>3, <3>1, <3>2, IdleIs, CallStep DEF Done, Goto
    <2>4. QED
      BY <1>5, <2>2, <2>3 DEF JoinPreview
  <1>6. QED
    BY <1>2, <1>3, <1>4, <1>5

LEMMA FailOK ==
  ASSUME LayoutInv, NEW b \in Browser, CallFails(b)
  PROVE  LayoutInv'
  <1>1. UNCHANGED store
    BY DEF CallFails
  <1>2. BoundsInv'
    BY BoundAssumption DEF CallFails, LayoutInv, BoundsInv
  <1>3. Error(b) \/ (Done(b) /\ UNCHANGED pages)
    BY DEF CallFails
  <1>4. QED
    BY <1>1, <1>2, <1>3, EndsOK

-----------------------------------------------------------------------------
(* The theorems.                                                           *)

LEMMA LayoutInit == Init => LayoutInv
  <1> SUFFICES ASSUME Init PROVE LayoutInv
    OBVIOUS
  <1>1. PICK number \in [InitialTables -> Number] :
          /\ IsInjective(number)
          /\ rows = [t \in Table |-> IF t \in InitialTables
                        THEN [NoRow EXCEPT !.there = TRUE, !.number = number[t], !.keyed = TRUE]
                        ELSE NoRow]
    BY DEF Init
  <1>2. NoRow \in Row /\ NoRow.there = FALSE
    BY DEF NoRow, Row, Layout, Point
  <1>3. \A t \in InitialTables :
          LET row == [NoRow EXCEPT !.there = TRUE, !.number = number[t], !.keyed = TRUE]
          IN  row \in Row /\ row.there /\ row.number = number[t] /\ row.keyed
    BY <1>2 DEF Row
  <1>4. There = InitialTables /\ InitialTables \subseteq Table
    BY <1>1, <1>2, <1>3, TableAssumption DEF There
  <1>5. RowsInv
    <2>1. rows \in [Table -> Row]
      BY <1>1, <1>2, <1>3
    <2>2. \A t \in InitialTables : rows[t].number = number[t] /\ number[t] \in Number /\ rows[t].keyed
      BY <1>1, <1>3, <1>4
    <2>3. \A t, u \in InitialTables : t # u => number[t] # number[u]
      BY <1>1 DEF IsInjective
    <2>4. QED
      BY <1>4, <2>1, <2>2, <2>3 DEF RowsInv, NumbersAreUnique
  <1>6. StoreInv
    BY EmptyPages DEF Init, StoreInv
  <1>7. PagesInv
    <2>1. NoPage \in Page /\ CallIs("idle", NoCtx) /\ NoCtx \in Context
      BY EmptyPages, IdleIs DEF PageOK
    <2>2. QED
      BY <2>1, EmptyPages DEF Init, PagesInv, CallOK, Labels
  <1>8. BoundsInv
    <2>1. MaxOpens \in Nat /\ MaxCalls \in Nat /\ MaxEdits \in Nat /\ MaxFaults \in Nat
      BY BoundAssumption
    <2>2. \A n \in Nat : 0 \in 0..n
      OBVIOUS
    <2>3. QED
      BY <2>1, <2>2 DEF Init, BoundsInv
  <1>9. QED
    BY <1>5, <1>6, <1>7, <1>8 DEF LayoutInv

LEMMA LayoutNext == LayoutInv /\ [Next]_vars => LayoutInv'
  <1> SUFFICES ASSUME LayoutInv, [Next]_vars PROVE LayoutInv'
    OBVIOUS
  <1>1. CASE UNCHANGED vars
    <2>1. UNCHANGED store /\ UNCHANGED bounds /\ UNCHANGED <<pages, pc, ctx>>
      BY <1>1 DEF vars, store, bounds
    <2>2. RowsInv' /\ StoreInv' /\ BoundsInv' /\ There' = There
      BY <2>1, StoreKept, BoundsKept
    <2>3. PagesInv'
      BY <2>1, <2>2 DEF LayoutInv, PagesInv, CallOK, CallIs, DocumentOK, PageOK, LookOf, Inside
    <2>4. QED
      BY <2>2, <2>3 DEF LayoutInv
  <1>2. ASSUME NEW b \in Browser, OpenPage(b) \/ ReadTables(b) \/ ReadDocument(b) \/ (Editing(b) /\ Editor(b))
        PROVE  LayoutInv'
    BY <1>2, OpenOK, ReadTablesOK, ReadDocumentOK, EditorOK
  <1>3. ASSUME NEW b \in Browser, SaveLayout(b) \/ LoadRows(b) \/ WriteRows(b) \/ SaveDocument(b) \/ Answer(b)
        PROVE  LayoutInv'
    BY <1>3, SaveOK, LoadOK, WriteOK, SaveDocumentOK, AnswerOK
  <1>4. ASSUME NEW b \in Browser, (\E n \in Number : CreateTable(b, n)) \/ CheckNumber(b) \/ InsertTable(b)
        PROVE  LayoutInv'
    BY <1>4, CreateOK, CheckOK, InsertOK
  <1>5. ASSUME NEW b \in Browser, \/ OpenPreview(b) \/ LookForPreviewTable(b) \/ RefreshPreviewToken(b)
                                  \/ JoinPreview(b) \/ CallFails(b)
        PROVE  LayoutInv'
    BY <1>5, PreviewOK, FailOK
  <1>6. ASSUME NEW t \in Table, DeleteTable(t) PROVE LayoutInv'
    BY <1>6, DeleteOK
  <1>7. QED
    BY <1>1, <1>2, <1>3, <1>4, <1>5, <1>6 DEF Next

\* The inductive invariant holds of every reachable state.
THEOREM LayoutInvariance == Spec => []LayoutInv
  BY LayoutInit, LayoutNext, PTL DEF Spec

\* Rows, document, pages and what an action has in hand keep their types: every
\* size is within the bounds of the editor and every place away from the corner.
THEOREM LayoutTypeCorrect == Spec => []TypeOK
  <1>1. LayoutInv => TypeOK
    <2> SUFFICES ASSUME LayoutInv PROVE TypeOK
      OBVIOUS
    <2>1. /\ \A t \in Table : /\ rows[t].there => rows[t].number \in Number
                              /\ rows[t].layout \in Layout /\ rows[t].at \in Points
      BY DEF LayoutInv, RowsInv, Row, There, Points, Away
    <2>2. document.stored => DOMAIN document.zones = Layout /\ DOMAIN document.objects = Layout
      BY DEF LayoutInv, StoreInv, DocumentOK, Drawing, Furniture
    <2>3. ASSUME NEW b \in Browser
          PROVE  /\ pc[b] \in Labels
                 /\ pages[b].page \in {"none", "floor", "error", "menu"}
                 /\ \A t \in DOMAIN pages[b].places : pages[b].places[t] \in Points
                 /\ \A t \in DOMAIN pages[b].visuals : IsVisual(pages[b].visuals[t])
                 /\ Editing(b) => \A l \in Layout :
                      /\ \A i \in DOMAIN pages[b].zones[l] : pages[b].zones[l][i] \in Boxes
                      /\ \A i \in DOMAIN pages[b].objects[l] :
                           pages[b].objects[l][i].kind \in Kind /\ pages[b].objects[l][i].box \in Boxes
      <3>1. PageOK(pages[b]) /\ pages[b] \in Page /\ pc[b] \in Labels
        BY KeepsPage DEF PageOK, CallIs
      <3>2. pages[b].page \in {"none", "floor", "error", "menu"}
        BY <3>1 DEF Page
      <3>3. \A t \in DOMAIN pages[b].places : pages[b].places[t] \in Points
        <4>1. pages[b].places \in [DOMAIN pages[b].places -> Spot]
          BY <3>1, PartialIs DEF Page
        <4>2. Spot \subseteq Points
          BY DEF Spot, Away, Points
        <4>3. QED
          BY <4>1, <4>2
      <3>4. \A t \in DOMAIN pages[b].visuals : IsVisual(pages[b].visuals[t])
        <4>1. pages[b].visuals \in [DOMAIN pages[b].visuals -> Look]
          BY <3>1, PartialIs DEF Page
        <4>2. \A v \in Look : IsVisual(v)
          BY DEF Look, Size, P, IsVisual
        <4>3. QED
          BY <4>1, <4>2
      <3>5. ASSUME Editing(b), NEW l \in Layout
            PROVE  /\ \A i \in DOMAIN pages[b].zones[l] : pages[b].zones[l][i] \in Boxes
                   /\ \A i \in DOMAIN pages[b].objects[l] :
                        pages[b].objects[l][i].kind \in Kind /\ pages[b].objects[l][i].box \in Boxes
        <4>1. pages[b].zones[l] \in Seq(Boxes) /\ pages[b].objects[l] \in Seq(Thing)
          BY <3>1, <3>5 DEF PageOK, Editing, Drawing, Furniture
        <4>2. \A i \in DOMAIN pages[b].objects[l] : pages[b].objects[l][i] \in Thing
          BY <4>1
        <4>3. QED
          BY <4>1, <4>2 DEF Thing
      <3>6. QED
        BY <3>1, <3>2, <3>3, <3>4, <3>5
    <2>4. QED
      BY <2>1, <2>2, <2>3 DEF LayoutInv, BoundsInv, TypeOK
  <1>2. QED
    BY <1>1, LayoutInvariance, PTL

\* Whatever is dragged, sized, turned or loaded anew, a table that was moved or
\* sized in an editor is drawn inside the canvas.
THEOREM MovedTablesStayOnCanvas == Spec => []MovedStaysOnCanvas
  <1>1. LayoutInv => MovedStaysOnCanvas
    <2> SUFFICES ASSUME LayoutInv, NEW b \in Browser, NEW t \in pages[b].touched
                 PROVE  LET at == pages[b].places[t]
                            v  == Drawn(b, t)
                        IN  /\ at.left >= 0 /\ at.left + v.width <= P(100)
                            /\ at.top >= 0 /\ at.top + v.height <= P(100)
      BY DEF MovedStaysOnCanvas
    <2>1. PageOK(pages[b]) /\ pages[b] \in Page
      BY KeepsPage DEF PageOK
    <2>2. t \in Table /\ t \in DOMAIN pages[b].places /\ Inside(pages[b].places[t], LookOf(pages[b], t))
      BY <2>1 DEF PageOK, Page
    <2>3. pages[b].places[t] \in Spot
      BY <2>1, <2>2, PartialIs DEF Page
    <2>4. Drawn(b, t) = LookOf(pages[b], t)
      BY <2>2, DrawnIs
    <2>5. QED
      BY <2>2, <2>3, <2>4 DEF Inside, Spot, Away
  <1>2. QED
    BY <1>1, LayoutInvariance, PTL

\* The two calls of a save, and the checks of the page that reads what they wrote,
\* neither lose nor change what the editor showed, but for whole percents.
THEOREM ReloadsShowTheSave == Spec => []ReloadShowsSaved
  <1>1. LayoutInv => ReloadShowsSaved
    <2> SUFFICES ASSUME LayoutInv, rowsOf.page = "floor", rowsOf = docOf
                 PROVE  LET again == Mounted(rows, document)
                        IN  /\ \A t \in DOMAIN rowsOf.places : again.places[t] = Entry(rowsOf.places[t])
                            /\ \A t \in DOMAIN rowsOf.visuals : again.visuals[t] =
                                   [rowsOf.visuals[t] EXCEPT !.width = Round(@), !.height = Round(@)]
                            /\ again.zones = rowsOf.zones /\ again.objects = rowsOf.objects
      BY DEF ReloadShowsSaved
    <2> DEFINE tables == {t \in DOMAIN rows : rows[t].there}
    <2>1. rows \in [Table -> Row] /\ tables = There /\ There \subseteq Table
      BY DEF LayoutInv, RowsInv, There
    <2>2. /\ PageOK(rowsOf) /\ rowsOf \in Page
          /\ document = [stored |-> TRUE, visuals |-> rowsOf.visuals, zones |-> rowsOf.zones, objects |-> rowsOf.objects]
          /\ \A t \in DOMAIN rowsOf.places : rows[t].at = Entry(rowsOf.places[t])
      BY DEF LayoutInv, StoreInv, PageOK
    <2>3. document.stored /\ document.visuals = rowsOf.visuals /\ document.zones = rowsOf.zones
          /\ document.objects = rowsOf.objects
      BY <2>2
    <2>4. /\ Mounted(rows, document).places = InitialPlacements(rows)
          /\ Mounted(rows, document).visuals = InitialVisuals(tables, document)
          /\ Mounted(rows, document).zones = rowsOf.zones /\ Mounted(rows, document).objects = rowsOf.objects
      BY <2>3 DEF Mounted
    <2>5. ASSUME NEW t \in DOMAIN rowsOf.places PROVE InitialPlacements(rows)[t] = Entry(rowsOf.places[t])
      <3>1. t \in There /\ rowsOf.places[t] \in Spot
        BY <2>2, PartialIs DEF PageOK, Page
      <3>2. \A x \in Away : Round(x) \in Away /\ Round(x) # 0
        BY RoundIs DEF Away
      <3>3. rows[t].at = Point(Round(rowsOf.places[t].left), Round(rowsOf.places[t].top))
        BY <2>2 DEF Entry
      <3>4. rows[t].at.left # 0 /\ rows[t].at.top # 0
        BY <3>1, <3>2, <3>3 DEF Point, Spot
      <3>5. /\ InitialPlacements(rows)[t] \in Spot
            /\ InitialPlacements(rows)[t].left = rows[t].at.left /\ InitialPlacements(rows)[t].top = rows[t].at.top
        <4>1. LET there == {u \in Table : rows[u].there}
                  places == InitialPlacements(rows)
              IN  /\ places \in Partial(Spot) /\ DOMAIN places = there
                  /\ \A u \in there : rows[u].at.left # 0 => places[u].left = rows[u].at.left
                  /\ \A u \in there : rows[u].at.top # 0 => places[u].top = rows[u].at.top
          BY <2>1, PlacedAt
        <4>2. InitialPlacements(rows)[t] \in Spot
          BY <3>1, <4>1, PartialIs DEF There
        <4>3. QED
          BY <3>1, <3>4, <4>1, <4>2 DEF There
      <3>6. InitialPlacements(rows)[t] = Point(rows[t].at.left, rows[t].at.top)
        BY <3>5 DEF Spot, Point
      <3>7. QED
        BY <3>3, <3>6 DEF Point, Entry
    <2>6. ASSUME NEW t \in DOMAIN rowsOf.visuals
          PROVE  InitialVisuals(tables, document)[t] =
                   [rowsOf.visuals[t] EXCEPT !.width = Round(@), !.height = Round(@)]
      <3>1. t \in tables /\ t \in Table /\ rowsOf.visuals[t] \in Look
        BY <2>1, <2>2, PartialIs DEF PageOK, Page
      <3> DEFINE v == rowsOf.visuals[t]
      <3>2. InitialVisuals(tables, document)[t] = LoadedVisual(t, v)
        BY <2>3, <3>1 DEF InitialVisuals
      <3> HIDE DEF v
      <3>3. v \in Look
        BY <3>1 DEF v
      <3>4. LoadedVisual(t, v) = [v EXCEPT !.width = Round(v.width), !.height = Round(v.height)]
        BY <3>1, <3>3, LoadedIs
      <3>5. InitialVisuals(tables, document)[t] = [v EXCEPT !.width = Round(@), !.height = Round(@)]
        BY <3>2, <3>4
      <3>6. QED
        BY <3>5 DEF v
    <2> HIDE DEF tables
    <2> DEFINE look(t) == [rowsOf.visuals[t] EXCEPT !.width = Round(@), !.height = Round(@)]
    <2>7. \A t \in DOMAIN rowsOf.visuals : InitialVisuals(tables, document)[t] = look(t)
      BY <2>6
    <2> HIDE DEF look
    <2>8. /\ \A t \in DOMAIN rowsOf.places : Mounted(rows, document).places[t] = Entry(rowsOf.places[t])
          /\ \A t \in DOMAIN rowsOf.visuals : Mounted(rows, document).visuals[t] = look(t)
      BY <2>4, <2>5, <2>7
    <2>9. QED
      BY <2>4, <2>8 DEF look
  <1>2. QED
    BY <1>1, LayoutInvariance, PTL

\* Two creations that both found a number free do not both get it: the index
\* decides when the row is inserted.
THEOREM TablesHaveTheirNumber == Spec => []NumbersAreUnique
  <1>1. LayoutInv => NumbersAreUnique
    BY DEF LayoutInv, RowsInv
  <1>2. QED
    BY <1>1, LayoutInvariance, PTL

=============================================================================
