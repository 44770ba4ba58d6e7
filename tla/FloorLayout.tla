----------------------------- MODULE FloorLayout -----------------------------
(***************************************************************************)
(* The drawing of the floor: the layout editor of the service page         *)
(* (floor-cash-workspace.tsx), the two calls that save what it shows       *)
(* (saveFloorLayoutAction), the creation of tables by the quick form and   *)
(* by the preview of the menu, and their deletion (auth-actions.ts,        *)
(* TenantEndpoints.cs).                                                    *)
(*                                                                         *)
(* An editor copies the tables and the document when its page is mounted   *)
(* and never again.  Where a table stands is saved in the rows of the      *)
(* tables, how large it is in the document, by calls of their own.         *)
(* Lengths are in halves of a percent of the canvas, as the pointer falls  *)
(* between the whole percents that are stored.                             *)
(***************************************************************************)
EXTENDS Integers, Sequences, FiniteSets, FiniteSetsExt, Functions

CONSTANTS
    Table,          \* ids for tables: bounds how many are ever created
    InitialTables,  \* those that are there, each with its device key
    ZoneOf,         \* the zone that the name and the note of a table say
    Number,         \* numbers a table may be given
    PreviewNumber,  \* 999
    Browser,
    Pointer,        \* where the pointer may be let go, in halves of a percent of what
                    \*        it is measured against: the canvas, or the thing itself
    EditLayout,     \* bound: the tabs and the kinds of
    EditKind,       \*        fixed objects that are edited
    MaxOpens,       \* bound: pages opened
    MaxCalls,       \* bound: saves, creations and previews
    MaxEdits,       \* bound: changes in the editors
    MaxWork,        \* bound: changes and forms together
    MaxFaults,      \* bound: calls that fail
    None

ASSUME ZoneAssumption   == ZoneOf \in [Table -> {"salon", "balkon", "paket"}]
ASSUME TableAssumption  == IsFiniteSet(Table) /\ InitialTables \subseteq Table /\ PreviewNumber \in Number
ASSUME NumberAssumption == Cardinality(InitialTables) < Cardinality(Number)
ASSUME BoundAssumption  == {MaxOpens, MaxCalls, MaxEdits, MaxWork, MaxFaults} \subseteq Nat

VARIABLES
    rows,           \* service_tables with their device keys
    document,       \* floor_layout_json of the profile
    pages,          \* the page of a browser and the state of its editor
    pc, ctx,        \* next call and locals of a browser's action
    rowsOf, docOf,  \* history: the editor that the rows, the document show
    opens, calls, edits, faults

vars   == <<rows, document, pages, pc, ctx, rowsOf, docOf, opens, calls, edits, faults>>
store  == <<rows, document, rowsOf, docOf>>
bounds == <<opens, calls, edits, faults>>

P(n)     == 2 * n                       \* n percent
Round(x) == P((x + 1) \div 2)           \* Math.round
Clamp(lo, hi, x) == Max({lo, Min({hi, x})})

Layout == {"ana-kat", "balkon", "paket"}
Shape  == {"square", "round", "rect"}
Kind   == {"cashier", "service-pass", "wc", "entrance", "wall"}
Labels == {"idle", "read", "readTables", "readDocument", "load", "write", "document", "answer",
           "create", "insert", "preview", "previewCreate", "previewInsert", "refresh", "join"}

\* The pointer is at whole points, on the canvas or beyond it.
ASSUME EditorAssumption ==
    Pointer \subseteq [left : Int, top : Int] /\ EditLayout \subseteq Layout /\ EditKind \subseteq Kind

Point(left, top)          == [left |-> left, top |-> top]
Box(left, top, width, height) == [left |-> left, top |-> top, width |-> width, height |-> height]
Visual(width, height, shape)  == [width |-> width, height |-> height, shape |-> shape, rotation |-> 0]

NoRow  == [there |-> FALSE, number |-> None, keyed |-> FALSE, layout |-> "ana-kat", at |-> Point(0, 0)]
NoDocument == [stored |-> FALSE, visuals |-> <<>>, zones |-> <<>>, objects |-> <<>>]
NoPage == [page |-> "none", tables |-> {}, places |-> <<>>, visuals |-> <<>>,
           zones |-> <<>>, objects |-> <<>>, touched |-> {}]
NoCtx  == [rows |-> <<>>, document |-> NoDocument, shown |-> NoPage, number |-> None, given |-> <<>>]

There == {t \in Table : rows[t].there}

-----------------------------------------------------------------------------
(* What a page makes of the rows and the document it was given. *)

\* inferZone and inferLayout: the layout is that of the zone; the layout code
\* of the row is not looked at.
LayoutOf(t) == IF ZoneOf[t] = "salon" THEN "ana-kat" ELSE ZoneOf[t]

DefaultShape(t) ==
    CASE ZoneOf[t] = "balkon" -> "round" [] ZoneOf[t] = "paket" -> "rect" [] OTHER -> "square"
DefaultWidth(t) == IF ZoneOf[t] = "paket" THEN P(18) ELSE P(14)

\* The spot of a table that was never placed: the index-th of its layout.
InitialSpot(index)  == Point(P(8 + (index % 4) * 21), P(10 + (index \div 4) * 24))
\* The spot of a table the editor has no place for, by its index on the canvas.
FallbackSpot(index) == Point(P(8 + (index % 4) * 22), P(12 + (index \div 4) * 24))

Or(x, default) == IF x = 0 THEN default ELSE x

InitialPlacements(given) ==
    LET tables == {t \in DOMAIN given : given[t].there}
        before(t) == {u \in tables : LayoutOf(u) = LayoutOf(t) /\ given[u].number < given[t].number}
        spot(t)   == InitialSpot(Cardinality(before(t)))
    IN  [t \in tables |-> Point(Or(given[t].at.left, spot(t).left), Or(given[t].at.top, spot(t).top))]

\* Mutant: a table is drawn at most 24 wide.
LoadedVisualNarrower(t, v) ==
    [v EXCEPT !.width = Clamp(P(10), P(24), Round(v.width)),
              !.height = Clamp(P(10), P(24), Round(v.height))]

LoadedVisual(t, v) ==
    [v EXCEPT !.width = Clamp(P(10), P(26), Round(v.width)),
              !.height = Clamp(P(10), P(26), Round(v.height))]

InitialVisuals(tables, doc) ==
    [t \in tables |-> LoadedVisual(t,
        IF t \in DOMAIN doc.visuals THEN doc.visuals[t]
        ELSE Visual(DefaultWidth(t), P(14), DefaultShape(t)))]

InitialZones ==
    [l \in Layout |->
        CASE l = "ana-kat" -> <<Box(P(6), P(8), P(62), P(42)), Box(P(70), P(8), P(22), P(42))>>
          [] l = "balkon"  -> <<Box(P(8), P(10), P(70), P(48))>>
          [] l = "paket"   -> <<Box(P(10), P(12), P(56), P(36))>>]

Object(kind, box) == [kind |-> kind, box |-> box, rotation |-> 0]

InitialObjects ==
    [l \in Layout |->
        IF l = "ana-kat"
        THEN <<Object("cashier", Box(P(44), P(4), P(16), P(8))),
               Object("service-pass", Box(P(18), P(2), P(28), P(12))),
               Object("wc", Box(P(72), P(2), P(18), P(12))),
               Object("entrance", Box(P(10), P(84), P(14), P(10)))>>
        ELSE <<>>]

\* The state of a workspace that is mounted with these rows and this document.
Mounted(given, doc) ==
    LET tables == {t \in DOMAIN given : given[t].there}
    IN  [page    |-> "floor",
         tables  |-> tables,
         places  |-> InitialPlacements(given),
         visuals |-> InitialVisuals(tables, doc),
         zones   |-> IF doc.stored THEN doc.zones ELSE InitialZones,
         objects |-> IF doc.stored THEN doc.objects ELSE InitialObjects,
         touched |-> {}]

-----------------------------------------------------------------------------
Init ==
    /\ \E number \in [InitialTables -> Number] :
        /\ IsInjective(number)
        /\ rows = [t \in Table |-> IF t \in InitialTables
                        THEN [NoRow EXCEPT !.there = TRUE, !.number = number[t], !.keyed = TRUE]
                        ELSE NoRow]
    /\ document = NoDocument
    /\ pages = [b \in Browser |-> NoPage]
    /\ pc = [b \in Browser |-> "idle"]
    /\ ctx = [b \in Browser |-> NoCtx]
    /\ rowsOf = NoPage /\ docOf = NoPage
    /\ opens = 0 /\ calls = 0 /\ edits = 0 /\ faults = 0

At(b, label)   == pc[b] = label
Goto(b, label) == pc' = [pc EXCEPT ![b] = label]
Done(b)        == Goto(b, "idle") /\ ctx' = [ctx EXCEPT ![b] = NoCtx]

Editing(b) == pages[b].page = "floor"

\* A form of the page is sent.
Submit(b, label) ==
    /\ At(b, "idle") /\ Editing(b) /\ calls < MaxCalls /\ calls + edits < MaxWork
    /\ Goto(b, label)
    /\ calls' = calls + 1
    /\ UNCHANGED <<opens, edits, faults>>

\* The action is answered and the page rendered anew: it is given the tables of
\* now, what it copied when it was mounted stays.
Rendered(b) == pages' = [pages EXCEPT ![b].tables = IF Editing(b) THEN There ELSE @]

-----------------------------------------------------------------------------
(* The page asks for the tables and for the document at the same time. *)

OpenPage(b) ==
    /\ At(b, "idle") /\ opens < MaxOpens
    /\ pages' = [pages EXCEPT ![b] = NoPage]
    /\ Goto(b, "read")
    /\ opens' = opens + 1
    /\ UNCHANGED <<store, ctx, calls, edits, faults>>

ReadTables(b) ==
    /\ \/ At(b, "read") /\ Goto(b, "readDocument")
          /\ ctx' = [ctx EXCEPT ![b].rows = rows] /\ UNCHANGED pages
       \/ At(b, "readTables") /\ Done(b)
          /\ pages' = [pages EXCEPT ![b] = Mounted(rows, ctx[b].document)]
    /\ UNCHANGED <<store, bounds>>

ReadDocument(b) ==
    /\ \/ At(b, "read") /\ Goto(b, "readTables")
          /\ ctx' = [ctx EXCEPT ![b].document = document] /\ UNCHANGED pages
       \/ At(b, "readDocument") /\ Done(b)
          /\ pages' = [pages EXCEPT ![b] = Mounted(ctx[b].rows, document)]
    /\ UNCHANGED <<store, bounds>>

-----------------------------------------------------------------------------
(* The editor.  The last event of a drag decides; its start is where the   *)
(* thing was drawn when the drag began.                                    *)

Edit(b, page) ==
    /\ edits < MaxEdits /\ calls + edits < MaxWork
    /\ pages' = [pages EXCEPT ![b] = page]
    /\ edits' = edits + 1
    /\ UNCHANGED <<store, pc, ctx, opens, calls, faults>>

\* How a table is drawn, and what the changes start from.
Drawn(b, t) == IF t \in DOMAIN pages[b].visuals THEN pages[b].visuals[t]
               ELSE Visual(DefaultWidth(t), P(14), DefaultShape(t))
Current(b, t) == IF t \in DOMAIN pages[b].visuals THEN pages[b].visuals[t]
                 ELSE Visual(P(14), P(14), "square")
PlaceOf(b, t, index) == IF t \in DOMAIN pages[b].places THEN pages[b].places[t]
                        ELSE FallbackSpot(index)

Put(f, x, value) == [y \in DOMAIN f \cup {x} |-> IF y = x THEN value ELSE f[y]]

\* updatePlacement.
OnCanvas(at, v) ==
    Point(Clamp(P(2), P(96) - v.width, at.left), Clamp(P(4), P(94) - v.height, at.top))

\* A thing is dragged by its middle and sized by its corner.  The drag is measured
\* on the canvas, the size on the box of the thing: what contains the handle by as
\* many levels as the code goes up from it is not the canvas yet.
Centered(p, box) == Point(p.left - box.width \div 2, p.top - box.height \div 2)
Extent(p, box)   == Point(p.left - box.left, p.top - box.top)

DragTable(b, t, p) ==
    LET at == Centered(p, Drawn(b, t))
    IN  /\ t \in pages[b].tables
        /\ Edit(b, [pages[b] EXCEPT !.places = Put(@, t, OnCanvas(at, Current(b, t))),
                                    !.touched = @ \cup {t}])

Resized(b, t, p, at) ==
    [Current(b, t) EXCEPT !.width = Clamp(P(10), P(26), p.left - at.left),
                          !.height = Clamp(P(10), P(26), p.top - at.top)]

\* Mutant: a table that grows stays where it is.
ResizeTableInPlace(b, t, p) ==
    \E index \in 0..Cardinality(pages[b].tables) - 1 :
        LET at == PlaceOf(b, t, index)
            v  == Resized(b, t, p, at)
        IN  /\ t \in pages[b].tables
            /\ Edit(b, [pages[b] EXCEPT !.visuals = Put(@, t, v), !.places = Put(@, t, at),
                                        !.touched = @ \cup {t}])

\* updateTableVisual with a place: the table is moved back on the canvas.
ResizeTable(b, t, p) ==
    \E index \in 0..Cardinality(pages[b].tables) - 1 :
        LET at == PlaceOf(b, t, index)
            v  == Resized(b, t, p, at)
        IN  /\ t \in pages[b].tables
            /\ Edit(b, [pages[b] EXCEPT !.visuals = Put(@, t, v), !.places = Put(@, t, OnCanvas(at, v)),
                                        !.touched = @ \cup {t}])

NextShape(s)  == CASE s = "square" -> "round" [] s = "round" -> "rect" [] OTHER -> "square"

\* Mutant: an eighth of a turn.
RotateNextEighth(r) == (r + 45) % 360

RotateNext(r) == (r + 90) % 360

CycleTableShape(b, t) ==
    /\ t \in pages[b].tables
    /\ Edit(b, [pages[b] EXCEPT !.visuals = Put(@, t, [Current(b, t) EXCEPT !.shape = NextShape(@)])])

RotateTable(b, t) ==
    /\ t \in pages[b].tables
    /\ Edit(b, [pages[b] EXCEPT !.visuals = Put(@, t, [Current(b, t) EXCEPT !.rotation = RotateNext(@)])])

\* updateZonePlacement: the bounds leave the size of the zone out.
ZoneAt(zone, at) == [zone EXCEPT !.left = Clamp(P(2), P(84), at.left), !.top = Clamp(P(4), P(80), at.top)]

\* updateZoneSize.
ZoneSized(zone, to) ==
    [zone EXCEPT !.width  = Clamp(P(16), P(94) - zone.left, to.left),
                 !.height = Clamp(P(12), P(92) - zone.top, to.top)]

MoveZone(b, l, p) ==
    \E i \in DOMAIN pages[b].zones[l] :
        Edit(b, [pages[b] EXCEPT !.zones[l][i] = ZoneAt(@, Centered(p, @))])

SizeZone(b, l, p) ==
    \E i \in DOMAIN pages[b].zones[l] :
        Edit(b, [pages[b] EXCEPT !.zones[l][i] = ZoneSized(@, Extent(p, @))])

AddZone(b, l) ==
    LET top == P(12 + Len(pages[b].zones[l]) * 8)
    IN  Edit(b, [pages[b] EXCEPT !.zones[l] = Append(@, Box(P(12), top, P(28), P(18)))])

AddFixedObject(b, l, kind) ==
    LET top    == P(14 + Len(pages[b].objects[l]) * 7)
        width  == CASE kind = "wall" -> P(26) [] kind = "service-pass" -> P(22) [] OTHER -> P(16)
        height == IF kind = "wall" THEN P(4) ELSE P(10)
    IN  Edit(b, [pages[b] EXCEPT !.objects[l] = Append(@, Object(kind, Box(P(14), top, width, height)))])

\* updateFixedObjectPlacement and updateFixedObjectSize.
ObjectAt(box, at) ==
    [box EXCEPT !.left = Clamp(P(2), P(96) - box.width, at.left),
                !.top  = Clamp(P(2), P(96) - box.height, at.top)]
ObjectSized(box, to) ==
    [box EXCEPT !.width  = Clamp(P(10), P(96) - box.left, to.left),
                !.height = Clamp(P(4), P(96) - box.top, to.top)]

MoveFixedObject(b, l, p) ==
    \E i \in DOMAIN pages[b].objects[l] :
        Edit(b, [pages[b] EXCEPT !.objects[l][i].box = ObjectAt(@, Centered(p, @))])

SizeFixedObject(b, l, p) ==
    \E i \in DOMAIN pages[b].objects[l] :
        Edit(b, [pages[b] EXCEPT !.objects[l][i].box = ObjectSized(@, Extent(p, @))])

RotateFixedObject(b, l) ==
    \E i \in DOMAIN pages[b].objects[l] :
        Edit(b, [pages[b] EXCEPT !.objects[l][i].rotation = RotateNext(@)])
-----------------------------------------------------------------------------
(* saveFloorLayoutAction: the rows of the tables, then the document.       *)

SaveLayout(b) ==
    /\ Submit(b, "load")
    /\ ctx' = [ctx EXCEPT ![b] = [NoCtx EXCEPT !.shown = pages[b]]]
    /\ UNCHANGED <<store, pages>>

\* The entries of the form: every place of the editor, in whole percents.
Entry(place) == Point(Round(place.left), Round(place.top))

\* SaveTableLayouts loads the rows; it refuses all entries when one names a
\* table that is gone.
LoadRows(b) ==
    LET named == DOMAIN ctx[b].shown.places
    IN  /\ At(b, "load")
        /\ IF named \subseteq There
           THEN Goto(b, "write") /\ ctx' = [ctx EXCEPT ![b].rows = rows]
           ELSE Done(b)
        /\ UNCHANGED <<store, pages, bounds>>

\* The columns that differ from what was loaded are written.
Column(new, seen, current) == IF new # seen THEN new ELSE current

WriteRows(b) ==
    LET c     == ctx[b]
        named == DOMAIN c.shown.places
        at(t) == Entry(c.shown.places[t])
    IN  /\ At(b, "write")
        /\ rows' = [t \in Table |->
              IF t \in named /\ rows[t].there
              THEN [rows[t] EXCEPT
                       !.layout = Column(LayoutOf(t), c.rows[t].layout, @),
                       !.at = Point(Column(at(t).left, c.rows[t].at.left, @.left),
                                    Column(at(t).top, c.rows[t].at.top, @.top))]
              ELSE rows[t]]
        /\ rowsOf' = IF \A t \in named : rows[t] = c.rows[t] THEN c.shown ELSE NoPage
        /\ Goto(b, "document")
        /\ UNCHANGED <<document, pages, ctx, docOf, bounds>>

SaveDocument(b) ==
    LET shown == ctx[b].shown
    IN  /\ At(b, "document")
        /\ document' = [stored |-> TRUE, visuals |-> shown.visuals,
                        zones |-> shown.zones, objects |-> shown.objects]
        /\ docOf' = shown
        /\ Goto(b, "answer")
        /\ UNCHANGED <<rows, pages, ctx, rowsOf, bounds>>

Answer(b) ==
    /\ At(b, "answer")
    /\ Rendered(b) /\ Done(b)
    /\ UNCHANGED <<store, bounds>>

-----------------------------------------------------------------------------
(* Tables. *)

\* Bound: a creation starts while there is an id for each that is under way.
Creating == {b \in Browser : pc[b] \in {"create", "insert", "preview", "previewCreate", "previewInsert"}}
Room     == Cardinality(There) + Cardinality(Creating) < Cardinality(Table)

CreateTable(b, n) ==
    /\ Room
    /\ Submit(b, "create")
    /\ ctx' = [ctx EXCEPT ![b] = [NoCtx EXCEPT !.number = n]]
    /\ UNCHANGED <<store, pages>>

\* Server actions of a preview leave the page when they throw.
Error(b) ==
    /\ Done(b)
    /\ pages' = [pages EXCEPT ![b] = [NoPage EXCEPT !.page = "error"]]

\* The action that calls the API is refused: the form says so, the preview fails.
Refused(b, preview) ==
    IF preview THEN Error(b) ELSE Done(b) /\ UNCHANGED pages

Taken(n) == \E t \in There : rows[t].number = n

CheckNumber(b) ==
    \E preview \in BOOLEAN :
        /\ At(b, IF preview THEN "previewCreate" ELSE "create")
        /\ IF Taken(ctx[b].number)
           THEN Refused(b, preview)
           ELSE Goto(b, IF preview THEN "previewInsert" ELSE "insert") /\ UNCHANGED <<pages, ctx>>
        /\ UNCHANGED <<store, bounds>>

\* The row of a table is made with its device key; it is not placed.
NewRow(n) == [NoRow EXCEPT !.there = TRUE, !.number = n, !.keyed = TRUE]

\* Mutant: no unique index.
InsertUnchecked(b) ==
    \E preview \in BOOLEAN :
        /\ At(b, IF preview THEN "previewInsert" ELSE "insert")
        /\ \E t \in Table \ There : rows' = [rows EXCEPT ![t] = NewRow(ctx[b].number)]
        /\ Goto(b, IF preview THEN "refresh" ELSE "answer") /\ UNCHANGED <<pages, ctx>>
        /\ UNCHANGED <<document, rowsOf, docOf, bounds>>

\* ux_service_tables_number refuses a number that was inserted meanwhile.
InsertTable(b) ==
    \E preview \in BOOLEAN :
        /\ At(b, IF preview THEN "previewInsert" ELSE "insert")
        /\ IF Taken(ctx[b].number)
           THEN Refused(b, preview) /\ UNCHANGED rows
           ELSE /\ \E t \in Table \ There : rows' = [rows EXCEPT ![t] = NewRow(ctx[b].number)]
                /\ Goto(b, IF preview THEN "refresh" ELSE "answer") /\ UNCHANGED <<pages, ctx>>
        /\ UNCHANGED <<document, rowsOf, docOf, bounds>>

\* A table goes when nothing was ever done at it; no page offers to delete one.
DeleteTable(t) ==
    /\ rows[t].there
    /\ rows' = IF rows[t].keyed THEN rows ELSE [rows EXCEPT ![t] = NoRow]
    /\ UNCHANGED <<document, pages, pc, ctx, rowsOf, docOf, bounds>>

-----------------------------------------------------------------------------
(* openPreviewMenuAction: the table 999 is looked for and made, a QR is    *)
(* made for it, and the link of the QR is used to join.                    *)

OpenPreview(b) ==
    /\ Room \/ Taken(PreviewNumber)
    /\ Submit(b, "preview")
    /\ UNCHANGED <<store, pages, ctx>>

LookForPreviewTable(b) ==
    /\ At(b, "preview")
    /\ IF Taken(PreviewNumber)
       THEN Goto(b, "refresh") /\ UNCHANGED ctx
       ELSE /\ Goto(b, "previewCreate")
            /\ ctx' = [ctx EXCEPT ![b].number = PreviewNumber]
    /\ UNCHANGED <<store, pages, bounds>>

Token       == <<"token">>
Link(token) == <<"url">> \o token

\* A token is made (TableAccess has what that does); its link is the answer.
RefreshPreviewToken(b) ==
    /\ At(b, "refresh")
    /\ ctx' = [ctx EXCEPT ![b].given = Link(Token)]
    /\ Goto(b, "join")
    /\ UNCHANGED <<store, pages, bounds>>

\* The token is looked up by the hash of what is given.
JoinPreview(b) ==
    /\ At(b, "join")
    /\ IF ctx[b].given = Token
       THEN Done(b) /\ pages' = [pages EXCEPT ![b] = [NoPage EXCEPT !.page = "menu"]]
       ELSE Error(b)
    /\ UNCHANGED <<store, bounds>>

\* A call fails before it reaches the API; of a page that is opened, none is left.
CallFails(b) ==
    /\ pc[b] # "idle" /\ faults < MaxFaults
    /\ faults' = faults + 1
    /\ IF pc[b] \in {"read", "readTables", "readDocument", "preview", "previewCreate",
                     "previewInsert", "refresh", "join"}
       THEN Error(b) ELSE Done(b) /\ UNCHANGED pages
    /\ UNCHANGED <<store, opens, calls, edits>>

-----------------------------------------------------------------------------
Editor(b) ==
    \/ \E t \in Table : CycleTableShape(b, t) \/ RotateTable(b, t)
    \/ \E t \in Table, p \in Pointer : DragTable(b, t, p) \/ ResizeTable(b, t, p)
    \/ \E l \in EditLayout : AddZone(b, l) \/ RotateFixedObject(b, l)
    \/ \E l \in EditLayout, kind \in EditKind : AddFixedObject(b, l, kind)
    \/ \E l \in EditLayout, p \in Pointer :
         MoveZone(b, l, p) \/ SizeZone(b, l, p) \/ MoveFixedObject(b, l, p) \/ SizeFixedObject(b, l, p)

Next ==
    \/ \E b \in Browser :
        \/ OpenPage(b) \/ ReadTables(b) \/ ReadDocument(b)
        \/ Editing(b) /\ Editor(b)
        \/ SaveLayout(b) \/ LoadRows(b) \/ WriteRows(b) \/ SaveDocument(b) \/ Answer(b)
        \/ \E n \in Number : CreateTable(b, n)
        \/ CheckNumber(b) \/ InsertTable(b)
        \/ OpenPreview(b) \/ LookForPreviewTable(b) \/ RefreshPreviewToken(b) \/ JoinPreview(b)
        \/ CallFails(b)
    \/ \E t \in Table : DeleteTable(t)

Spec == Init /\ [][Next]_vars

-----------------------------------------------------------------------------
(* Properties. *)

Points    == [left : Int, top : Int]
Boxes     == [left : Int, top : Int, width : Int, height : Int]
IsVisual(v) == v.width \in Int /\ v.height \in Int /\ v.shape \in Shape /\ v.rotation \in {0, 90, 180, 270}

\* The types of floor-cash-workspace.tsx: every table that is given to an editor
\* at its mount has a place and a look in it.
TypeOK ==
    /\ \A t \in Table : /\ rows[t].there => rows[t].number \in Number
                        /\ rows[t].layout \in Layout /\ rows[t].at \in Points
    /\ document.stored => DOMAIN document.zones = Layout /\ DOMAIN document.objects = Layout
    /\ \A b \in Browser :
        /\ pc[b] \in Labels
        /\ pages[b].page \in {"none", "floor", "error", "menu"}
        /\ \A t \in DOMAIN pages[b].places : pages[b].places[t] \in Points
        /\ \A t \in DOMAIN pages[b].visuals : IsVisual(pages[b].visuals[t])
        /\ Editing(b) => \A l \in Layout :
               /\ \A i \in DOMAIN pages[b].zones[l] : pages[b].zones[l][i] \in Boxes
               /\ \A i \in DOMAIN pages[b].objects[l] :
                      pages[b].objects[l][i].kind \in Kind /\ pages[b].objects[l][i].box \in Boxes
    /\ opens \in 0..MaxOpens /\ calls \in 0..MaxCalls /\ edits \in 0..MaxEdits /\ faults \in 0..MaxFaults

\* A table that was moved or resized in an editor is drawn inside the canvas,
\* whatever else was done to it in between: the place is bounded by the size and
\* the size by the place.
MovedStaysOnCanvas ==
    \A b \in Browser : Editing(b) => \A t \in pages[b].touched :
        LET at == pages[b].places[t]
            v  == Drawn(b, t)
        IN  /\ at.left >= 0 /\ at.left + v.width <= P(100)
            /\ at.top >= 0 /\ at.top + v.height <= P(100)

\* When the rows and the document are those of one save and no other save ran
\* into it, a page that is opened shows what the editor showed, in whole
\* percents: neither the two calls nor the checks of the page that reads them
\* change it.
ReloadShowsSaved ==
    (rowsOf.page = "floor" /\ rowsOf = docOf) =>
        LET again == Mounted(rows, document)
        IN  /\ \A t \in DOMAIN rowsOf.places : again.places[t] = Entry(rowsOf.places[t])
            /\ \A t \in DOMAIN rowsOf.visuals : again.visuals[t] =
                   [rowsOf.visuals[t] EXCEPT !.width = Round(@), !.height = Round(@)]
            /\ again.zones = rowsOf.zones /\ again.objects = rowsOf.objects

\* Two creations that both found a number free do not both get it.
NumbersAreUnique ==
    \A t, u \in There : t # u => rows[t].number # rows[u].number

\* The preview "joins its live customer session, and opens the menu exactly as
\* the guest sees it": where no call fails, it does not end in an error.
PreviewOpensTheMenu ==
    \A b \in Browser : pages[b].page = "error" => faults > 0

=============================================================================
