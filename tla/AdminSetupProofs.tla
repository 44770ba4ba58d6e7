---------------------------- MODULE AdminSetupProofs ----------------------------
(***************************************************************************)
(* Proofs about AdminSetup, for any number of browsers, stations and rows  *)
(* of the catalog, and whatever calls and pages of theirs interleave.      *)
(***************************************************************************)
EXTENDS AdminSetup, TLAPS

-----------------------------------------------------------------------------
(* The inductive invariant.                                                *)

Routes       == Station \cup {None}
StationRows  == {Gone} \cup [there : {TRUE}, code : Code, active : BOOLEAN]
CategoryRows == {Gone} \cup [there : {TRUE}, station : Routes]
ItemRows     == {Gone} \cup [there : {TRUE}, category : Category, station : Routes]
Cookies      == {None} \cup [change : BOOLEAN]
CardRows     == [station : Station, code : Code, active : BOOLEAN]
PageRows     == [kind : Kind \cup {"none", "error"}, stations : SUBSET CardRows,
                 categories : SUBSET Category, cards : SUBSET CardRows]
FormRows     == {NoForm}
                \cup [op : {"password"}, current : Password, new : Password]
                \cup [op : {"create"}, code : Code, active : BOOLEAN]
                \cup [op : {"update"}, station : Station, code : Code, active : BOOLEAN]
                \cup [op : {"delete"}, station : Station]
                \cup [op : {"category"}, station : Routes]
                \cup [op : {"item"}, category : Category, station : Routes]
CtxRows      == [form : FormRows, todo : SUBSET {"stations", "catalog"},
                 page : PageRows, row : StationRows]

\* The database: what the indexes and the foreign keys keep.
DatabaseInv ==
    /\ account \in [password : Password, change : BOOLEAN]
    /\ stations \in [Station -> StationRows]
    /\ categories \in [Category -> CategoryRows]
    /\ items \in [MenuItem -> ItemRows]
    /\ CodesAreUnique /\ RoutesExist

\* The sessions.
SessionInv == cookies \in [Browser -> Cookies] /\ WorkAfterChange

OneCardEach(cards) == \A x, y \in cards : x.station = y.station => x = y

\* A form is on the page it was sent from, and the category that an item is
\* saved in was there when it was checked: categories are never deleted.
Talk(b) ==
    /\ OneCardEach(pages[b].cards) /\ OneCardEach(ctx[b].page.stations)
    /\ pc[b] \in {"check", "save", "answer"} => pages[b].kind \in Kind
    /\ pc[b] = "save" /\ ctx[b].form.op = "item" => ctx[b].form.category \in Categories

\* The pages, the calls under way and the bounds.
TalkInv ==
    /\ pages \in [Browser -> PageRows]
    /\ pc \in [Browser -> Labels]
    /\ ctx \in [Browser -> CtxRows]
    /\ opens \in 0..MaxOpens /\ calls \in 0..MaxCalls /\ faults \in 0..MaxFaults
    /\ \A b \in Browser : Talk(b)

SetupInv == DatabaseInv /\ SessionInv /\ TalkInv

-----------------------------------------------------------------------------
(* Records.                                                                *)

\* The empty locals and the empty page are locals and a page.
LEMMA EmptyRows ==
  /\ NoCtx \in CtxRows /\ NoPage \in PageRows /\ NoForm \in FormRows /\ Gone \in StationRows
  /\ NoPage.cards = {} /\ NoCtx.page = NoPage /\ NoPage.stations = {} /\ NoCtx.form = NoForm
  <1>1. NoPage \in PageRows /\ NoForm \in FormRows /\ Gone \in StationRows
    BY DEF NoPage, PageRows, FormRows, StationRows
  <1>2. NoCtx \in CtxRows
    BY <1>1 DEF NoCtx, CtxRows
  <1>3. QED
    BY <1>1, <1>2 DEF NoCtx, NoPage

\* The fields that a form has.
LEMMA FormFields ==
  ASSUME NEW f \in FormRows
  PROVE  /\ f.op = "password" => f.current \in Password /\ f.new \in Password
         /\ f.op = "create" => f.code \in Code /\ f.active \in BOOLEAN
         /\ f.op = "update" => f.station \in Station /\ f.code \in Code /\ f.active \in BOOLEAN
         /\ f.op = "delete" => f.station \in Station
         /\ f.op = "category" => f.station \in Routes
         /\ f.op = "item" => f.category \in Category /\ f.station \in Routes
  BY DEF FormRows, NoForm

\* What a call carries is typed.
LEMMA CtxFields ==
  ASSUME TalkInv, NEW b \in Browser
  PROVE  /\ ctx[b] \in CtxRows /\ ctx[b].form \in FormRows /\ ctx[b].page \in PageRows
         /\ ctx[b].row \in StationRows
         /\ pages[b] \in PageRows /\ pages[b].cards \subseteq CardRows
         /\ pages[b].stations \subseteq CardRows /\ pages[b].categories \subseteq Category
  BY DEF TalkInv, CtxRows, PageRows

\* Rows that are there have their columns.
LEMMA RowFields ==
  ASSUME DatabaseInv
  PROVE  /\ \A s \in Stations : s \in Station /\ stations[s].code \in Code /\ stations[s].active \in BOOLEAN
         /\ \A c \in Categories : c \in Category /\ categories[c].station \in Routes
         /\ \A m \in Items : m \in MenuItem /\ items[m].category \in Category /\ items[m].station \in Routes
  <1>0. ~Gone.there
    BY DEF Gone
  <1>1. \A s \in Station : stations[s] \in StationRows
    BY DEF DatabaseInv
  <1>2. \A c \in Category : categories[c] \in CategoryRows
    BY DEF DatabaseInv
  <1>3. \A m \in MenuItem : items[m] \in ItemRows
    BY DEF DatabaseInv
  <1>4. \A x \in StationRows : x.there => x.code \in Code /\ x.active \in BOOLEAN
    BY <1>0 DEF StationRows
  <1>5. \A x \in CategoryRows : x.there => x.station \in Routes
    BY <1>0 DEF CategoryRows
  <1>6. \A x \in ItemRows : x.there => x.category \in Category /\ x.station \in Routes
    BY <1>0 DEF ItemRows
  <1>7. QED
    BY <1>1, <1>2, <1>3, <1>4, <1>5, <1>6 DEF Stations, Categories, Items

\* A step of one browser leaves the others where they are.
LEMMA OneTalk ==
  ASSUME TalkInv, NEW b \in Browser, NEW p \in PageRows, NEW c \in CtxRows, NEW label \in Labels,
         pages' = [pages EXCEPT ![b] = p], pc' = [pc EXCEPT ![b] = label],
         ctx' = [ctx EXCEPT ![b] = c],
         OneCardEach(p.cards), OneCardEach(c.page.stations),
         label \in {"check", "save", "answer"} => p.kind \in Kind,
         label = "save" /\ c.form.op = "item" => c.form.category \in Categories',
         \A x \in Categories : x \in Categories',
         opens' \in 0..MaxOpens, calls' \in 0..MaxCalls, faults' \in 0..MaxFaults
  PROVE  TalkInv'
  <1>1. pages' \in [Browser -> PageRows] /\ pc' \in [Browser -> Labels] /\ ctx' \in [Browser -> CtxRows]
    BY DEF TalkInv
  <1>2. pages'[b] = p /\ pc'[b] = label /\ ctx'[b] = c
    BY DEF TalkInv
  <1>3. Talk(b)'
    BY <1>2 DEF Talk
  <1>4. ASSUME NEW a \in Browser \ {b} PROVE Talk(a)'
    <2>1. pages'[a] = pages[a] /\ pc'[a] = pc[a] /\ ctx'[a] = ctx[a]
      BY DEF TalkInv
    <2>2. QED
      BY <2>1 DEF Talk, TalkInv
  <1>5. QED
    BY <1>1, <1>3, <1>4 DEF TalkInv

\* The bounds of a step that counts nothing.
LEMMA SameBounds ==
  ASSUME TalkInv, UNCHANGED bounds
  PROVE  opens' \in 0..MaxOpens /\ calls' \in 0..MaxCalls /\ faults' \in 0..MaxFaults
  BY DEF TalkInv, bounds

\* A call that is done leaves nothing.
LEMMA DoneTalk ==
  ASSUME TalkInv, NEW b \in Browser, NEW p \in PageRows,
         pages' = [pages EXCEPT ![b] = p], OneCardEach(p.cards), Done(b),
         \A x \in Categories : x \in Categories',
         opens' \in 0..MaxOpens, calls' \in 0..MaxCalls, faults' \in 0..MaxFaults
  PROVE  TalkInv'
  <1>1. pc' = [pc EXCEPT ![b] = "idle"] /\ ctx' = [ctx EXCEPT ![b] = NoCtx]
    BY DEF Done, Goto
  <1>2. OneCardEach(NoCtx.page.stations) /\ NoCtx \in CtxRows
    BY EmptyRows DEF OneCardEach
  <1>3. "idle" \in Labels
    BY DEF Labels
  <1>4. QED
    BY <1>1, <1>2, <1>3, OneTalk

\* The page a cookie leads to is loaded.
LEMMA LoadTalk ==
  ASSUME TalkInv, NEW b \in Browser, NEW p \in PageRows, NEW cookie, NEW kind \in Kind,
         NEW form \in FormRows, Load(b, cookie, kind, form),
         pages' = [pages EXCEPT ![b] = p], OneCardEach(p.cards),
         \A x \in Categories : x \in Categories',
         opens' \in 0..MaxOpens, calls' \in 0..MaxCalls, faults' \in 0..MaxFaults
  PROVE  TalkInv'
  <1> DEFINE to == Redirected(cookie, kind)
             q == [NoPage EXCEPT !.kind = to]
             c == [NoCtx EXCEPT !.form = form, !.todo = ListsOf(to), !.page.kind = to]
  <1>1. pc' = [pc EXCEPT ![b] = "read"] /\ ctx' = [ctx EXCEPT ![b] = c]
    BY DEF Load, Goto
  <1>2. to \in Kind
    BY DEF Redirected, Kind
  <1>3. ListsOf(to) \subseteq {"stations", "catalog"}
    BY DEF ListsOf
  <1>4. q \in PageRows /\ q.stations = {}
    BY <1>2, EmptyRows DEF PageRows
  <1> HIDE DEF to
  <1>5. c = [NoCtx EXCEPT !.form = form, !.todo = ListsOf(to), !.page = q]
    BY EmptyRows
  <1> HIDE DEF q
  <1>6. c \in CtxRows /\ c.page = q
    BY <1>3, <1>4, <1>5, EmptyRows DEF CtxRows
  <1> HIDE DEF c
  <1>7. OneCardEach(c.page.stations) /\ "read" \in Labels
    BY <1>4, <1>6 DEF OneCardEach, Labels
  <1>8. QED
    BY <1>1, <1>6, <1>7, OneTalk

-----------------------------------------------------------------------------
(* Steps that write no row and set no cookie.                              *)

\* Nothing is written, no cookie is set.
LEMMA SameRows ==
  ASSUME SetupInv, UNCHANGED <<account, catalog, cookies>>
  PROVE  DatabaseInv' /\ SessionInv' /\ Categories' = Categories
  <1>1. UNCHANGED <<account, stations, categories, items, cookies>>
    BY DEF catalog
  <1>2. Stations' = Stations /\ Categories' = Categories /\ Items' = Items
    BY <1>1 DEF Stations, Categories, Items
  <1>3. CodesAreUnique' /\ RoutesExist' /\ WorkAfterChange'
    BY <1>1, <1>2 DEF SetupInv, DatabaseInv, SessionInv, CodesAreUnique, RoutesExist, Known, WorkAfterChange
  <1>4. QED
    BY <1>1, <1>2, <1>3 DEF SetupInv, DatabaseInv, SessionInv

\* The page stays as it is.
LEMMA SamePage ==
  ASSUME TalkInv, NEW b \in Browser, UNCHANGED pages
  PROVE  /\ pages' = [pages EXCEPT ![b] = pages[b]] /\ pages[b] \in PageRows
         /\ OneCardEach(pages[b].cards)
  BY DEF TalkInv, Talk

LEMMA RefuseTalk ==
  ASSUME SetupInv, NEW b \in Browser, Refuse(b) PROVE SetupInv'
  <1>1. Done(b) /\ UNCHANGED <<account, catalog, cookies>> /\ UNCHANGED pages /\ UNCHANGED bounds
    BY DEF Refuse
  <1>2. DatabaseInv' /\ SessionInv' /\ Categories' = Categories
    BY <1>1, SameRows
  <1>3. TalkInv'
    BY <1>1, <1>2, SamePage, SameBounds, DoneTalk DEF SetupInv
  <1>4. QED
    BY <1>2, <1>3 DEF SetupInv

LEMMA ErrorTalk ==
  ASSUME SetupInv, NEW b \in Browser, Error(b) PROVE SetupInv'
  <1> DEFINE p == [NoPage EXCEPT !.kind = "error"]
  <1>1. /\ Done(b) /\ UNCHANGED <<account, catalog, cookies>> /\ UNCHANGED bounds
        /\ pages' = [pages EXCEPT ![b] = p]
    BY DEF Error
  <1>2. p \in PageRows /\ p.cards = {}
    BY EmptyRows DEF PageRows
  <1> HIDE DEF p
  <1>3. DatabaseInv' /\ SessionInv' /\ Categories' = Categories
    BY <1>1, SameRows
  <1>4. OneCardEach(p.cards)
    BY <1>2 DEF OneCardEach
  <1>5. TalkInv'
    BY <1>1, <1>2, <1>3, <1>4, SameBounds, DoneTalk DEF SetupInv
  <1>6. QED
    BY <1>3, <1>5 DEF SetupInv

\* A check that is passed.
LEMMA PassedTalk ==
  ASSUME SetupInv, NEW b \in Browser, Passed(b), At(b, "check"),
         ctx[b].form.op = "item" => ctx[b].form.category \in Categories
  PROVE  SetupInv'
  <1>1. /\ pc' = [pc EXCEPT ![b] = "save"] /\ UNCHANGED <<account, catalog, cookies>>
        /\ UNCHANGED pages /\ UNCHANGED ctx /\ UNCHANGED bounds
    BY DEF Passed, Goto
  <1>2. DatabaseInv' /\ SessionInv' /\ Categories' = Categories
    BY <1>1, SameRows
  <1>3. ctx' = [ctx EXCEPT ![b] = ctx[b]] /\ "save" \in Labels
    BY <1>1 DEF SetupInv, TalkInv, Labels
  <1>4. OneCardEach(ctx[b].page.stations) /\ pages[b].kind \in Kind
    BY DEF SetupInv, TalkInv, Talk, At
  <1>5. TalkInv'
    BY <1>1, <1>2, <1>3, <1>4, SamePage, SameBounds, CtxFields, OneTalk DEF SetupInv
  <1>6. QED
    BY <1>2, <1>5 DEF SetupInv

\* A form is sent from a page that has one.
LEMMA SendTalk ==
  ASSUME SetupInv, NEW b \in Browser, NEW form \in FormRows, Send(b, form), pages[b].kind \in Kind
  PROVE  SetupInv'
  <1>1. /\ UNCHANGED <<account, catalog, cookies>> /\ UNCHANGED <<pages, opens, faults>>
        /\ calls < MaxCalls /\ calls' = calls + 1
    BY DEF Send
  <1>2. DatabaseInv' /\ SessionInv' /\ Categories' = Categories
    BY <1>1, SameRows
  <1>3. opens' \in 0..MaxOpens /\ calls' \in 0..MaxCalls /\ faults' \in 0..MaxFaults
    BY <1>1, BoundAssumption DEF SetupInv, TalkInv
  <1>4. CASE UNCHANGED <<pc, ctx>>
    <2>1. TalkInv'
      BY <1>1, <1>2, <1>3, <1>4 DEF SetupInv, TalkInv, Talk
    <2>2. QED
      BY <1>2, <2>1 DEF SetupInv
  <1>5. CASE Goto(b, "check") /\ ctx' = [ctx EXCEPT ![b] = [NoCtx EXCEPT !.form = form]]
    <2> DEFINE c == [NoCtx EXCEPT !.form = form]
    <2>1. c \in CtxRows /\ c.page = NoPage
      BY EmptyRows DEF CtxRows
    <2>2. ctx' = [ctx EXCEPT ![b] = c] /\ pc' = [pc EXCEPT ![b] = "check"] /\ "check" \in Labels
      BY <1>5 DEF Goto, Labels
    <2> HIDE DEF c
    <2>3. OneCardEach(c.page.stations)
      BY <2>1, EmptyRows DEF OneCardEach
    <2>4. TalkInv'
      BY <1>1, <1>2, <1>3, <2>1, <2>2, <2>3, SamePage, OneTalk DEF SetupInv
    <2>5. QED
      BY <1>2, <2>4 DEF SetupInv
  <1>6. QED
    BY <1>4, <1>5 DEF Send

\* Every form of the console has its fields from the page it is on.
LEMMA FormsTalk ==
  ASSUME SetupInv, NEW b \in Browser,
         \/ \E p, q \in Password : SendPassword(b, p, q)
         \/ \E code \in Code, active \in BOOLEAN : SendStation(b, code, active) \/ SendCard(b, code, active)
         \/ SendDelete(b) \/ SendCategory(b) \/ SendItem(b)
  PROVE  SetupInv'
  <1>1. /\ \A card \in pages[b].cards : card.station \in Station
        /\ \A card \in pages[b].stations : card.station \in Station
        /\ pages[b].categories \subseteq Category
    BY CtxFields DEF SetupInv, CardRows
  <1>2. {"change-password", "stations", "catalog"} \subseteq Kind
    BY DEF Kind
  <1>3. ASSUME NEW p \in Password, NEW q \in Password, SendPassword(b, p, q) PROVE SetupInv'
    <2>1. [op |-> "password", current |-> p, new |-> q] \in FormRows
      BY DEF FormRows
    <2>2. QED
      BY <1>2, <1>3, <2>1, SendTalk DEF SendPassword
  <1>4. ASSUME NEW code \in Code, NEW active \in BOOLEAN, SendStation(b, code, active) PROVE SetupInv'
    <2>1. [op |-> "create", code |-> code, active |-> active] \in FormRows
      BY DEF FormRows
    <2>2. QED
      BY <1>2, <1>4, <2>1, SendTalk DEF SendStation
  <1>5. ASSUME NEW code \in Code, NEW active \in BOOLEAN, SendCard(b, code, active) PROVE SetupInv'
    <2>1. PICK card \in pages[b].cards :
             Send(b, [op |-> "update", station |-> card.station, code |-> code, active |-> active])
      BY <1>5 DEF SendCard
    <2>2. [op |-> "update", station |-> card.station, code |-> code, active |-> active] \in FormRows
      BY <1>1 DEF FormRows
    <2>3. QED
      BY <1>2, <1>5, <2>1, <2>2, SendTalk DEF SendCard
  <1>6. CASE SendDelete(b)
    <2>1. PICK card \in pages[b].cards : Send(b, [op |-> "delete", station |-> card.station])
      BY <1>6 DEF SendDelete
    <2>2. [op |-> "delete", station |-> card.station] \in FormRows
      BY <1>1 DEF FormRows
    <2>3. QED
      BY <1>2, <1>6, <2>1, <2>2, SendTalk DEF SendDelete
  <1>7. CASE SendCategory(b)
    <2>1. PICK s \in {card.station : card \in pages[b].stations} \cup {None} :
             Send(b, [op |-> "category", station |-> s])
      BY <1>7 DEF SendCategory
    <2>2. [op |-> "category", station |-> s] \in FormRows
      BY <1>1 DEF FormRows, Routes
    <2>3. QED
      BY <1>2, <1>7, <2>1, <2>2, SendTalk DEF SendCategory
  <1>8. CASE SendItem(b)
    <2>1. PICK c \in pages[b].categories, s \in {card.station : card \in pages[b].stations} \cup {None} :
             Send(b, [op |-> "item", category |-> c, station |-> s])
      BY <1>8 DEF SendItem
    <2>2. [op |-> "item", category |-> c, station |-> s] \in FormRows
      BY <1>1 DEF FormRows, Routes
    <2>3. QED
      BY <1>2, <1>8, <2>1, <2>2, SendTalk DEF SendItem
  <1>9. QED
    BY <1>3, <1>4, <1>5, <1>6, <1>7, <1>8

\* A page is asked for.
LEMMA OpenPageTalk ==
  ASSUME SetupInv, NEW b \in Browser, NEW kind \in Kind, OpenPage(b, kind) PROVE SetupInv'
  <1>1. /\ Load(b, cookies[b], kind, NoForm) /\ pages' = [pages EXCEPT ![b] = NoPage]
        /\ opens < MaxOpens /\ opens' = opens + 1
        /\ UNCHANGED <<account, catalog, cookies>> /\ UNCHANGED <<calls, faults>>
    BY DEF OpenPage
  <1>2. DatabaseInv' /\ SessionInv' /\ Categories' = Categories
    BY <1>1, SameRows
  <1>3. opens' \in 0..MaxOpens /\ calls' \in 0..MaxCalls /\ faults' \in 0..MaxFaults
    BY <1>1, BoundAssumption DEF SetupInv, TalkInv
  <1>4. NoPage \in PageRows /\ NoForm \in FormRows /\ OneCardEach(NoPage.cards)
    BY EmptyRows DEF OneCardEach
  <1>5. TalkInv'
    BY <1>1, <1>2, <1>3, <1>4, LoadTalk DEF SetupInv
  <1>6. QED
    BY <1>2, <1>5 DEF SetupInv

\* The page of an answer is loaded.
LEMMA AnswerTalk ==
  ASSUME SetupInv, NEW b \in Browser, Answer(b) PROVE SetupInv'
  <1>1. /\ Load(b, cookies[b], pages[b].kind, ctx[b].form) /\ pc[b] = "answer"
        /\ UNCHANGED <<account, catalog, cookies>> /\ UNCHANGED pages /\ UNCHANGED bounds
    BY DEF Answer, At
  <1>2. DatabaseInv' /\ SessionInv' /\ Categories' = Categories
    BY <1>1, SameRows
  <1>3. pages[b].kind \in Kind
    BY <1>1 DEF SetupInv, TalkInv, Talk
  <1>4. TalkInv'
    BY <1>1, <1>2, <1>3, SamePage, SameBounds, CtxFields, LoadTalk DEF SetupInv
  <1>5. QED
    BY <1>2, <1>4 DEF SetupInv

\* A list has one card for a station.
LEMMA ReadListTalk ==
  ASSUME SetupInv, NEW b \in Browser, ReadList(b) PROVE SetupInv'
  <1> DEFINE listed == {Card(s, stations[s].code, stations[s].active) : s \in Stations}
  <1>1. PICK list \in ctx[b].todo :
          /\ At(b, "read")
          /\ ctx' = [ctx EXCEPT ![b].todo = @ \ {list},
                ![b].page = IF list = "stations" THEN [@ EXCEPT !.stations = listed]
                            ELSE [@ EXCEPT !.categories = Categories]]
          /\ UNCHANGED <<account, catalog, cookies, pages, pc, bounds>>
    BY DEF ReadList
  <1>2. listed \subseteq CardRows /\ OneCardEach(listed)
    <2>1. \A s \in Stations : Card(s, stations[s].code, stations[s].active) \in CardRows
      BY RowFields DEF SetupInv, Card, CardRows
    <2>2. \A s, u \in Stations : Card(s, stations[s].code, stations[s].active).station
                                   = Card(u, stations[u].code, stations[u].active).station => s = u
      BY DEF Card
    <2>3. QED
      BY <2>1, <2>2 DEF OneCardEach
  <1> HIDE DEF listed
  <1> DEFINE q == IF list = "stations" THEN [ctx[b].page EXCEPT !.stations = listed]
                  ELSE [ctx[b].page EXCEPT !.categories = Categories]
             c == [ctx[b] EXCEPT !.todo = ctx[b].todo \ {list}, !.page = q]
  <1>3. Categories \subseteq Category
    BY DEF Categories
  <1>4. q \in PageRows /\ OneCardEach(q.stations)
    <2>1. OneCardEach(ctx[b].page.stations)
      BY DEF SetupInv, TalkInv, Talk
    <2>2. QED
      BY <1>2, <1>3, <2>1, CtxFields DEF SetupInv, PageRows
  <1> HIDE DEF q
  <1>5. c \in CtxRows /\ c.page = q
    BY <1>4, CtxFields DEF SetupInv, CtxRows
  <1>6. ctx' = [ctx EXCEPT ![b] = c]
    BY <1>1 DEF SetupInv, TalkInv, q
  <1> HIDE DEF c
  <1>7. /\ pc' = [pc EXCEPT ![b] = "read"] /\ "read" \in Labels
        /\ UNCHANGED pages /\ UNCHANGED bounds /\ UNCHANGED <<account, catalog, cookies>>
    BY <1>1 DEF SetupInv, TalkInv, At, Labels
  <1>8. DatabaseInv' /\ SessionInv' /\ Categories' = Categories
    BY <1>7, SameRows
  <1>9. TalkInv'
    BY <1>4, <1>5, <1>6, <1>7, <1>8, SamePage, SameBounds, OneTalk DEF SetupInv
  <1>10. QED
    BY <1>8, <1>9 DEF SetupInv

\* What is kept of the cards stays with its station.
LEMMA CardsType ==
  ASSUME NEW kept, NEW given, OneCardEach(kept), OneCardEach(given)
  PROVE  OneCardEach(Cards(kept, given)) /\ Cards(kept, given) \subseteq kept \cup given
  BY DEF Cards, OneCardEach

LEMMA ShowPageTalk ==
  ASSUME SetupInv, NEW b \in Browser, ShowPage(b) PROVE SetupInv'
  <1> DEFINE new == ctx[b].page
             shown == IF ctx[b].form = NoForm THEN {} ELSE pages[b].cards
  <1>1. PICK kept \in SUBSET shown :
          pages' = [pages EXCEPT ![b] = [new EXCEPT !.cards =
                IF new.kind = "stations" THEN Cards(kept, new.stations) ELSE {}]]
    BY DEF ShowPage
  <1>2. Done(b) /\ UNCHANGED <<account, catalog, cookies>> /\ UNCHANGED bounds
    BY DEF ShowPage
  <1> DEFINE cards == IF new.kind = "stations" THEN Cards(kept, new.stations) ELSE {}
             p == [new EXCEPT !.cards = cards]
  <1>3. cards \subseteq CardRows /\ OneCardEach(cards)
    <2>1. OneCardEach(pages[b].cards) /\ OneCardEach(new.stations)
      BY DEF SetupInv, TalkInv, Talk
    <2>2. OneCardEach(kept) /\ kept \subseteq CardRows
      BY <2>1, CtxFields DEF SetupInv, OneCardEach
    <2>3. new.stations \subseteq CardRows
      BY CtxFields DEF SetupInv, PageRows
    <2>4. OneCardEach({})
      BY DEF OneCardEach
    <2> HIDE DEF new, shown
    <2>5. QED
      BY <2>1, <2>2, <2>3, <2>4, CardsType
  <1> HIDE DEF cards
  <1>4. p \in PageRows /\ p.cards = cards
    BY <1>3, CtxFields DEF SetupInv, PageRows
  <1>5. pages' = [pages EXCEPT ![b] = p]
    BY <1>1 DEF cards
  <1> HIDE DEF p, new, shown
  <1>6. DatabaseInv' /\ SessionInv' /\ Categories' = Categories
    BY <1>2, SameRows
  <1>7. TalkInv'
    BY <1>2, <1>3, <1>4, <1>5, <1>6, SameBounds, DoneTalk DEF SetupInv
  <1>8. QED
    BY <1>6, <1>7 DEF SetupInv

\* A call that does not reach the API.
LEMMA CallFailsTalk ==
  ASSUME SetupInv, NEW b \in Browser, CallFails(b) PROVE SetupInv'
  <1> DEFINE e == [NoPage EXCEPT !.kind = "error"]
  <1>1. /\ Done(b) /\ UNCHANGED <<account, catalog, cookies>> /\ UNCHANGED <<opens, calls>>
        /\ faults < MaxFaults /\ faults' = faults + 1
        /\ pages' = [pages EXCEPT ![b] = e] \/ UNCHANGED pages
    BY DEF CallFails
  <1>2. e \in PageRows /\ e.cards = {}
    BY EmptyRows DEF PageRows
  <1> HIDE DEF e
  <1>3. OneCardEach(e.cards)
    BY <1>2 DEF OneCardEach
  <1>4. DatabaseInv' /\ SessionInv' /\ Categories' = Categories
    BY <1>1, SameRows
  <1>5. opens' \in 0..MaxOpens /\ calls' \in 0..MaxCalls /\ faults' \in 0..MaxFaults
    BY <1>1, BoundAssumption DEF SetupInv, TalkInv
  <1>6. TalkInv'
    BY <1>1, <1>2, <1>3, <1>4, <1>5, SamePage, DoneTalk DEF SetupInv
  <1>7. QED
    BY <1>4, <1>6 DEF SetupInv

\* The checks.
LEMMA ChecksTalk ==
  ASSUME SetupInv, NEW b \in Browser,
         \/ CheckPassword(b) \/ CheckNewStation(b) \/ CheckDelete(b) \/ CheckCategory(b) \/ CheckItem(b)
  PROVE  SetupInv'
  <1>1. At(b, "check")
    BY DEF CheckPassword, CheckNewStation, CheckDelete, CheckCategory, CheckItem, Checking
  <1>2. \/ Refuse(b) \/ Error(b)
        \/ Passed(b) /\ (ctx[b].form.op = "item" => ctx[b].form.category \in Categories)
    BY DEF CheckPassword, CheckNewStation, CheckDelete, CheckCategory, CheckItem, Checking
  <1>3. QED
    BY <1>1, <1>2, RefuseTalk, ErrorTalk, PassedTalk

\* The row of a station is loaded for its change.
LEMMA CheckStationTalk ==
  ASSUME SetupInv, NEW b \in Browser, CheckStation(b) PROVE SetupInv'
  <1> DEFINE f == ctx[b].form
             c == [ctx[b] EXCEPT !.row = stations[f.station]]
  <1>1. CASE Refuse(b)
    BY <1>1, RefuseTalk
  <1>2. CASE ~Refuse(b)
    <2>1. /\ pc[b] = "check" /\ f.op = "update" /\ f.station \in Stations
          /\ pc' = [pc EXCEPT ![b] = "save"] /\ ctx' = [ctx EXCEPT ![b].row = stations[f.station]]
          /\ UNCHANGED <<account, catalog, cookies>> /\ UNCHANGED pages /\ UNCHANGED bounds
      BY <1>2 DEF CheckStation, Checking, At, Goto
    <2>2. ctx' = [ctx EXCEPT ![b] = c] /\ "save" \in Labels
      BY <2>1 DEF SetupInv, TalkInv, Labels
    <2>3. stations[f.station] \in StationRows
      BY <2>1 DEF SetupInv, DatabaseInv, Stations
    <2>4. c \in CtxRows /\ c.form = f /\ c.page = ctx[b].page
      BY <2>3, CtxFields DEF SetupInv, CtxRows
    <2>5. c.form.op # "item"
      BY <2>1, <2>4
    <2> HIDE DEF c
    <2>6. OneCardEach(c.page.stations) /\ pages[b].kind \in Kind
      BY <2>1, <2>4 DEF SetupInv, TalkInv, Talk
    <2>7. DatabaseInv' /\ SessionInv' /\ Categories' = Categories
      BY <2>1, SameRows
    <2>8. TalkInv'
      BY <2>1, <2>2, <2>4, <2>5, <2>6, <2>7, SamePage, SameBounds, OneTalk DEF SetupInv
    <2>9. QED
      BY <2>7, <2>8 DEF SetupInv
  <1>3. QED
    BY <1>1, <1>2

-----------------------------------------------------------------------------
(* Sessions.                                                               *)

LEMMA SameDatabase ==
  ASSUME SetupInv, UNCHANGED <<account, catalog>>
  PROVE  DatabaseInv' /\ Categories' = Categories
  <1>1. UNCHANGED <<account, stations, categories, items>>
    BY DEF catalog
  <1>2. Stations' = Stations /\ Categories' = Categories /\ Items' = Items
    BY <1>1 DEF Stations, Categories, Items
  <1>3. CodesAreUnique' /\ RoutesExist'
    BY <1>1, <1>2 DEF SetupInv, DatabaseInv, CodesAreUnique, RoutesExist, Known
  <1>4. QED
    BY <1>1, <1>2, <1>3 DEF SetupInv, DatabaseInv

\* A cookie that says no more than the row.
LEMMA SetCookieInv ==
  ASSUME SetupInv, NEW b \in Browser, NEW cookie \in Cookies, SetCookie(b, cookie),
         account'.change => account.change,
         cookie # None => (~cookie.change => ~account'.change)
  PROVE  SessionInv'
  <1>1. cookies' = [cookies EXCEPT ![b] = cookie] /\ cookies \in [Browser -> Cookies] /\ WorkAfterChange
    BY DEF SetCookie, SetupInv, SessionInv
  <1>2. cookies' \in [Browser -> Cookies] /\ cookies'[b] = cookie
        /\ \A a \in Browser \ {b} : cookies'[a] = cookies[a]
    BY <1>1
  <1>3. WorkAfterChange'
    BY <1>1, <1>2 DEF WorkAfterChange
  <1>4. QED
    BY <1>2, <1>3 DEF SessionInv

LEMMA CookieType ==
  ASSUME NEW row \in [password : Password, change : BOOLEAN]
  PROVE  Cookie(row) \in Cookies /\ Cookie(row).change = row.change
  BY DEF Cookie, Cookies

LEMMA LoginTalk ==
  ASSUME SetupInv, NEW b \in Browser, NEW password \in Password, Login(b, password) PROVE SetupInv'
  <1>1. /\ UNCHANGED <<account, catalog>> /\ UNCHANGED pages /\ UNCHANGED <<opens, faults>>
        /\ calls < MaxCalls /\ calls' = calls + 1 /\ account' = account
    BY DEF Login
  <1>2. DatabaseInv' /\ Categories' = Categories
    BY <1>1, SameDatabase
  <1>3. opens' \in 0..MaxOpens /\ calls' \in 0..MaxCalls /\ faults' \in 0..MaxFaults
    BY <1>1, BoundAssumption DEF SetupInv, TalkInv
  <1>4. CASE UNCHANGED <<cookies, pc, ctx>>
    <2>1. SessionInv'
      BY <1>1, <1>4 DEF SetupInv, SessionInv, WorkAfterChange
    <2>2. TalkInv'
      BY <1>1, <1>2, <1>3, <1>4 DEF SetupInv, TalkInv, Talk
    <2>3. QED
      BY <1>2, <2>1, <2>2 DEF SetupInv
  <1>5. CASE SetCookie(b, Cookie(account)) /\ Load(b, Cookie(account), "console", NoForm)
    <2>1. Cookie(account) \in Cookies /\ Cookie(account).change = account.change
      BY CookieType DEF SetupInv, DatabaseInv
    <2>2. SessionInv'
      BY <1>1, <1>5, <2>1, SetCookieInv
    <2>3. "console" \in Kind
      BY DEF Kind
    <2>4. TalkInv'
      BY <1>1, <1>2, <1>3, <1>5, <2>3, SamePage, EmptyRows, LoadTalk DEF SetupInv
    <2>5. QED
      BY <1>2, <2>2, <2>4 DEF SetupInv
  <1>6. QED
    BY <1>4, <1>5 DEF Login

LEMMA SessionEndsTalk ==
  ASSUME SetupInv, NEW b \in Browser, Logout(b) \/ SessionExpires(b) PROVE SetupInv'
  <1>1. /\ SetCookie(b, None) /\ UNCHANGED <<account, catalog>> /\ UNCHANGED pages /\ account' = account
    BY DEF Logout, SessionExpires
  <1>2. DatabaseInv' /\ Categories' = Categories
    BY <1>1, SameDatabase
  <1>3. SessionInv'
    BY <1>1, SetCookieInv DEF Cookies
  <1>4. CASE Logout(b)
    <2>1. Load(b, None, "login", NoForm) /\ UNCHANGED bounds /\ "login" \in Kind
      BY <1>4 DEF Logout, Kind
    <2>2. TalkInv'
      BY <1>1, <1>2, <2>1, SamePage, SameBounds, EmptyRows, LoadTalk DEF SetupInv
    <2>3. QED
      BY <1>2, <1>3, <2>2 DEF SetupInv
  <1>5. CASE SessionExpires(b)
    <2>1. UNCHANGED <<pc, ctx, opens, calls>> /\ faults < MaxFaults /\ faults' = faults + 1
      BY <1>5 DEF SessionExpires
    <2>2. faults' \in 0..MaxFaults
      BY <2>1, BoundAssumption DEF SetupInv, TalkInv
    <2>3. TalkInv'
      BY <1>1, <1>2, <2>1, <2>2 DEF SetupInv, TalkInv, Talk
    <2>4. QED
      BY <1>2, <1>3, <2>3 DEF SetupInv
  <1>6. QED
    BY <1>4, <1>5

LEMMA SavePasswordTalk ==
  ASSUME SetupInv, NEW b \in Browser, SavePassword(b) PROVE SetupInv'
  <1> DEFINE row == [password |-> ctx[b].form.new, change |-> FALSE]
  <1>1. /\ account' = row /\ SetCookie(b, Cookie(account'))
        /\ Load(b, Cookie(account'), "console", NoForm)
        /\ UNCHANGED catalog /\ UNCHANGED pages /\ UNCHANGED bounds
        /\ ctx[b].form.op = "password"
    BY DEF SavePassword, Saving
  <1>2. row \in [password : Password, change : BOOLEAN] /\ ~row.change
    BY <1>1, CtxFields, FormFields DEF SetupInv
  <1> HIDE DEF row
  <1>3. UNCHANGED <<stations, categories, items>>
    BY <1>1 DEF catalog
  <1>4. Stations' = Stations /\ Categories' = Categories /\ Items' = Items
    BY <1>3 DEF Stations, Categories, Items
  <1>5. DatabaseInv'
    BY <1>1, <1>2, <1>3, <1>4 DEF SetupInv, DatabaseInv, CodesAreUnique, RoutesExist, Known
  <1>6. Cookie(account') \in Cookies /\ ~account'.change
    BY <1>1, <1>2, CookieType
  <1>7. SessionInv'
    BY <1>1, <1>6, SetCookieInv
  <1>8. "console" \in Kind
    BY DEF Kind
  <1>9. TalkInv'
    BY <1>1, <1>4, <1>8, SamePage, SameBounds, EmptyRows, LoadTalk DEF SetupInv
  <1>10. QED
    BY <1>5, <1>7, <1>9 DEF SetupInv

-----------------------------------------------------------------------------
(* Rows that are written.                                                  *)

\* A handler has answered.
LEMMA AnsweredTalk ==
  ASSUME SetupInv, NEW b \in Browser, pc[b] = "save", Answered(b), UNCHANGED account, DatabaseInv',
         \A x \in Categories : x \in Categories'
  PROVE  SetupInv'
  <1>1. pc' = [pc EXCEPT ![b] = "answer"] /\ UNCHANGED cookies /\ UNCHANGED pages /\ UNCHANGED ctx
        /\ UNCHANGED bounds
    BY DEF Answered, Goto
  <1>2. SessionInv'
    BY <1>1 DEF SetupInv, SessionInv, WorkAfterChange
  <1>3. ctx' = [ctx EXCEPT ![b] = ctx[b]] /\ "answer" \in Labels
    BY <1>1 DEF SetupInv, TalkInv, Labels
  <1>4. OneCardEach(ctx[b].page.stations) /\ pages[b].kind \in Kind
    BY DEF SetupInv, TalkInv, Talk
  <1>5. TalkInv'
    BY <1>1, <1>3, <1>4, SamePage, SameBounds, CtxFields, OneTalk DEF SetupInv
  <1>6. QED
    BY <1>2, <1>5 DEF SetupInv

\* The index leaves one station for a code, and the foreign keys need no look.
LEMMA StationWritten ==
  ASSUME SetupInv, NEW s \in Station, NEW code \in Code, NEW active \in BOOLEAN,
         stations' = [stations EXCEPT ![s] = StationRow(code, active)],
         UNCHANGED <<account, categories, items>>,
         \A u \in Stations \ {s} : stations[u].code # code
  PROVE  DatabaseInv' /\ Categories' = Categories
  <1> DEFINE row == StationRow(code, active)
  <1>1. row \in StationRows /\ row.there /\ row.code = code
    BY DEF StationRow, StationRows
  <1> HIDE DEF row
  <1>2. /\ stations \in [Station -> StationRows]
        /\ stations' = [stations EXCEPT ![s] = row]
    BY DEF SetupInv, DatabaseInv, row
  <1>3. stations' \in [Station -> StationRows] /\ stations'[s] = row
        /\ \A u \in Station \ {s} : stations'[u] = stations[u]
    BY <1>1, <1>2
  <1>4. Stations' = Stations \cup {s} /\ Categories' = Categories /\ Items' = Items
    BY <1>1, <1>3 DEF Stations, Categories, Items
  <1>5. CodesAreUnique'
    BY <1>1, <1>3, <1>4 DEF SetupInv, DatabaseInv, CodesAreUnique, Stations
  <1>6. RoutesExist'
    BY <1>4 DEF SetupInv, DatabaseInv, RoutesExist, Known
  <1>7. QED
    BY <1>3, <1>4, <1>5, <1>6 DEF SetupInv, DatabaseInv

LEMMA InsertStationTalk ==
  ASSUME SetupInv, NEW b \in Browser, InsertStation(b) PROVE SetupInv'
  <1> DEFINE f == ctx[b].form
  <1>1. pc[b] = "save" /\ f.code \in Code /\ f.active \in BOOLEAN
    BY CtxFields, FormFields DEF InsertStation, Saving, At, SetupInv
  <1>2. CASE Refuse(b)
    BY <1>2, RefuseTalk
  <1>3. CASE ~Refuse(b)
    <2>1. PICK s \in Station \ Stations : stations' = [stations EXCEPT ![s] = StationRow(f.code, f.active)]
      BY <1>3 DEF InsertStation
    <2>2. Answered(b) /\ UNCHANGED <<account, categories, items>> /\ IndexAllows(f.code, None)
      BY <1>3 DEF InsertStation
    <2>3. \A u \in Stations \ {s} : stations[u].code # f.code
      BY <2>2, SeedAssumption DEF IndexAllows, CodeTaken, Stations
    <2> HIDE DEF f
    <2>4. UNCHANGED <<account, categories, items>> /\ s \in Station
      BY <2>2
    <2>5. DatabaseInv' /\ Categories' = Categories
      BY <1>1, <2>1, <2>3, <2>4, StationWritten
    <2>6. QED
      BY <1>1, <2>2, <2>5, AnsweredTalk
  <1>4. QED
    BY <1>2, <1>3

LEMMA UpdateStationTalk ==
  ASSUME SetupInv, NEW b \in Browser, UpdateStation(b) PROVE SetupInv'
  <1> DEFINE f == ctx[b].form
             row == ctx[b].row
             now == stations[f.station]
             code == Column(f.code, row.code, now.code)
             active == Column(f.active, row.active, now.active)
  <1>1. pc[b] = "save" /\ f.code \in Code /\ f.active \in BOOLEAN
    BY CtxFields, FormFields DEF UpdateStation, Saving, At, SetupInv
  <1>2. CASE Refuse(b)
    BY <1>2, RefuseTalk
  <1>3. CASE ~Refuse(b)
    <2>1. /\ stations' = [stations EXCEPT ![f.station] = StationRow(code, active)]
          /\ f.station \in Stations /\ IndexAllows(code, f.station)
          /\ Answered(b) /\ UNCHANGED <<account, categories, items>>
      BY <1>3 DEF UpdateStation
    <2>2. f.station \in Station /\ now.code \in Code /\ now.active \in BOOLEAN
      BY <2>1, RowFields DEF SetupInv
    <2>3. code \in Code /\ active \in BOOLEAN
      BY <1>1, <2>2 DEF Column
    <2>4. \A u \in Stations \ {f.station} : stations[u].code # code
      BY <2>1 DEF IndexAllows, CodeTaken
    <2> HIDE DEF code, active, now, row, f
    <2>5. DatabaseInv' /\ Categories' = Categories
      BY <2>1, <2>2, <2>3, <2>4, StationWritten
    <2>6. QED
      BY <1>1, <2>1, <2>5, AnsweredTalk
  <1>4. QED
    BY <1>2, <1>3

\* Rows lose the route to a station that goes, and keep what else they have.
LEMMA WithoutIs ==
  ASSUME NEW s, NEW S, NEW rows, DOMAIN rows = S
  PROVE  /\ DOMAIN Without(rows, s) = S
         /\ \A x \in S : Without(rows, s)[x] = IF rows[x].there /\ rows[x].station = s
                                               THEN [rows[x] EXCEPT !.station = None] ELSE rows[x]
         /\ Without(rows, s) = [x \in S |-> Without(rows, s)[x]]
  BY DEF Without

\* A row of the catalog with its route set to null.
LEMMA NullRoute ==
  /\ \A row \in CategoryRows : row.there =>
        /\ [row EXCEPT !.station = None] \in CategoryRows
        /\ [row EXCEPT !.station = None].there /\ [row EXCEPT !.station = None].station = None
  /\ \A row \in ItemRows : row.there =>
        /\ [row EXCEPT !.station = None] \in ItemRows
        /\ [row EXCEPT !.station = None].there /\ [row EXCEPT !.station = None].station = None
        /\ [row EXCEPT !.station = None].category = row.category
  <1>1. ~Gone.there /\ None \in Routes
    BY DEF Gone, Routes
  <1>2. \A row \in CategoryRows : row.there => row \in [there : {TRUE}, station : Routes]
    BY <1>1 DEF CategoryRows
  <1>3. \A row \in ItemRows : row.there => row \in [there : {TRUE}, category : Category, station : Routes]
    BY <1>1 DEF ItemRows
  <1>4. QED
    BY <1>1, <1>2, <1>3 DEF CategoryRows, ItemRows

LEMMA DeleteStationTalk ==
  ASSUME SetupInv, NEW b \in Browser, DeleteStation(b) PROVE SetupInv'
  <1> DEFINE s == ctx[b].form.station
             cs == Without(categories, s)
             ms == Without(items, s)
  <1>1. CASE Refuse(b)
    BY <1>1, RefuseTalk
  <1>2. CASE ~Refuse(b)
    <2>1. /\ pc[b] = "save" /\ s \in Stations /\ stations' = [stations EXCEPT ![s] = Gone]
          /\ categories' = cs /\ items' = ms /\ Answered(b) /\ UNCHANGED account
      BY <1>2 DEF DeleteStation, Saving, At
    <2> HIDE DEF s
    <2>2. /\ categories \in [Category -> CategoryRows] /\ items \in [MenuItem -> ItemRows]
          /\ stations \in [Station -> StationRows] /\ s \in Station
      BY <2>1 DEF SetupInv, DatabaseInv, Stations
    <2>3. /\ cs \in [Category -> CategoryRows]
          /\ \A c \in Category : cs[c].there <=> categories[c].there
          /\ \A c \in Categories : (cs[c].station = categories[c].station /\ cs[c].station # s) \/ cs[c].station = None
      <3>1. \A c \in Category : cs[c] = IF categories[c].there /\ categories[c].station = s
                                        THEN [categories[c] EXCEPT !.station = None] ELSE categories[c]
        BY <2>2, WithoutIs
      <3>2. cs = [c \in Category |-> cs[c]]
        BY <2>2, WithoutIs
      <3> HIDE DEF cs
      <3>3. \A c \in Category : cs[c] \in CategoryRows /\ (cs[c].there <=> categories[c].there)
        BY <2>2, <3>1, NullRoute
      <3>4. QED
        BY <2>2, <3>1, <3>2, <3>3, NullRoute DEF Categories
    <2>4. /\ ms \in [MenuItem -> ItemRows]
          /\ \A m \in MenuItem : ms[m].there <=> items[m].there
          /\ \A m \in Items : /\ (ms[m].station = items[m].station /\ ms[m].station # s) \/ ms[m].station = None
                              /\ ms[m].category = items[m].category
      <3>1. \A m \in MenuItem : ms[m] = IF items[m].there /\ items[m].station = s
                                        THEN [items[m] EXCEPT !.station = None] ELSE items[m]
        BY <2>2, WithoutIs
      <3>2. ms = [m \in MenuItem |-> ms[m]]
        BY <2>2, WithoutIs
      <3> HIDE DEF ms
      <3>3. \A m \in MenuItem : ms[m] \in ItemRows /\ (ms[m].there <=> items[m].there)
        BY <2>2, <3>1, NullRoute
      <3>4. QED
        BY <2>2, <3>1, <3>2, <3>3, NullRoute DEF Items
    <2> HIDE DEF cs, ms
    <2>5. /\ stations' \in [Station -> StationRows] /\ stations'[s] = Gone
          /\ \A u \in Station \ {s} : stations'[u] = stations[u]
      BY <2>1, <2>2, EmptyRows
    <2>6. Stations' = Stations \ {s}
      BY <2>2, <2>5 DEF Stations, Gone
    <2>7. Categories' = Categories /\ Items' = Items
      BY <2>1, <2>3, <2>4 DEF Categories, Items
    <2>8. CodesAreUnique'
      BY <2>5, <2>6 DEF SetupInv, DatabaseInv, CodesAreUnique, Stations
    <2>9. RoutesExist'
      BY <2>1, <2>3, <2>4, <2>6, <2>7 DEF SetupInv, DatabaseInv, RoutesExist, Known
    <2>10. DatabaseInv'
      BY <2>1, <2>3, <2>4, <2>5, <2>8, <2>9 DEF SetupInv, DatabaseInv
    <2>11. QED
      BY <2>1, <2>7, <2>10, AnsweredTalk
  <1>3. QED
    BY <1>1, <1>2

LEMMA InsertCategoryTalk ==
  ASSUME SetupInv, NEW b \in Browser, InsertCategory(b) PROVE SetupInv'
  <1> DEFINE s == ctx[b].form.station
             row == [there |-> TRUE, station |-> s]
  <1>1. CASE Error(b)
    BY <1>1, ErrorTalk
  <1>2. CASE ~Error(b)
    <2>1. PICK c \in Category \ Categories : categories' = [categories EXCEPT ![c] = row]
      BY <1>2 DEF InsertCategory
    <2>2. /\ pc[b] = "save" /\ Known(s) /\ Answered(b)
          /\ UNCHANGED <<account, stations, items>>
      BY <1>2 DEF InsertCategory, Saving, At
    <2>3. s \in Routes
      BY <2>2 DEF Known, Routes, Stations
    <2>4. row \in CategoryRows /\ row.there /\ row.station = s
      BY <2>3 DEF CategoryRows
    <2> HIDE DEF row, s
    <2>5. categories \in [Category -> CategoryRows]
      BY DEF SetupInv, DatabaseInv
    <2>6. /\ categories' \in [Category -> CategoryRows] /\ categories'[c] = row
          /\ \A d \in Category \ {c} : categories'[d] = categories[d]
      BY <2>1, <2>4, <2>5
    <2>7. Categories' = Categories \cup {c} /\ Stations' = Stations /\ Items' = Items
      BY <2>2, <2>4, <2>6 DEF Categories, Stations, Items
    <2>8. CodesAreUnique'
      BY <2>2, <2>7 DEF SetupInv, DatabaseInv, CodesAreUnique
    <2>9. RoutesExist'
      BY <2>1, <2>2, <2>4, <2>6, <2>7 DEF SetupInv, DatabaseInv, RoutesExist, Known, Categories
    <2>10. DatabaseInv'
      BY <2>2, <2>6, <2>8, <2>9 DEF SetupInv, DatabaseInv
    <2>11. QED
      BY <2>2, <2>7, <2>10, AnsweredTalk
  <1>3. QED
    BY <1>1, <1>2

LEMMA InsertItemTalk ==
  ASSUME SetupInv, NEW b \in Browser, InsertItem(b) PROVE SetupInv'
  <1> DEFINE f == ctx[b].form
             row == [there |-> TRUE, category |-> f.category, station |-> f.station]
  <1>1. CASE Error(b)
    BY <1>1, ErrorTalk
  <1>2. CASE ~Error(b)
    <2>1. PICK m \in MenuItem \ Items : items' = [items EXCEPT ![m] = row]
      BY <1>2 DEF InsertItem
    <2>2. /\ pc[b] = "save" /\ Known(f.station) /\ Answered(b) /\ f.op = "item"
          /\ UNCHANGED <<account, stations, categories>>
      BY <1>2 DEF InsertItem, Saving, At
    <2>3. f.station \in Routes /\ f.category \in Categories /\ f.category \in Category
      BY <2>2 DEF Known, Routes, Stations, Categories, SetupInv, TalkInv, Talk
    <2>4. row \in ItemRows /\ row.there /\ row.station = f.station /\ row.category = f.category
      BY <2>3 DEF ItemRows
    <2> HIDE DEF row, f
    <2>5. items \in [MenuItem -> ItemRows]
      BY DEF SetupInv, DatabaseInv
    <2>6. /\ items' \in [MenuItem -> ItemRows] /\ items'[m] = row
          /\ \A n \in MenuItem \ {m} : items'[n] = items[n]
      BY <2>1, <2>4, <2>5
    <2>7. Items' = Items \cup {m} /\ Stations' = Stations /\ Categories' = Categories
      BY <2>2, <2>4, <2>6 DEF Categories, Stations, Items
    <2>8. CodesAreUnique'
      BY <2>2, <2>7 DEF SetupInv, DatabaseInv, CodesAreUnique
    <2>9. RoutesExist'
      BY <2>1, <2>2, <2>3, <2>4, <2>6, <2>7 DEF SetupInv, DatabaseInv, RoutesExist, Known, Items
    <2>10. DatabaseInv'
      BY <2>2, <2>6, <2>8, <2>9 DEF SetupInv, DatabaseInv
    <2>11. QED
      BY <2>2, <2>7, <2>10, AnsweredTalk
  <1>3. QED
    BY <1>1, <1>2

-----------------------------------------------------------------------------
(* The theorems.                                                           *)

\* The seed of the database has a code for every station and a station for
\* every category.
LEMMA SetupInit == Init => SetupInv
  <1> SUFFICES ASSUME Init PROVE SetupInv
    OBVIOUS
  <1>1. PICK code \in [InitialStations -> Code] :
          /\ \A s, u \in InitialStations : s # u => code[s] # code[u]
          /\ stations = [s \in Station |-> IF s \in InitialStations THEN StationRow(code[s], TRUE) ELSE Gone]
    BY DEF Init
  <1>2. PICK to \in [InitialCategories -> InitialStations] :
          categories = [c \in Category |-> IF c \in InitialCategories
                                           THEN [there |-> TRUE, station |-> to[c]] ELSE Gone]
    BY DEF Init
  <1>3. InitialStations \subseteq Station /\ InitialCategories \subseteq Category /\ ~Gone.there
    BY SeedAssumption DEF Gone
  <1>4. \A s \in InitialStations : StationRow(code[s], TRUE) \in StationRows
                                   /\ StationRow(code[s], TRUE).there /\ StationRow(code[s], TRUE).code = code[s]
    BY DEF StationRow, StationRows
  <1>5. stations \in [Station -> StationRows] /\ Stations = InitialStations
        /\ \A s \in Stations : stations[s].code = code[s]
    BY <1>1, <1>3, <1>4, EmptyRows DEF Stations
  <1>6. \A c \in InitialCategories : [there |-> TRUE, station |-> to[c]] \in CategoryRows
    BY <1>3 DEF CategoryRows, Routes
  <1>7. categories \in [Category -> CategoryRows] /\ Categories = InitialCategories
        /\ \A c \in Categories : categories[c].station = to[c]
    BY <1>2, <1>3, <1>6 DEF Categories, CategoryRows
  <1>8. items \in [MenuItem -> ItemRows] /\ Items = {}
    BY <1>3 DEF Init, Items, ItemRows
  <1>9. DatabaseInv
    <2>1. CodesAreUnique
      <3>1. ASSUME NEW s \in Stations, NEW u \in Stations, s # u PROVE stations[s].code # stations[u].code
        <4>1. code[s] # code[u]
          BY <1>1, <1>5, <3>1
        <4>2. QED
          BY <1>5, <4>1
      <3>2. QED
        BY <3>1 DEF CodesAreUnique
    <2>2. RoutesExist
      BY <1>5, <1>7, <1>8 DEF RoutesExist, Known
    <2>3. account \in [password : Password, change : BOOLEAN]
      BY SeedAssumption DEF Init
    <2>4. QED
      BY <1>5, <1>7, <1>8, <2>1, <2>2, <2>3 DEF DatabaseInv
  <1>10. SessionInv
    BY DEF Init, SessionInv, Cookies, WorkAfterChange
  <1>11. TalkInv
    <2> DEFINE p == [NoPage EXCEPT !.kind = "login"]
    <2>1. p \in PageRows /\ p.cards = {}
      BY EmptyRows DEF PageRows, Kind
    <2> HIDE DEF p
    <2>2. pages = [b \in Browser |-> p] /\ pc = [b \in Browser |-> "idle"] /\ ctx = [b \in Browser |-> NoCtx]
          /\ opens = 0 /\ calls = 0 /\ faults = 0
      BY DEF Init, p
    <2>3. QED
      BY <2>1, <2>2, EmptyRows, BoundAssumption DEF TalkInv, Talk, OneCardEach, Labels
  <1>12. QED
    BY <1>9, <1>10, <1>11 DEF SetupInv

\* Every step keeps the invariant.
LEMMA SetupNext == SetupInv /\ [Next]_vars => SetupInv'
  <1> SUFFICES ASSUME SetupInv, [Next]_vars PROVE SetupInv'
    OBVIOUS
  <1>1. CASE UNCHANGED vars
    <2>1. UNCHANGED <<account, catalog, cookies>> /\ UNCHANGED <<pages, pc, ctx, opens, calls, faults>>
      BY <1>1 DEF vars, catalog
    <2>2. DatabaseInv' /\ SessionInv' /\ Categories' = Categories
      BY <2>1, SameRows
    <2>3. TalkInv'
      BY <2>1, <2>2 DEF SetupInv, TalkInv, Talk
    <2>4. QED
      BY <2>2, <2>3 DEF SetupInv
  <1>2. ASSUME NEW b \in Browser, Handle(b) PROVE SetupInv'
    BY <1>2, ReadListTalk, ShowPageTalk, AnswerTalk, ChecksTalk, SavePasswordTalk, InsertStationTalk,
       CheckStationTalk, UpdateStationTalk, DeleteStationTalk, InsertCategoryTalk, InsertItemTalk DEF Handle
  <1>3. ASSUME NEW b \in Browser, Forms(b) PROVE SetupInv'
    BY <1>3, LoginTalk, FormsTalk DEF Forms
  <1>4. QED
    BY <1>1, <1>2, <1>3, OpenPageTalk, SessionEndsTalk, CallFailsTalk DEF Next

THEOREM SetupInvariance == Spec => []SetupInv
  BY SetupInit, SetupNext, PTL DEF Spec

\* Rows, pages and calls keep their types, and a page has one card for a station.
THEOREM SetupTypeCorrect == Spec => []TypeOK
  <1>1. ASSUME SetupInv PROVE TypeOK
    <2>1. \A b \in Browser : cookies[b] = None \/ cookies[b].change \in BOOLEAN
      BY <1>1 DEF SetupInv, SessionInv, Cookies
    <2>2. \A b \in Browser : /\ pages[b].kind \in Kind \cup {"none", "error"}
                             /\ \A x, y \in pages[b].cards : x.station = y.station => x = y
      BY <1>1 DEF SetupInv, TalkInv, Talk, OneCardEach, PageRows
    <2>3. account \in [password : Password, change : BOOLEAN]
      BY <1>1 DEF SetupInv, DatabaseInv
    <2>4. pc \in [Browser -> Labels] /\ opens \in 0..MaxOpens /\ calls \in 0..MaxCalls /\ faults \in 0..MaxFaults
      BY <1>1 DEF SetupInv, TalkInv
    <2>5. QED
      BY <1>1, <2>1, <2>2, <2>3, <2>4, RowFields DEF SetupInv, TypeOK, Routes
  <1>2. QED
    BY <1>1, SetupInvariance, PTL

\* No session works on the account whose first password still stands.
THEOREM SessionsFollowTheAccount == Spec => []WorkAfterChange
  <1>1. SetupInv => WorkAfterChange
    BY DEF SetupInv, SessionInv
  <1>2. QED
    BY <1>1, SetupInvariance, PTL

\* The lookup of a code is not what keeps codes apart: the index is.
THEOREM StationsHaveTheirCode == Spec => []CodesAreUnique
  <1>1. SetupInv => CodesAreUnique
    BY DEF SetupInv, DatabaseInv
  <1>2. QED
    BY <1>1, SetupInvariance, PTL

\* Categories and items are routed to stations that are there, and items are of
\* categories that are there, however deletes and inserts interleave.
THEOREM CatalogIsRouted == Spec => []RoutesExist
  <1>1. SetupInv => RoutesExist
    BY DEF SetupInv, DatabaseInv
  <1>2. QED
    BY <1>1, SetupInvariance, PTL
=============================================================================
