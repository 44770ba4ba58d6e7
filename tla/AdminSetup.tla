----------------------------- MODULE AdminSetup ------------------------------
(***************************************************************************)
(* The console of a tenant: the administrator's login and first change of  *)
(* the password (tenant-session.ts, tenant-auth-api.ts, the forms), the    *)
(* stations (station-manager.tsx), and the catalog whose categories and    *)
(* items are routed to them (catalog-manager.tsx), over the server actions *)
(* (auth-actions.ts) and the handlers behind them (TenantEndpoints.cs).    *)
(*                                                                         *)
(* A handler checks what it was sent in one statement and saves in         *)
(* another, without a transaction: what holds then is what the indexes and *)
(* the foreign keys of the database keep.                                  *)
(***************************************************************************)
EXTENDS Integers, FiniteSets

CONSTANTS
    Station, Category, MenuItem,   \* ids: bound how many are ever made
    Code,          \* codes of stations
    InitialStations, InitialCategories,   \* the seed of the database
    Password, Seed,                \* Seed is the password every tenant starts with
    Browser,
    Shop,          \* bound: the browsers in which the setup is worked on
    MaxOpens,      \* bound: pages opened after the login pages
    MaxCalls,      \* bound: forms sent
    MaxFaults,     \* bound: calls that fail and sessions that expire
    None

ASSUME SeedAssumption ==
    /\ InitialStations \subseteq Station /\ InitialCategories \subseteq Category
    /\ Cardinality(InitialStations) <= Cardinality(Code) /\ Seed \in Password
    /\ None \notin Station
ASSUME ShopAssumption  == Shop \subseteq Browser
ASSUME BoundAssumption == {MaxOpens, MaxCalls, MaxFaults} \subseteq Nat

VARIABLES
    account,     \* the row of the administrator
    stations, categories, items,
    cookies,     \* the session of a browser
    pages,       \* what it shows
    pc, ctx,     \* the next statement and the form of its call
    opens, calls, faults

vars    == <<account, stations, categories, items, cookies, pages, pc, ctx, opens, calls, faults>>
catalog == <<stations, categories, items>>
bounds  == <<opens, calls, faults>>

Kind   == {"console", "stations", "catalog", "change-password", "login"}
Labels == {"idle", "read", "check", "save", "answer"}

\* The rows a page was given, and the cards of the stations with their fields.
NoPage == [kind |-> "none", stations |-> {}, categories |-> {}, cards |-> {}]
NoForm == [op |-> "none"]

Card(s, code, active)       == [station |-> s, code |-> code, active |-> active]
StationRow(code, active)    == [there |-> TRUE, code |-> code, active |-> active]
Gone == [there |-> FALSE]

NoCtx == [form |-> NoForm, todo |-> {}, page |-> NoPage, row |-> Gone]

Stations   == {s \in Station : stations[s].there}
Categories == {c \in Category : categories[c].there}
Items      == {m \in MenuItem : items[m].there}

Init ==
    /\ account = [password |-> Seed, change |-> TRUE]
    /\ \E code \in [InitialStations -> Code] :
         /\ \A s, u \in InitialStations : s # u => code[s] # code[u]
         /\ stations = [s \in Station |-> IF s \in InitialStations THEN StationRow(code[s], TRUE) ELSE Gone]
    /\ \E to \in [InitialCategories -> InitialStations] :
         categories = [c \in Category |-> IF c \in InitialCategories
                                          THEN [there |-> TRUE, station |-> to[c]] ELSE Gone]
    /\ items = [m \in MenuItem |-> Gone]
    /\ cookies = [b \in Browser |-> None]
    /\ pages = [b \in Browser |-> [NoPage EXCEPT !.kind = "login"]]
    /\ pc = [b \in Browser |-> "idle"]
    /\ ctx = [b \in Browser |-> NoCtx]
    /\ opens = 0 /\ calls = 0 /\ faults = 0

At(b, label)   == pc[b] = label
Goto(b, label) == pc' = [pc EXCEPT ![b] = label]
Done(b)        == Goto(b, "idle") /\ ctx' = [ctx EXCEPT ![b] = NoCtx]

-----------------------------------------------------------------------------
(* Pages. *)

\* A session opens the page it asks for once its password was changed.
Redirected(cookie, kind) ==
    IF cookie = None THEN "login"
    ELSE IF cookie.change THEN "change-password"
    ELSE IF kind \in {"login", "change-password"} THEN "console"
    ELSE kind

ListsOf(kind) ==
    CASE kind = "stations"              -> {"stations"}
      [] kind \in {"catalog", "console"} -> {"stations", "catalog"}
      [] OTHER                          -> {}

\* The page to which the cookie leads is on its way.
Load(b, cookie, kind, form) ==
    LET to == Redirected(cookie, kind)
    IN  /\ Goto(b, "read")
        /\ ctx' = [ctx EXCEPT ![b] = [NoCtx EXCEPT !.form = form, !.todo = ListsOf(to), !.page.kind = to]]

OpenPage(b, kind) ==
    /\ At(b, "idle") /\ opens < MaxOpens
    /\ Load(b, cookies[b], kind, NoForm)
    /\ pages' = [pages EXCEPT ![b] = NoPage]
    /\ opens' = opens + 1
    /\ UNCHANGED <<account, catalog, cookies, calls, faults>>

\* listStations and getAdminCatalog are under way at the same time.
ReadList(b) ==
    \E list \in ctx[b].todo :
        /\ At(b, "read")
        /\ ctx' = [ctx EXCEPT ![b].todo = @ \ {list},
              ![b].page = IF list = "stations"
                 THEN [@ EXCEPT !.stations = {Card(s, stations[s].code, stations[s].active) : s \in Stations}]
                 ELSE [@ EXCEPT !.categories = Categories]]
        /\ UNCHANGED <<account, catalog, cookies, pages, pc, bounds>>

\* Mutant: the key of a card is the code of its station.
CardsByCode(kept, given) ==
    {card \in kept : \E g \in given : g.code = card.code} \cup
    {g \in given : \A card \in kept : g.code # card.code}

\* The key of a card is its station: what is kept of the cards that were shown
\* before stays with its station, the others have what the list says.
Cards(kept, given) ==
    {card \in kept : \E g \in given : g.station = card.station} \cup
    {g \in given : \A card \in kept : g.station # card.station}

\* The fields of a card have default values only.  Of the cards that were there
\* before, any may keep what its fields had: that depends on whether they were
\* edited and on the reset of the form that is answered.
ShowPage(b) ==
    LET new   == ctx[b].page
        shown == IF ctx[b].form = NoForm THEN {} ELSE pages[b].cards
    IN  /\ At(b, "read") /\ ctx[b].todo = {}
        /\ \E kept \in SUBSET shown :
             pages' = [pages EXCEPT ![b] = [new EXCEPT !.cards =
                IF new.kind = "stations" THEN Cards(kept, new.stations) ELSE {}]]
        /\ Done(b)
        /\ UNCHANGED <<account, catalog, cookies, bounds>>

-----------------------------------------------------------------------------
(* Sessions. *)

Cookie(row) == [change |-> row.change]
SetCookie(b, cookie) == cookies' = [cookies EXCEPT ![b] = cookie]

\* Mutant: the flag is left to its default.
LoginWithoutFlag(b, password) ==
    /\ At(b, "idle") /\ pages[b].kind = "login" /\ calls < MaxCalls
    /\ calls' = calls + 1
    /\ IF password = account.password
       THEN /\ SetCookie(b, [change |-> FALSE])
            /\ Load(b, [change |-> FALSE], "console", NoForm)
       ELSE UNCHANGED <<cookies, pc, ctx>>
    /\ UNCHANGED <<account, catalog, pages, opens, faults>>

\* tenantLoginAction: LoginAdmin reads the row, the answer becomes the cookie.
Login(b, password) ==
    /\ At(b, "idle") /\ pages[b].kind = "login" /\ calls < MaxCalls
    /\ calls' = calls + 1
    /\ IF password = account.password
       THEN /\ SetCookie(b, Cookie(account))
            /\ Load(b, Cookie(account), "console", NoForm)
       ELSE UNCHANGED <<cookies, pc, ctx>>
    /\ UNCHANGED <<account, catalog, pages, opens, faults>>

Logout(b) ==
    /\ At(b, "idle") /\ cookies[b] # None /\ pages[b].kind \in {"console", "stations", "catalog"}
    /\ SetCookie(b, None)
    /\ Load(b, None, "login", NoForm)
    /\ UNCHANGED <<account, catalog, pages, bounds>>

\* The twelve hours of a session are over; the page stays open.
SessionExpires(b) ==
    /\ cookies[b] # None /\ faults < MaxFaults
    /\ SetCookie(b, None)
    /\ faults' = faults + 1
    /\ UNCHANGED <<account, catalog, pages, pc, ctx, opens, calls>>

\* A form of the page is sent; without a session the action says so and that is all.
Send(b, form) ==
    /\ At(b, "idle") /\ calls < MaxCalls /\ b \in Shop
    /\ calls' = calls + 1
    /\ IF cookies[b] = None THEN UNCHANGED <<pc, ctx>>
       ELSE Goto(b, "check") /\ ctx' = [ctx EXCEPT ![b] = [NoCtx EXCEPT !.form = form]]
    /\ UNCHANGED <<account, catalog, cookies, pages, opens, faults>>

\* The form wants the new password twice; one that differs is not sent on.
SendPassword(b, current, new) ==
    /\ pages[b].kind = "change-password"
    /\ Send(b, [op |-> "password", current |-> current, new |-> new])

Checking(b, op) == At(b, "check") /\ ctx[b].form.op = op
Saving(b, op)   == At(b, "save") /\ ctx[b].form.op = op
Refuse(b)       == Done(b) /\ UNCHANGED <<account, catalog, cookies, pages, bounds>>
Passed(b)       == Goto(b, "save") /\ UNCHANGED <<account, catalog, cookies, pages, ctx, bounds>>

\* The action has paths revalidated: the lists of the page are read again.
Answered(b) == Goto(b, "answer") /\ UNCHANGED <<cookies, pages, ctx, bounds>>

CheckPassword(b) ==
    /\ Checking(b, "password")
    /\ IF ctx[b].form.current = account.password THEN Passed(b) ELSE Refuse(b)

SavePassword(b) ==
    /\ Saving(b, "password")
    /\ account' = [password |-> ctx[b].form.new, change |-> FALSE]
    /\ SetCookie(b, Cookie(account'))
    /\ Load(b, Cookie(account'), "console", NoForm)
    /\ UNCHANGED <<catalog, pages, bounds>>

-----------------------------------------------------------------------------
(* Stations. *)

CodeTaken(code, s) == \E u \in Stations : u # s /\ stations[u].code = code

\* Mutant: the code was looked up before.
IndexDropped(code, s) == TRUE

\* ix_service_stations_code.
IndexAllows(code, s) == ~CodeTaken(code, s)

SendStation(b, code, active) ==
    /\ pages[b].kind = "stations" /\ Stations # Station
    /\ Send(b, [op |-> "create", code |-> code, active |-> active])

CheckNewStation(b) ==
    /\ Checking(b, "create")
    /\ IF CodeTaken(ctx[b].form.code, None) THEN Refuse(b) ELSE Passed(b)

InsertStation(b) ==
    LET f == ctx[b].form
    IN  /\ Saving(b, "create")
        /\ \/ /\ IndexAllows(f.code, None)
              /\ \E s \in Station \ Stations : stations' = [stations EXCEPT ![s] = StationRow(f.code, f.active)]
              /\ Answered(b) /\ UNCHANGED <<account, categories, items>>
           \/ ~IndexAllows(f.code, None) /\ Refuse(b)
           \/ Stations = Station /\ Refuse(b)                        \* bound: Station

\* A card is saved with one of its fields changed, the other as the card has it.
SendCard(b, code, active) ==
    /\ pages[b].kind = "stations"
    /\ \E card \in pages[b].cards :
         /\ card.code = code \/ card.active = active
         /\ Send(b, [op |-> "update", station |-> card.station, code |-> code, active |-> active])

\* The row is loaded, and the code looked up among the other stations.
CheckStation(b) ==
    LET f == ctx[b].form
    IN  /\ Checking(b, "update")
        /\ IF f.station \notin Stations \/ CodeTaken(f.code, f.station) THEN Refuse(b)
           ELSE /\ Goto(b, "save")
                /\ ctx' = [ctx EXCEPT ![b].row = stations[f.station]]
                /\ UNCHANGED <<account, catalog, cookies, pages, bounds>>

\* The columns that differ from what was loaded are written.
Column(new, loaded, current) == IF new # loaded THEN new ELSE current

UpdateStation(b) ==
    LET f    == ctx[b].form
        row  == ctx[b].row
        now  == stations[f.station]
        code == Column(f.code, row.code, now.code)
    IN  /\ Saving(b, "update")
        /\ IF f.station \in Stations /\ IndexAllows(code, f.station)
           THEN /\ stations' = [stations EXCEPT ![f.station] =
                                   StationRow(code, Column(f.active, row.active, now.active))]
                /\ Answered(b) /\ UNCHANGED <<account, categories, items>>
           ELSE Refuse(b)

SendDelete(b) ==
    /\ pages[b].kind = "stations"
    /\ \E card \in pages[b].cards : Send(b, [op |-> "delete", station |-> card.station])

\* A station of a category is not deleted; one of an item may be.
CheckDelete(b) ==
    LET s == ctx[b].form.station
    IN  /\ Checking(b, "delete")
        /\ IF s \notin Stations \/ \E c \in Categories : categories[c].station = s
           THEN Refuse(b) ELSE Passed(b)

\* The foreign keys set null where the station was.
Without(rows, s) == [x \in DOMAIN rows |-> IF rows[x].there /\ rows[x].station = s
                                           THEN [rows[x] EXCEPT !.station = None] ELSE rows[x]]

\* Mutant: the check has seen to the categories.
DeleteOfItems(b) ==
    LET s == ctx[b].form.station
    IN  /\ Saving(b, "delete")
        /\ IF s \notin Stations THEN Refuse(b)
           ELSE /\ stations' = [stations EXCEPT ![s] = Gone]
                /\ items' = Without(items, s)
                /\ Answered(b) /\ UNCHANGED <<account, categories>>

DeleteStation(b) ==
    LET s == ctx[b].form.station
    IN  /\ Saving(b, "delete")
        /\ IF s \notin Stations THEN Refuse(b)
           ELSE /\ stations' = [stations EXCEPT ![s] = Gone]
                /\ categories' = Without(categories, s)
                /\ items' = Without(items, s)
                /\ Answered(b) /\ UNCHANGED account

-----------------------------------------------------------------------------
(* The catalog.  Its actions throw where the others answer: the page is    *)
(* replaced by an error.                                                   *)

Error(b) ==
    /\ Done(b) /\ pages' = [pages EXCEPT ![b] = [NoPage EXCEPT !.kind = "error"]]
    /\ UNCHANGED <<account, catalog, cookies, bounds>>

Known(s) == s = None \/ s \in Stations

SendCategory(b) ==
    /\ pages[b].kind = "catalog" /\ Categories # Category
    /\ \E s \in {card.station : card \in pages[b].stations} \cup {None} :
         Send(b, [op |-> "category", station |-> s])

CheckCategory(b) ==
    /\ Checking(b, "category")
    /\ IF Known(ctx[b].form.station) THEN Passed(b) ELSE Error(b)

\* The foreign key refuses a station that went meanwhile.
InsertCategory(b) ==
    LET s == ctx[b].form.station
    IN  /\ Saving(b, "category")
        /\ \/ /\ Known(s)
              /\ \E c \in Category \ Categories :
                    categories' = [categories EXCEPT ![c] = [there |-> TRUE, station |-> s]]
              /\ Answered(b) /\ UNCHANGED <<account, stations, items>>
           \/ ~Known(s) /\ Error(b)
           \/ Categories = Category /\ Error(b)                      \* bound: Category

SendItem(b) ==
    /\ pages[b].kind = "catalog" /\ Items # MenuItem
    /\ \E c \in pages[b].categories, s \in {card.station : card \in pages[b].stations} \cup {None} :
         Send(b, [op |-> "item", category |-> c, station |-> s])

CheckItem(b) ==
    /\ Checking(b, "item")
    /\ IF ctx[b].form.category \in Categories /\ Known(ctx[b].form.station) THEN Passed(b) ELSE Error(b)

InsertItem(b) ==
    LET f == ctx[b].form
    IN  /\ Saving(b, "item")
        /\ \/ /\ Known(f.station)
              /\ \E m \in MenuItem \ Items :
                    items' = [items EXCEPT ![m] = [there |-> TRUE, category |-> f.category, station |-> f.station]]
              /\ Answered(b) /\ UNCHANGED <<account, stations, categories>>
           \/ ~Known(f.station) /\ Error(b)
           \/ Items = MenuItem /\ Error(b)                           \* bound: MenuItem

-----------------------------------------------------------------------------
\* The page is rendered anew, by the session it has now.
Answer(b) ==
    /\ At(b, "answer")
    /\ Load(b, cookies[b], pages[b].kind, ctx[b].form)
    /\ UNCHANGED <<account, catalog, cookies, pages, bounds>>

\* A call fails before it reaches the API.
CallFails(b) ==
    /\ At(b, "check") /\ faults < MaxFaults
    /\ faults' = faults + 1
    /\ IF ctx[b].form.op \in {"category", "item"}
       THEN pages' = [pages EXCEPT ![b] = [NoPage EXCEPT !.kind = "error"]] ELSE UNCHANGED pages
    /\ Done(b)
    /\ UNCHANGED <<account, catalog, cookies, opens, calls>>

Forms(b) ==
    \/ \E p \in Password : Login(b, p)
    \/ \E p, q \in Password : SendPassword(b, p, q)
    \/ \E code \in Code, active \in BOOLEAN : SendStation(b, code, active) \/ SendCard(b, code, active)
    \/ SendDelete(b) \/ SendCategory(b) \/ SendItem(b)

Handle(b) ==
    \/ ReadList(b) \/ ShowPage(b) \/ Answer(b)
    \/ CheckPassword(b) \/ SavePassword(b)
    \/ CheckNewStation(b) \/ InsertStation(b) \/ CheckStation(b) \/ UpdateStation(b)
    \/ CheckDelete(b) \/ DeleteStation(b)
    \/ CheckCategory(b) \/ InsertCategory(b) \/ CheckItem(b) \/ InsertItem(b)

Next ==
    \E b \in Browser :
        \/ \E kind \in Kind : OpenPage(b, kind)
        \/ Forms(b) \/ Handle(b) \/ Logout(b) \/ SessionExpires(b) \/ CallFails(b)

Spec == Init /\ [][Next]_vars

-----------------------------------------------------------------------------
(* Properties. *)

\* The types of the rows and of the pages; a page has one card for a station.
TypeOK ==
    /\ account \in [password : Password, change : BOOLEAN]
    /\ \A s \in Stations : stations[s].code \in Code /\ stations[s].active \in BOOLEAN
    /\ \A c \in Categories : categories[c].station \in Station \cup {None}
    /\ \A m \in Items : items[m].category \in Category /\ items[m].station \in Station \cup {None}
    /\ \A b \in Browser : cookies[b] = None \/ cookies[b].change \in BOOLEAN
    /\ \A b \in Browser : /\ pages[b].kind \in Kind \cup {"none", "error"}
                           /\ \A x, y \in pages[b].cards : x.station = y.station => x = y
    /\ pc \in [Browser -> Labels]
    /\ opens \in 0..MaxOpens /\ calls \in 0..MaxCalls /\ faults \in 0..MaxFaults

\* A session that may work was made from an account whose first password is
\* gone, in whatever browser that was done: the flag in a cookie is never ahead
\* of the row.
WorkAfterChange ==
    \A b \in Browser : cookies[b] # None => (~cookies[b].change => ~account.change)

\* Two administrators who name a station at the same time do not end up with two
\* of one code: the board /stations/<code> would show both.
CodesAreUnique ==
    \A s, u \in Stations : s # u => stations[s].code # stations[u].code

\* No category or item is routed to a station that is gone, although the delete
\* looks at the categories before it and a new category at the station: items
\* would be on no board, not even on that of the unassigned.
RoutesExist ==
    /\ \A c \in Categories : Known(categories[c].station)
    /\ \A m \in Items : items[m].category \in Categories /\ Known(items[m].station)

Route(m) == IF items[m].station # None THEN items[m].station ELSE categories[items[m].category].station
\* GetKitchenBoard: the boards of the stations in use, and that of what has no station.
Boards(m) == {s \in Stations \cup {None} : Route(m) = s /\ (s = None \/ stations[s].active)}

\* "Ensures items never disappear operationally because of a routing gap": what is
\* ordered is on the board of some station or on that of the unassigned.
NothingDisappears == \A m \in Items : Boards(m) # {}

=============================================================================
