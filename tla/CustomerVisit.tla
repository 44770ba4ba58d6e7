---------------------------- MODULE CustomerVisit ----------------------------
(***************************************************************************)
(* The visit of guests as their browsers see it: a link from a QR, the     *)
(* session cookie, the menu, the proof that goes with an order, and        *)
(* leaving (customer-session.ts, customer-actions.ts, customer-menu.tsx,   *)
(* g/[token]/route.ts, menu/page.tsx), over the public endpoints of the    *)
(* tenant API (TenantEndpoints.cs, CustomerSessionService.cs) and against  *)
(* what the store does to the table.                                       *)
(*                                                                         *)
(* The tabs of a browser share its cookie.  A tab has one request at a     *)
(* time (the router runs the actions of a page one after another); the     *)
(* request goes on when the page is closed, and its answer is lost then.   *)
(* One action is one transaction of the API or the answer to the tab.      *)
(* Inside their transactions the handlers are modelled in FloorBills and   *)
(* TableAccess.                                                            *)
(***************************************************************************)
EXTENDS Naturals, FiniteSets

CONSTANTS
    Table,        \* service tables, all of them active
    Browser,
    Tab,
    BrowserOf,    \* the browser of a tab
    Token,        \* ids for tokens: bounds how many are ever made
    Session,      \* ids for sessions: bounds how many are ever opened
    Order,        \* ids for orders: bounds how many are ever placed
    None

ASSUME BrowserAssumption == BrowserOf \in [Tab -> Browser]
ASSUME NoneAssumption    == None \notin Table \cup Token \cup Session \cup Order

VARIABLES
    tokens,     \* table_tokens
    sessions,   \* customer_sessions
    orders,     \* customer_orders as they are placed
    billed,     \* tables with an open bill
    cookie,     \* the session a browser's cookie names
    tabs,       \* page of a tab and what it says
    pc, ctx     \* next step and locals of a tab's request

vars == <<tokens, sessions, orders, billed, cookie, tabs, pc, ctx>>
api  == <<tokens, sessions, orders, billed>>

OptSession == Session \cup {None}
OptToken   == Token \cup {None}
OptTable   == Table \cup {None}

TokenRow   == [state : {"none", "fresh", "gone"}, table : OptTable]
SessionRow == [state : {"none", "open", "closed"}, over : BOOLEAN,   \* expires_at has passed
               table : OptTable, qr : OptToken]                      \* the token it was opened with
OrderRow   == [placed : BOOLEAN, session : OptSession, table : OptTable, proof : OptToken]
Page       == [page : {"home", "menu"}, sent : BOOLEAN]   \* sent: orderState.ok
Labels     == {"idle", "joinRotate", "joinAnswer", "validate", "recheck", "consume",
               "rotate", "place", "answer", "logout", "left"}
Ctx        == [session : OptSession, table : OptTable, token : OptToken,
               order : Order \cup {None}]

NoToken   == [state |-> "none", table |-> None]
NoSession == [state |-> "none", over |-> FALSE, table |-> None, qr |-> None]
NoOrder   == [placed |-> FALSE, session |-> None, table |-> None, proof |-> None]
Home      == [page |-> "home", sent |-> FALSE]
Menu      == [Home EXCEPT !.page = "menu"]
NoCtx     == [session |-> None, table |-> None, token |-> None, order |-> None]

TypeOK ==
    /\ tokens \in [Token -> TokenRow]
    /\ sessions \in [Session -> SessionRow]
    /\ orders \in [Order -> OrderRow]
    /\ billed \subseteq Table
    /\ cookie \in [Browser -> OptSession]
    /\ tabs \in [Tab -> Page]
    /\ pc \in [Tab -> Labels]
    /\ ctx \in [Tab -> Ctx]

Init ==
    /\ tokens = [k \in Token |-> NoToken]
    /\ sessions = [s \in Session |-> NoSession]
    /\ orders = [o \in Order |-> NoOrder]
    /\ billed = {}
    /\ cookie = [b \in Browser |-> None]
    /\ tabs = [t \in Tab |-> Home]
    /\ pc = [t \in Tab |-> "idle"]
    /\ ctx = [t \in Tab |-> NoCtx]

At(t, label)   == pc[t] = label
Goto(t, label) == pc' = [pc EXCEPT ![t] = label]
Done(t)        == Goto(t, "idle") /\ ctx' = [ctx EXCEPT ![t] = NoCtx]

Show(t, page)  == tabs' = [tabs EXCEPT ![t] = page]

-----------------------------------------------------------------------------
(* Tokens and sessions. *)

Fresh(k)  == k # None /\ tokens[k].state = "fresh"
Made      == {k \in Token : tokens[k].state # "none"}
Opened    == {s \in Session : sessions[s].state # "none"}
Placed    == {o \in Order : orders[o].placed}

\* Bounds: a request starts while there is a token for every rotation under way.
Rotating == {t \in Tab : pc[t] \in {"joinRotate", "validate", "recheck", "consume", "rotate"}}
Room     == Cardinality(Made) + Cardinality(Rotating) < Cardinality(Token)

Spend(k) == [tokens EXCEPT ![k].state = "gone"]

\* The fresh tokens of the table are withdrawn and a new one is made (one step
\* here; TableAccess has the read and the save apart).
RotateAt(table) ==
    /\ Token \ Made # {}
    /\ LET new == CHOOSE k \in Token : k \notin Made
       IN  tokens' = [k \in Token |->
                IF k = new THEN [state |-> "fresh", table |-> table]
                ELSE IF tokens[k].table = table THEN [tokens[k] EXCEPT !.state = "gone"]
                ELSE tokens[k]]

\* The display of a table without a fresh QR connects, or the store asks for a
\* new one (one that is still fresh expires first: TokenExpires).
Rotate(table) ==
    /\ Room /\ \A k \in Token : Fresh(k) => tokens[k].table # table
    /\ RotateAt(table)
    /\ UNCHANGED <<sessions, orders, billed, cookie, tabs, pc, ctx>>

\* ValidateAsync accepts the session.
Valid(s) == s # None /\ sessions[s].state = "open" /\ ~sessions[s].over

\* The cookie as getCustomerSession reads it: it ends when the session expires
\* and knows nothing of a session that was closed.
ReadCookie(t) ==
    LET s == cookie[BrowserOf[t]]
    IN  IF s = None THEN None ELSE IF sessions[s].over THEN None ELSE s

-----------------------------------------------------------------------------
(* GET /g/<token>, which joins, and GET /menu. *)

\* VerifyAsync: the token is consumed, a bill is opened if there is none, and
\* the session is created, in one transaction.
FollowLink(t, k) ==
    LET s == CHOOSE i \in Session : i \notin Opened
    IN  /\ At(t, "idle") /\ Fresh(k)
        /\ Room /\ Session \ Opened # {}   \* bounds
        /\ tokens' = Spend(k)
        /\ sessions' = [sessions EXCEPT ![s] =
                [state |-> "open", over |-> FALSE, table |-> tokens[k].table, qr |-> k]]
        /\ billed' = billed \cup {tokens[k].table}
        /\ ctx' = [ctx EXCEPT ![t] = [NoCtx EXCEPT !.session = s, !.table = tokens[k].table]]
        /\ Goto(t, "joinRotate")
        /\ Show(t, Home)
        /\ UNCHANGED <<orders, cookie>>

\* The link of a token that is not fresh; the browser keeps the cookie it has.
FollowOldLink(t) ==
    /\ At(t, "idle")
    /\ Show(t, Home)
    /\ UNCHANGED <<api, cookie, pc, ctx>>

JoinRotate(t) ==
    /\ At(t, "joinRotate")
    /\ RotateAt(ctx[t].table)
    /\ Goto(t, "joinAnswer")
    /\ UNCHANGED <<sessions, orders, billed, cookie, tabs, ctx>>

\* The page GET /menu answers with: the cookie is read and its session validated.
MenuPage(s) == IF Valid(s) THEN Menu ELSE Home

\* Mutant: the cookie carries the id of the table.
JoinAnswerWithTable(t) ==
    /\ At(t, "joinAnswer")
    /\ cookie' = [cookie EXCEPT ![BrowserOf[t]] = ctx[t].table]
    /\ Show(t, MenuPage(ctx[t].session))
    /\ Done(t)
    /\ UNCHANGED api

\* The answer sets the cookie, whatever it was, and sends the tab to the menu.
JoinAnswer(t) ==
    /\ At(t, "joinAnswer")
    /\ cookie' = [cookie EXCEPT ![BrowserOf[t]] = ctx[t].session]
    /\ Show(t, MenuPage(ctx[t].session))
    /\ Done(t)
    /\ UNCHANGED api

\* By the link of the home page or a reload: the page is made anew.
OpenMenu(t) ==
    /\ At(t, "idle") /\ (tabs[t].page = "home" => ReadCookie(t) # None)
    /\ Show(t, MenuPage(ReadCookie(t)))
    /\ UNCHANGED <<api, cookie, pc, ctx>>

-----------------------------------------------------------------------------
(* An order: submitCustomerOrderAction and CreateOrder. *)

\* The cart stays as it was after the last order, and any QR may be entered with
\* it: one in view, or an old one, for which None stands.
SubmitCustomerOrder(t, k) ==
    LET s == ReadCookie(t)
    IN  /\ At(t, "idle") /\ tabs[t].page = "menu" /\ s # None
        /\ k = None \/ Fresh(k)
        /\ Room /\ Order \ Placed # {}   \* bounds
        /\ Goto(t, "validate")
        /\ ctx' = [ctx EXCEPT ![t] = [NoCtx EXCEPT !.session = s, !.token = k]]
        /\ UNCHANGED <<api, cookie, tabs>>

\* Without a cookie or with an empty cart the action does not call the API.
SubmitNothing(t) ==
    /\ At(t, "idle") /\ tabs[t].page = "menu"
    /\ tabs' = [tabs EXCEPT ![t].sent = FALSE]
    /\ UNCHANGED <<api, cookie, pc, ctx>>

Refuse(t) == Goto(t, "answer") /\ UNCHANGED <<api, ctx>>

ValidateSession(t) ==
    LET s == ctx[t].session
    IN  /\ At(t, "validate")
        /\ IF Valid(s)
           THEN /\ Goto(t, "recheck")
                /\ ctx' = [ctx EXCEPT ![t].table = sessions[s].table]
                /\ UNCHANGED api
           ELSE Refuse(t)
        /\ UNCHANGED <<cookie, tabs>>

\* Mutant: only the id of the session is looked up again.
RecheckExistence(t) ==
    /\ At(t, "recheck")
    /\ Goto(t, "consume")
    /\ UNCHANGED <<api, ctx, cookie, tabs>>

\* The session is looked up again, at the table it was validated for.
RecheckSession(t) ==
    LET s == ctx[t].session
    IN  /\ At(t, "recheck")
        /\ IF Valid(s) /\ sessions[s].table = ctx[t].table
           THEN Goto(t, "consume") /\ UNCHANGED <<api, ctx>>
           ELSE Refuse(t)
        /\ UNCHANGED <<cookie, tabs>>

\* Mutant: the proof is looked up and not consumed.
LookUpCheckoutProof(t) ==
    LET k == ctx[t].token
    IN  /\ At(t, "consume")
        /\ IF Fresh(k) /\ tokens[k].table = ctx[t].table
           THEN Goto(t, "rotate") /\ UNCHANGED <<api, ctx>>
           ELSE Refuse(t)
        /\ UNCHANGED <<cookie, tabs>>

\* Mutant: the proof may be that of any table.
ConsumeAnyProof(t) ==
    LET k == ctx[t].token
    IN  /\ At(t, "consume")
        /\ IF Fresh(k)
           THEN Goto(t, "rotate") /\ tokens' = Spend(k) /\ UNCHANGED <<sessions, orders, billed, ctx>>
           ELSE Refuse(t)
        /\ UNCHANGED <<cookie, tabs>>

ConsumeCheckoutProof(t) ==
    LET k == ctx[t].token
    IN  /\ At(t, "consume")
        /\ IF Fresh(k) /\ tokens[k].table = ctx[t].table
           THEN Goto(t, "rotate") /\ tokens' = Spend(k) /\ UNCHANGED <<sessions, orders, billed, ctx>>
           ELSE Refuse(t)
        /\ UNCHANGED <<cookie, tabs>>

CheckoutRotate(t) ==
    /\ At(t, "rotate")
    /\ RotateAt(ctx[t].table)
    /\ Goto(t, "place")
    /\ UNCHANGED <<sessions, orders, billed, cookie, tabs, ctx>>

\* The order is placed at the table the session was validated for, on a new
\* bill if there is none.  An item that is no longer available refuses it.
PlaceOrder(t) ==
    LET o == CHOOSE i \in Order : i \notin Placed
    IN  /\ At(t, "place")
        /\ \/ /\ Order \ Placed # {}   \* bound
              /\ orders' = [orders EXCEPT ![o] = [placed |-> TRUE, session |-> ctx[t].session,
                                                  table |-> ctx[t].table, proof |-> ctx[t].token]]
              /\ billed' = billed \cup {ctx[t].table}
              /\ ctx' = [ctx EXCEPT ![t].order = o]
              /\ Goto(t, "answer")
              /\ UNCHANGED <<tokens, sessions>>
           \/ Refuse(t)
        /\ UNCHANGED <<cookie, tabs>>

\* Mutant: the action does not look at the status of the response.
AnswerAlwaysOk(t) ==
    /\ At(t, "answer")
    /\ Show(t, IF Valid(ReadCookie(t)) THEN [tabs[t] EXCEPT !.sent = TRUE] ELSE Home)
    /\ Done(t)
    /\ UNCHANGED <<api, cookie>>

\* After a success the page is rendered again, which sends a guest whose session
\* has ended to the home page.
SubmitAnswer(t) ==
    LET ok == ctx[t].order # None
    IN  /\ At(t, "answer")
        /\ Show(t, IF ok /\ ~Valid(ReadCookie(t)) THEN Home
                   ELSE [tabs[t] EXCEPT !.sent = ok])
        /\ Done(t)
        /\ UNCHANGED <<api, cookie>>

-----------------------------------------------------------------------------
(* Leaving. *)

LeaveCustomerSession(t) ==
    /\ At(t, "idle") /\ tabs[t].page = "menu"
    /\ ctx' = [ctx EXCEPT ![t] = [NoCtx EXCEPT !.session = ReadCookie(t)]]
    /\ Goto(t, IF ReadCookie(t) = None THEN "left" ELSE "logout")
    /\ UNCHANGED <<api, cookie, tabs>>

CloseSession(t) ==
    /\ At(t, "logout")
    /\ sessions' = [sessions EXCEPT ![ctx[t].session].state = "closed"]
    /\ Goto(t, "left")
    /\ UNCHANGED <<tokens, orders, billed, cookie, tabs, ctx>>

\* The answer deletes the cookie the browser has by now.
Left(t) ==
    /\ At(t, "left")
    /\ cookie' = [cookie EXCEPT ![BrowserOf[t]] = None]
    /\ Show(t, Home) /\ Done(t)
    /\ UNCHANGED api

-----------------------------------------------------------------------------
(* The store, time, and what goes wrong. *)

CloseBill(table) ==
    /\ table \in billed
    /\ billed' = billed \ {table}
    /\ sessions' = [s \in Session |-> IF sessions[s].state = "open" /\ sessions[s].table = table
                                      THEN [sessions[s] EXCEPT !.state = "closed"] ELSE sessions[s]]
    /\ UNCHANGED <<tokens, orders, cookie, tabs, pc, ctx>>

MoveBill(from, to) ==
    /\ from \in billed /\ to \in Table \ billed
    /\ billed' = (billed \ {from}) \cup {to}
    /\ sessions' = [s \in Session |-> IF sessions[s].state = "open" /\ sessions[s].table = from
                                      THEN [sessions[s] EXCEPT !.table = to] ELSE sessions[s]]
    /\ UNCHANGED <<tokens, orders, cookie, tabs, pc, ctx>>

TokenExpires(k) ==
    /\ Fresh(k)
    /\ tokens' = Spend(k)
    /\ UNCHANGED <<sessions, orders, billed, cookie, tabs, pc, ctx>>

\* A session nobody can tell from an expired one need not expire.
SessionExpires(s) ==
    /\ s \in Opened /\ ~sessions[s].over
    /\ sessions[s].state = "open" \/ \E b \in Browser : cookie[b] = s
    /\ sessions' = [sessions EXCEPT ![s].over = TRUE]
    /\ UNCHANGED <<tokens, orders, billed, cookie, tabs, pc, ctx>>

\* The guest has closed or left the page: the answer changes nothing.
AnswerLost(t) ==
    /\ pc[t] \in {"joinAnswer", "answer", "left"}
    /\ Done(t) /\ Show(t, Home)
    /\ UNCHANGED <<api, cookie>>

\* A call of the API fails: what it has committed stays.  A join sends the
\* guest home, an order is reported as failed, leaving goes on.
CallFails(t) ==
    /\ CASE pc[t] \in {"joinRotate", "joinAnswer"} -> Done(t) /\ Show(t, Home)
         [] pc[t] \in {"validate", "recheck", "consume", "rotate", "place", "answer"} ->
                Goto(t, "answer") /\ ctx' = [ctx EXCEPT ![t].order = None] /\ UNCHANGED tabs
         [] pc[t] = "logout" -> Goto(t, "left") /\ UNCHANGED <<ctx, tabs>>
         [] OTHER -> FALSE
    /\ UNCHANGED <<api, cookie>>

-----------------------------------------------------------------------------
Join(t)     == JoinRotate(t) \/ JoinAnswer(t)
Checkout(t) == \/ ValidateSession(t) \/ RecheckSession(t) \/ ConsumeCheckoutProof(t)
               \/ CheckoutRotate(t) \/ PlaceOrder(t) \/ SubmitAnswer(t)
Serve(t)    == Join(t) \/ Checkout(t) \/ CloseSession(t) \/ Left(t) \/ AnswerLost(t)

Guest(t) == \/ \E k \in Token : FollowLink(t, k)
            \/ \E k \in OptToken : SubmitCustomerOrder(t, k)
            \/ FollowOldLink(t) \/ OpenMenu(t) \/ SubmitNothing(t) \/ LeaveCustomerSession(t)

Store == \E table \in Table : \/ Rotate(table) \/ CloseBill(table)
                              \/ \E to \in Table : MoveBill(table, to)

Next ==
    \/ \E t \in Tab : Guest(t) \/ Serve(t) \/ CallFails(t)
    \/ Store
    \/ \E k \in Token : TokenExpires(k)
    \/ \E s \in Session : SessionExpires(s)

Spec == Init /\ [][Next]_vars

-----------------------------------------------------------------------------
(* Properties. *)

\* A QR lets somebody join once or proves one order, never two things, however
\* often it is followed, entered, submitted again or shared between tabs
\* (ConsumeTokenAsync).
OneUsePerQr ==
    /\ \A o, p \in Placed : o # p => orders[o].proof # orders[p].proof
    /\ \A o \in Placed, s \in Opened : orders[o].proof # sessions[s].qr

\* An order goes to the table whose QR proves it, also when the guest's party
\* has been moved meanwhile or the guest holds a QR of another table
\* (effectiveTableId in CreateOrder).
ProvedAtItsTable == \A o \in Placed : tokens[orders[o].proof].table = orders[o].table

\* Requests of session s that have passed the checks of CreateOrder.
Checked(s) == {t \in Tab : ctx[t].session = s /\ pc[t] \in {"consume", "rotate", "place"}}

\* A session that has ended, by the store, the guest or time, places nothing but
\* the orders that had been checked before it ended (ValidateAsync and the look
\* at the session after it).
EndedSessionsAreRefused ==
    [][\A s \in Opened : ~Valid(s) => Checked(s)' \subseteq Checked(s)]_vars

\* A tab says an order was sent only when it is placed, with the proof that was
\* entered for it (submitCustomerOrderAction).
SentMeansPlaced ==
    [][\A t \in Tab : tabs'[t].sent /\ ~tabs[t].sent
        => \E o \in Placed : orders[o].proof = ctx[t].token /\ orders[o].session = ctx[t].session]_vars
=============================================================================
