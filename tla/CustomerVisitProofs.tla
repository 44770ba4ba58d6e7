------------------------- MODULE CustomerVisitProofs -------------------------
(***************************************************************************)
(* Proofs about CustomerVisit, for any number of tables, browsers, tabs,   *)
(* tokens, sessions and orders.                                            *)
(***************************************************************************)
EXTENDS CustomerVisit, TLAPS

-----------------------------------------------------------------------------
(* The inductive invariant. *)

\* What exists is at a table, and so is a request that has found out its table.
AtTables ==
    /\ \A k \in Made : tokens[k].table \in Table
    /\ \A s \in Opened : sessions[s].table \in Table
    /\ \A t \in Tab : pc[t] \in {"joinRotate", "recheck", "consume", "rotate", "place"} =>
          ctx[t].table \in Table

\* Cookies and requests name sessions that were opened.
KnownSessions ==
    /\ \A b \in Browser : cookie[b] # None => cookie[b] \in Opened
    /\ \A t \in Tab : ctx[t].session # None => ctx[t].session \in Opened
    /\ \A t \in Tab : pc[t] = "logout" => ctx[t].session # None

\* A request at one of these labels has consumed its proof and not ordered yet.
Paying == {t \in Tab : pc[t] \in {"rotate", "place"}}

Gone(k) == k \in Token /\ tokens[k].state = "gone"

\* What a placed order, a session and a paying request hold is consumed.
HeldAreGone ==
    /\ \A o \in Placed : Gone(orders[o].proof)
    /\ \A s \in Opened : Gone(sessions[s].qr)
    /\ \A t \in Paying : Gone(ctx[t].token) /\ tokens[ctx[t].token].table = ctx[t].table

\* A consumed proof belongs to the request that consumed it until it orders.
ProofIsReserved ==
    \A t \in Paying :
        /\ \A o \in Placed : orders[o].proof # ctx[t].token
        /\ \A s \in Opened : sessions[s].qr # ctx[t].token
        /\ \A u \in Paying : u # t => ctx[u].token # ctx[t].token

\* A request that has not come to the order yet carries none.
NotOrderedYet ==
    \A t \in Tab : pc[t] \in {"validate", "recheck", "consume", "rotate", "place"} =>
        ctx[t].order = None

\* An answer that carries an order carries the one that was placed for it.
AnswersArePlaced ==
    \A t \in Tab : pc[t] = "answer" /\ ctx[t].order # None =>
        /\ ctx[t].order \in Placed
        /\ orders[ctx[t].order].proof = ctx[t].token
        /\ orders[ctx[t].order].session = ctx[t].session

IInv ==
    /\ TypeOK
    /\ AtTables
    /\ KnownSessions
    /\ HeldAreGone
    /\ ProofIsReserved
    /\ NotOrderedYet
    /\ AnswersArePlaced
    /\ OneUsePerQr
    /\ ProvedAtItsTable

-----------------------------------------------------------------------------
(* Types. *)

\* The locals of a tab without a request are typed.
LEMMA NoCtxType == NoCtx \in Ctx
  BY DEF NoCtx, Ctx, OptSession, OptTable, OptToken

\* The fields of every record have the types of their record sets.
LEMMA FieldTypes ==
  ASSUME TypeOK
  PROVE  /\ \A k \in Token : /\ tokens[k].state \in {"none", "fresh", "gone"}
                             /\ tokens[k].table \in OptTable
         /\ \A t \in Tab : /\ ctx[t].session \in OptSession /\ ctx[t].table \in OptTable
                           /\ ctx[t].token \in OptToken /\ ctx[t].order \in Order \cup {None}
  BY DEF TypeOK, TokenRow, Ctx

\* Done leaves the requests of the tabs typed.
LEMMA DoneType ==
  ASSUME TypeOK, NEW t \in Tab, Done(t)
  PROVE  pc' \in [Tab -> Labels] /\ ctx' \in [Tab -> Ctx]
  BY NoCtxType DEF TypeOK, Done, Goto, Labels

\* A page that is shown leaves the tabs typed.
LEMMA ShowType ==
  ASSUME TypeOK, NEW t \in Tab, NEW page \in Page, Show(t, page)
  PROVE  tabs' \in [Tab -> Page]
  BY DEF TypeOK, Show

\* The pages a tab may show are pages.
LEMMA PageTypes ==
  ASSUME TypeOK
  PROVE  /\ Home \in Page /\ Menu \in Page
         /\ \A s : MenuPage(s) \in Page
         /\ \A t \in Tab, b \in BOOLEAN : [tabs[t] EXCEPT !.sent = b] \in Page
  BY DEF Home, Menu, MenuPage, Page, TypeOK

\* A rotation leaves the tokens typed; a token that is gone stays gone, and no
\* token changes its table.
LEMMA RotateEffect ==
  ASSUME TypeOK, NEW table \in OptTable, RotateAt(table)
  PROVE  /\ tokens' \in [Token -> TokenRow]
         /\ \A k \in Token : tokens[k].state = "gone" => tokens'[k].state = "gone"
         /\ \A k \in Token : tokens[k].state # "none" => tokens'[k].table = tokens[k].table
         /\ \A k \in Token : tokens'[k].state # "none" /\ tokens[k].state = "none" =>
                tokens'[k].table = table
  <1> DEFINE new == CHOOSE k \in Token : k \notin Made
  <1>1. new \in Token /\ new \notin Made
    BY DEF RotateAt
  <1>2. tokens[new].state = "none"
    BY <1>1 DEF Made
  <1> HIDE DEF new
  <1>3. tokens' = [k \in Token |->
                      IF k = new THEN [state |-> "fresh", table |-> table]
                      ELSE IF tokens[k].table = table THEN [tokens[k] EXCEPT !.state = "gone"]
                      ELSE tokens[k]]
    BY DEF RotateAt, new
  <1>4. QED
    BY <1>1, <1>2, <1>3 DEF TypeOK, TokenRow

\* Consuming a token leaves the tokens typed and touches only that token.
LEMMA SpendEffect ==
  ASSUME TypeOK, NEW k \in Token, tokens' = Spend(k)
  PROVE  /\ tokens' \in [Token -> TokenRow]
         /\ \A i \in Token : i # k => tokens'[i] = tokens[i]
         /\ tokens'[k].state = "gone" /\ tokens'[k].table = tokens[k].table
  BY DEF TypeOK, TokenRow, Spend

\* Joining leaves every variable typed.
LEMMA JoinType ==
  ASSUME TypeOK, AtTables, NEW t \in Tab, NEW k \in Token, FollowLink(t, k)
  PROVE  TypeOK'
  <1> DEFINE s == CHOOSE i \in Session : i \notin Opened
             row == [state |-> "open", over |-> FALSE, table |-> tokens[k].table, qr |-> k]
             c == [NoCtx EXCEPT !.session = s, !.table = tokens[k].table]
  <1>1. s \in Session
    BY DEF FollowLink
  <1>2. row \in SessionRow
    BY FieldTypes DEF SessionRow, OptToken
  <1>3. c \in Ctx
    BY <1>1, FieldTypes, NoCtxType DEF Ctx, OptSession
  <1>4. tokens' \in [Token -> TokenRow] /\ tabs' \in [Tab -> Page]
    BY SpendEffect, ShowType, PageTypes DEF FollowLink
  <1>5. sessions' = [sessions EXCEPT ![s] = row] /\ ctx' = [ctx EXCEPT ![t] = c]
    BY DEF FollowLink
  <1>6. billed' \subseteq Table
    <2>1. k \in Made /\ billed' = billed \cup {tokens[k].table}
      BY DEF FollowLink, Fresh, Made
    <2>2. QED
      BY <2>1 DEF AtTables, TypeOK
  <1>7. pc' = [pc EXCEPT ![t] = "joinRotate"] /\ UNCHANGED <<orders, cookie>>
    BY DEF FollowLink, Goto
  <1> HIDE DEF s, row, c
  <1>8. sessions' \in [Session -> SessionRow] /\ ctx' \in [Tab -> Ctx]
    BY <1>1, <1>2, <1>3, <1>5 DEF TypeOK
  <1>9. QED
    BY <1>4, <1>6, <1>7, <1>8 DEF TypeOK, Labels

\* Placing an order leaves every variable typed.
LEMMA PlaceType ==
  ASSUME TypeOK, AtTables, NEW t \in Tab, PlaceOrder(t)
  PROVE  TypeOK'
  <1> DEFINE o == CHOOSE i \in Order : i \notin Placed
             row == [placed |-> TRUE, session |-> ctx[t].session, table |-> ctx[t].table,
                     proof |-> ctx[t].token]
  <1>1. CASE Refuse(t)
    BY <1>1 DEF PlaceOrder, Refuse, TypeOK, Goto, Labels, api
  <1>2. CASE ~Refuse(t)
    <2>1. o \in Order /\ orders' = [orders EXCEPT ![o] = row]
      BY <1>2 DEF PlaceOrder
    <2>2. row \in OrderRow
      BY FieldTypes DEF OrderRow
    <2>3. ctx' = [ctx EXCEPT ![t].order = o]
      BY <1>2 DEF PlaceOrder
    <2>4. ctx[t].table \in Table /\ billed' = billed \cup {ctx[t].table}
      BY <1>2 DEF PlaceOrder, AtTables, At
    <2> HIDE DEF o, row
    <2>5. ctx' \in [Tab -> Ctx]
      BY <2>1, <2>3 DEF TypeOK, Ctx
    <2>6. orders' \in [Order -> OrderRow] /\ billed' \subseteq Table
      BY <2>1, <2>2, <2>4 DEF TypeOK
    <2>7. QED
      BY <1>2, <2>5, <2>6 DEF PlaceOrder, TypeOK, Goto, Labels
  <1>3. QED
    BY <1>1, <1>2

\* What the store and the clock do leaves every variable typed.
LEMMA StoreType ==
  ASSUME TypeOK, Store \/ (\E k \in Token : TokenExpires(k)) \/ (\E s \in Session : SessionExpires(s))
  PROVE  TypeOK'
  <1>1. ASSUME NEW table \in Table, Rotate(table) PROVE TypeOK'
    BY <1>1, RotateEffect DEF Rotate, TypeOK, OptTable
  <1>2. ASSUME NEW table \in Table, CloseBill(table) PROVE TypeOK'
    BY <1>2 DEF CloseBill, TypeOK, SessionRow
  <1>3. ASSUME NEW from \in Table, NEW to \in Table, MoveBill(from, to) PROVE TypeOK'
    BY <1>3 DEF MoveBill, TypeOK, SessionRow, OptTable
  <1>4. ASSUME NEW k \in Token, TokenExpires(k) PROVE TypeOK'
    BY <1>4, SpendEffect DEF TokenExpires, TypeOK
  <1>5. ASSUME NEW s \in Session, SessionExpires(s) PROVE TypeOK'
    <2>1. sessions' \in [Session -> SessionRow]
      BY <1>5 DEF SessionExpires, TypeOK, SessionRow
    <2>2. UNCHANGED <<tokens, orders, billed, cookie, tabs, pc, ctx>>
      BY <1>5 DEF SessionExpires
    <2>3. QED
      BY <2>1, <2>2 DEF TypeOK
  <1>6. QED
    BY <1>1, <1>2, <1>3, <1>4, <1>5 DEF Store

\* The session a tab's cookie is read as.
LEMMA CookieType ==
  ASSUME TypeOK, NEW t \in Tab PROVE ReadCookie(t) \in OptSession
  BY BrowserAssumption DEF TypeOK, ReadCookie, OptSession

\* Every step leaves every variable typed.
LEMMA TypeStep == ASSUME TypeOK, AtTables, Next PROVE TypeOK'
  <1>1. ASSUME NEW t \in Tab, Guest(t) PROVE TypeOK'
    <2>1. ASSUME NEW k \in OptToken, SubmitCustomerOrder(t, k) PROVE TypeOK'
      <3> DEFINE c == [NoCtx EXCEPT !.session = ReadCookie(t), !.token = k]
      <3>1. c \in Ctx /\ ctx' = [ctx EXCEPT ![t] = c]
        BY <2>1, CookieType, NoCtxType DEF SubmitCustomerOrder, Ctx
      <3> HIDE DEF c
      <3>2. QED
        BY <2>1, <3>1 DEF SubmitCustomerOrder, TypeOK, Goto, Labels, api
    <2>2. CASE FollowOldLink(t) \/ OpenMenu(t)
      BY <2>2, ShowType, PageTypes DEF FollowOldLink, OpenMenu, TypeOK, api
    <2>3. CASE SubmitNothing(t)
      BY <2>3, PageTypes DEF SubmitNothing, TypeOK, api
    <2>4. CASE LeaveCustomerSession(t)
      <3> DEFINE c == [NoCtx EXCEPT !.session = ReadCookie(t)]
      <3>1. c \in Ctx /\ ctx' = [ctx EXCEPT ![t] = c]
        BY <2>4, CookieType, NoCtxType DEF LeaveCustomerSession, Ctx
      <3> HIDE DEF c
      <3>2. QED
        BY <2>4, <3>1 DEF LeaveCustomerSession, TypeOK, Goto, Labels, api
    <2>5. QED
      BY <1>1, <2>1, <2>2, <2>3, <2>4, JoinType DEF Guest
  <1>2. ASSUME NEW t \in Tab, Join(t) PROVE TypeOK'
    <2>1. CASE JoinRotate(t)
      BY <2>1, FieldTypes, RotateEffect DEF JoinRotate, TypeOK, Goto, Labels
    <2>2. CASE JoinAnswer(t)
      BY <2>2, FieldTypes, DoneType, ShowType, PageTypes DEF JoinAnswer, TypeOK, api
    <2>3. QED
      BY <1>2, <2>1, <2>2 DEF Join
  <1>3. ASSUME NEW t \in Tab, Checkout(t) PROVE TypeOK'
    <2>1. ASSUME Refuse(t), UNCHANGED <<cookie, tabs>> PROVE TypeOK'
      BY <2>1 DEF Refuse, TypeOK, Goto, Labels, api
    <2>2. CASE ValidateSession(t)
      <3>1. ASSUME ctx' = [ctx EXCEPT ![t].table = sessions[ctx[t].session].table],
                   Valid(ctx[t].session)
            PROVE  ctx' \in [Tab -> Ctx]
        <4>1. ctx[t].session \in Session
          BY <3>1, FieldTypes DEF Valid, OptSession
        <4>2. sessions[ctx[t].session].table \in OptTable
          BY <4>1 DEF TypeOK, SessionRow
        <4>3. QED
          BY <3>1, <4>2 DEF TypeOK, Ctx
      <3>2. QED
        BY <2>1, <2>2, <3>1 DEF ValidateSession, TypeOK, Goto, Labels, api
    <2>3. CASE RecheckSession(t)
      BY <2>1, <2>3 DEF RecheckSession, TypeOK, Goto, Labels, api
    <2>4. CASE ConsumeCheckoutProof(t)
      <3>1. Fresh(ctx[t].token) => ctx[t].token \in Token
        BY FieldTypes DEF Fresh, OptToken
      <3>2. QED
        BY <2>1, <2>4, <3>1, SpendEffect DEF ConsumeCheckoutProof, TypeOK, Goto, Labels, api
    <2>5. CASE CheckoutRotate(t)
      BY <2>5, FieldTypes, RotateEffect DEF CheckoutRotate, TypeOK, Goto, Labels
    <2>6. CASE SubmitAnswer(t)
      <3>1. (ctx[t].order # None) \in BOOLEAN
        OBVIOUS
      <3>2. QED
        BY <2>6, <3>1, DoneType, ShowType, PageTypes DEF SubmitAnswer, TypeOK, api
    <2>7. QED
      BY <1>3, <2>2, <2>3, <2>4, <2>5, <2>6, PlaceType DEF Checkout
  <1>4. ASSUME NEW t \in Tab, CloseSession(t) \/ Left(t) \/ AnswerLost(t) PROVE TypeOK'
    <2>1. CASE CloseSession(t)
      BY <2>1 DEF CloseSession, TypeOK, SessionRow, Goto, Labels
    <2>2. CASE Left(t)
      BY <2>2, DoneType, ShowType, PageTypes DEF Left, TypeOK, api, OptSession
    <2>3. CASE AnswerLost(t)
      BY <2>3, DoneType, ShowType, PageTypes DEF AnswerLost, TypeOK, api
    <2>4. QED
      BY <1>4, <2>1, <2>2, <2>3
  <1>5. ASSUME NEW t \in Tab, CallFails(t) PROVE TypeOK'
    <2>1. UNCHANGED <<api, cookie>>
      BY <1>5 DEF CallFails
    <2>2. CASE Done(t) /\ Show(t, Home)
      BY <2>1, <2>2, DoneType, ShowType, PageTypes DEF TypeOK, api
    <2>3. CASE /\ Goto(t, "answer") /\ ctx' = [ctx EXCEPT ![t].order = None] /\ UNCHANGED tabs
      BY <2>1, <2>3 DEF TypeOK, Ctx, Goto, Labels, api
    <2>4. CASE Goto(t, "left") /\ UNCHANGED <<ctx, tabs>>
      BY <2>1, <2>4 DEF TypeOK, Goto, Labels, api
    <2>5. QED
      BY <1>5, <2>2, <2>3, <2>4 DEF CallFails
  <1>6. QED
    BY <1>1, <1>2, <1>3, <1>4, <1>5, StoreType DEF Next, Serve

-----------------------------------------------------------------------------
(* Tables and tokens. *)

\* A token that is gone stays gone, and no token changes its table.
TokensKept ==
    /\ \A k \in Token : tokens[k].state = "gone" => tokens'[k].state = "gone"
    /\ \A k \in Token : tokens[k].state # "none" => tokens'[k].table = tokens[k].table

\* Tokens that appear are tokens of a table.
NewTokensAtTables ==
    \A k \in Token : tokens'[k].state # "none" /\ tokens[k].state = "none" =>
        tokens'[k].table \in Table

\* No step takes a token back or to another table.
LEMMA TokenStep ==
  ASSUME TypeOK, AtTables, Next PROVE TokensKept /\ NewTokensAtTables
  <1> USE DEF TokensKept, NewTokensAtTables
  <1>1. ASSUME NEW table \in Table, RotateAt(table) PROVE TokensKept /\ NewTokensAtTables
    BY <1>1, RotateEffect DEF OptTable
  <1>2. ASSUME NEW k \in Token, Fresh(k), tokens' = Spend(k) PROVE TokensKept /\ NewTokensAtTables
    <2>1. tokens[k].state = "fresh"
      BY <1>2 DEF Fresh
    <2>2. QED
      BY <1>2, <2>1, SpendEffect
  <1>3. CASE UNCHANGED tokens
    BY <1>3
  <1>4. ASSUME NEW t \in Tab, Guest(t) PROVE TokensKept /\ NewTokensAtTables
    BY <1>2, <1>3, <1>4 DEF Guest, FollowLink, FollowOldLink, SubmitCustomerOrder, OpenMenu,
       SubmitNothing, LeaveCustomerSession, api
  <1>5. ASSUME NEW t \in Tab, JoinRotate(t) \/ CheckoutRotate(t)
        PROVE  TokensKept /\ NewTokensAtTables
    <2>1. ctx[t].table \in Table
      BY <1>5 DEF JoinRotate, CheckoutRotate, At, AtTables
    <2>2. QED
      BY <1>1, <1>5, <2>1 DEF JoinRotate, CheckoutRotate
  <1>6. ASSUME NEW t \in Tab, ConsumeCheckoutProof(t) PROVE TokensKept /\ NewTokensAtTables
    <2>1. Fresh(ctx[t].token) => ctx[t].token \in Token
      BY FieldTypes DEF Fresh, OptToken
    <2>2. QED
      BY <1>2, <1>3, <1>6, <2>1 DEF ConsumeCheckoutProof, Refuse, api
  <1>7. ASSUME NEW t \in Tab, Serve(t), ~JoinRotate(t), ~CheckoutRotate(t), ~ConsumeCheckoutProof(t)
        PROVE  UNCHANGED tokens
    BY <1>7 DEF Serve, Join, Checkout, JoinAnswer, ValidateSession, RecheckSession, PlaceOrder,
       SubmitAnswer, CloseSession, Left, AnswerLost, Refuse, api
  <1>8. ASSUME NEW t \in Tab, CallFails(t) PROVE UNCHANGED tokens
    BY <1>8 DEF CallFails, api
  <1>9. CASE Store
    BY <1>1, <1>3, <1>9 DEF Store, Rotate, CloseBill, MoveBill
  <1>10. QED
    BY <1>2, <1>3, <1>4, <1>5, <1>6, <1>7, <1>8, <1>9 DEF Next, TokenExpires, SessionExpires

-----------------------------------------------------------------------------
(* Sessions. *)

\* Sessions stay opened, with the token they were opened with.
SessionsKept ==
    \A s \in Opened : sessions'[s].state # "none" /\ sessions'[s].qr = sessions[s].qr

\* A session that appears is opened with the token of a link that is followed.
SessionsByLinks ==
    \A s \in Session : sessions'[s].state # "none" /\ sessions[s].state = "none" =>
        \E t \in Tab, k \in Token : FollowLink(t, k)

SessionsAtTables == \A s \in Session : sessions'[s].state # "none" => sessions'[s].table \in Table

\* Sessions are opened at tables and moved to tables, and none is taken back.
LEMMA SessionStep ==
  ASSUME TypeOK, AtTables, KnownSessions, Next
  PROVE  SessionsKept /\ SessionsByLinks /\ SessionsAtTables
  <1> DEFINE Goal == SessionsKept /\ SessionsByLinks /\ SessionsAtTables
  <1> USE DEF SessionsKept, SessionsByLinks, SessionsAtTables, AtTables, Opened
  <1>1. CASE UNCHANGED sessions
    BY <1>1
  <1>2. ASSUME NEW t \in Tab, NEW k \in Token, FollowLink(t, k) PROVE Goal
    <2>1. tokens[k].table \in Table
      BY <1>2 DEF FollowLink, Fresh, Made
    <2>2. PICK s \in Session : /\ s \notin Opened
                               /\ sessions' = [sessions EXCEPT ![s] =
                                    [state |-> "open", over |-> FALSE,
                                     table |-> tokens[k].table, qr |-> k]]
      BY <1>2 DEF FollowLink
    <2>3. SessionsAtTables /\ SessionsKept
      BY <2>1, <2>2 DEF TypeOK
    <2>4. QED
      BY <1>2, <2>3
  <1>3. ASSUME NEW t \in Tab, CloseSession(t) PROVE Goal
    <2>1. ctx[t].session \in Opened
      BY <1>3 DEF CloseSession, At, KnownSessions
    <2>2. QED
      BY <1>3, <2>1 DEF CloseSession, TypeOK, SessionRow
  <1>4. ASSUME NEW table \in Table, CloseBill(table) PROVE Goal
    BY <1>4 DEF CloseBill, TypeOK, SessionRow
  <1>5. ASSUME NEW from \in Table, NEW to \in Table, MoveBill(from, to) PROVE Goal
    BY <1>5 DEF MoveBill, TypeOK, SessionRow
  <1>6. ASSUME NEW s \in Session, SessionExpires(s) PROVE Goal
    BY <1>6 DEF SessionExpires, TypeOK, SessionRow
  <1>7. ASSUME NEW t \in Tab, Guest(t) PROVE Goal
    <2>1. CASE \E k \in Token : FollowLink(t, k)
      BY <1>2, <2>1
    <2>2. CASE ~\E k \in Token : FollowLink(t, k)
      BY <1>1, <1>7, <2>2 DEF Guest, FollowOldLink, SubmitCustomerOrder, OpenMenu, SubmitNothing,
         LeaveCustomerSession, api
    <2>3. QED
      BY <2>1, <2>2
  <1>8. ASSUME NEW t \in Tab, Serve(t), ~CloseSession(t) PROVE UNCHANGED sessions
    BY <1>8 DEF Serve, Join, Checkout, JoinRotate, JoinAnswer, ValidateSession, RecheckSession,
       ConsumeCheckoutProof, CheckoutRotate, PlaceOrder, SubmitAnswer, Left, AnswerLost, Refuse, api
  <1>9. ASSUME NEW t \in Tab, CallFails(t) PROVE UNCHANGED sessions
    BY <1>9 DEF CallFails, api
  <1>10. CASE Store
    BY <1>1, <1>4, <1>5, <1>10 DEF Store, Rotate
  <1>11. QED
    BY <1>1, <1>3, <1>6, <1>7, <1>8, <1>9, <1>10 DEF Next, TokenExpires

-----------------------------------------------------------------------------
(* Requests. *)

Request(t) == Guest(t) \/ Serve(t) \/ CallFails(t)

\* A step of a tab leaves the requests of the other tabs alone.
LEMMA OthersWait ==
  ASSUME TypeOK, NEW t \in Tab, Request(t), NEW u \in Tab, u # t
  PROVE  pc'[u] = pc[u] /\ ctx'[u] = ctx[u]
  <1> USE DEF TypeOK, Goto, Done
  <1>1. CASE Guest(t)
    BY <1>1 DEF Guest, FollowLink, FollowOldLink, OpenMenu, SubmitNothing, SubmitCustomerOrder,
       LeaveCustomerSession
  <1>2. CASE Join(t)
    BY <1>2 DEF Join, JoinRotate, JoinAnswer
  <1>3. CASE Checkout(t)
    BY <1>3 DEF Checkout, ValidateSession, RecheckSession, ConsumeCheckoutProof, CheckoutRotate,
       PlaceOrder, SubmitAnswer, Refuse
  <1>4. CASE CloseSession(t) \/ Left(t) \/ AnswerLost(t)
    BY <1>4 DEF CloseSession, Left, AnswerLost
  <1>5. CASE CallFails(t)
    BY <1>5 DEF CallFails
  <1>6. QED
    BY <1>1, <1>2, <1>3, <1>4, <1>5 DEF Request, Serve

\* Where the new request of a tab stands.
Located(t) ==
    pc'[t] \in {"joinRotate", "recheck", "consume", "rotate", "place"} => ctx'[t].table \in Table

\* The session the new request of a tab names.
Named(t) ==
    /\ ctx'[t].session # None => ctx'[t].session \in Opened'
    /\ pc'[t] = "logout" => ctx'[t].session # None

\* The cookie that is read names a session that was opened.
LEMMA CookieKnown ==
  ASSUME TypeOK, KnownSessions, NEW t \in Tab, ReadCookie(t) # None
  PROVE  ReadCookie(t) \in Opened
  BY BrowserAssumption DEF TypeOK, ReadCookie, KnownSessions

\* The session a step keeps in a request stays opened.
LEMMA KeptOpened ==
  ASSUME SessionsKept, NEW s \in Opened PROVE s \in Opened'
  BY DEF SessionsKept, Opened

\* A request that goes on is at a table and names an opened session.
LEMMA RequestStep ==
  ASSUME TypeOK, AtTables, KnownSessions, SessionsKept, NEW t \in Tab, Request(t)
  PROVE  Located(t) /\ Named(t)
  <1> DEFINE Goal == Located(t) /\ Named(t)
  <1> USE DEF Located, Named
  <1>0. ctx[t].session # None => ctx[t].session \in Opened'
    BY KeptOpened DEF KnownSessions
  <1>1. CASE UNCHANGED <<pc, ctx>>
    BY <1>0, <1>1 DEF AtTables, KnownSessions
  <1>2. CASE Done(t)
    BY <1>2 DEF Done, Goto, NoCtx, TypeOK
  <1>3. ASSUME NEW k \in Token, FollowLink(t, k) PROVE Goal
    <2> DEFINE s == CHOOSE i \in Session : i \notin Opened
    <2>1. s \in Session /\ sessions' = [sessions EXCEPT ![s] =
             [state |-> "open", over |-> FALSE, table |-> tokens[k].table, qr |-> k]]
      BY <1>3 DEF FollowLink
    <2>2. ctx'[t] = [NoCtx EXCEPT !.session = s, !.table = tokens[k].table]
      BY <1>3 DEF FollowLink, TypeOK
    <2>3. tokens[k].table \in Table /\ pc'[t] = "joinRotate"
      BY <1>3 DEF FollowLink, Fresh, Made, AtTables, Goto, TypeOK
    <2> HIDE DEF s
    <2>4. s \in Opened'
      BY <2>1 DEF Opened, TypeOK
    <2>5. QED
      BY <2>2, <2>3, <2>4 DEF NoCtx
  <1>4. CASE (\E k \in OptToken : SubmitCustomerOrder(t, k)) \/ LeaveCustomerSession(t)
    <2>1. ctx'[t].session = ReadCookie(t)
      BY <1>4 DEF SubmitCustomerOrder, LeaveCustomerSession, TypeOK, NoCtx
    <2>2. pc'[t] \in {"validate", "logout", "left"} /\ (pc'[t] = "logout" => ReadCookie(t) # None)
      BY <1>4 DEF SubmitCustomerOrder, LeaveCustomerSession, TypeOK, Goto
    <2>3. ReadCookie(t) # None => ReadCookie(t) \in Opened'
      BY CookieKnown, KeptOpened
    <2>4. QED
      BY <2>1, <2>2, <2>3
  <1>5. CASE Guest(t)
    BY <1>1, <1>3, <1>4, <1>5 DEF Guest, FollowOldLink, OpenMenu, SubmitNothing
  <1>6. ASSUME ctx'[t] = ctx[t],
               \/ pc'[t] \in {"joinAnswer", "answer", "left"}
               \/ pc'[t] \in {"recheck", "consume", "rotate", "place"} /\
                  pc[t] \in {"recheck", "consume", "rotate", "place"}
        PROVE  Goal
    BY <1>0, <1>6 DEF AtTables
  <1>7. CASE ValidateSession(t)
    <2>1. CASE Refuse(t)
      BY <1>6, <2>1 DEF Refuse, Goto, TypeOK
    <2>2. CASE ~Refuse(t)
      <3>1. Valid(ctx[t].session) /\ pc'[t] = "recheck"
        BY <1>7, <2>2 DEF ValidateSession, Goto, TypeOK
      <3>2. ctx[t].session \in Opened
        BY <3>1, FieldTypes DEF Valid, OptSession, Opened
      <3>3. ctx'[t] = [ctx[t] EXCEPT !.table = sessions[ctx[t].session].table]
        BY <1>7, <2>2 DEF ValidateSession, TypeOK
      <3>4. sessions[ctx[t].session].table \in Table
        BY <3>2 DEF AtTables
      <3>5. ctx'[t].table \in Table /\ ctx'[t].session = ctx[t].session
        BY <3>3, <3>4 DEF TypeOK, Ctx
      <3>6. QED
        BY <1>0, <3>1, <3>5
    <2>3. QED
      BY <2>1, <2>2
  <1>8. CASE PlaceOrder(t)
    <2>1. pc'[t] = "answer" /\ ctx'[t].session = ctx[t].session
      BY <1>8 DEF PlaceOrder, Refuse, Goto, TypeOK, Ctx
    <2>2. QED
      BY <1>0, <2>1
  <1>9. CASE JoinRotate(t) \/ RecheckSession(t) \/ ConsumeCheckoutProof(t) \/ CheckoutRotate(t)
             \/ CloseSession(t)
    BY <1>6, <1>9 DEF JoinRotate, RecheckSession, ConsumeCheckoutProof, CheckoutRotate,
       CloseSession, Refuse, Goto, At, TypeOK
  <1>10. CASE JoinAnswer(t) \/ SubmitAnswer(t) \/ Left(t) \/ AnswerLost(t)
    BY <1>2, <1>10 DEF JoinAnswer, SubmitAnswer, Left, AnswerLost
  <1>11. CASE CallFails(t)
    <2>1. \/ Done(t)
          \/ pc'[t] \in {"answer", "left"} /\ ctx'[t].session = ctx[t].session
      BY <1>11 DEF CallFails, Goto, TypeOK, Ctx
    <2>2. QED
      BY <1>0, <1>2, <2>1
  <1>12. QED
    BY <1>5, <1>7, <1>8, <1>9, <1>10, <1>11 DEF Request, Serve, Join, Checkout

\* The cookie a browser gets names an opened session.
LEMMA CookieStep ==
  ASSUME TypeOK, KnownSessions, SessionsKept, Next, NEW b \in Browser, cookie'[b] # None
  PROVE  cookie'[b] \in Opened'
  <1>1. CASE cookie'[b] = cookie[b]
    BY <1>1, KeptOpened DEF KnownSessions
  <1>2. ASSUME NEW t \in Tab, JoinAnswer(t), cookie'[b] # cookie[b]
        PROVE  cookie'[b] \in Opened'
    <2>1. cookie'[b] = ctx[t].session
      BY <1>2 DEF JoinAnswer, TypeOK
    <2>2. QED
      BY <2>1, KeptOpened DEF KnownSessions
  <1>3. ASSUME NEW t \in Tab, Left(t) PROVE cookie'[b] = cookie[b]
    BY <1>3 DEF Left, TypeOK
  <1>4. ASSUME NEW t \in Tab, Guest(t) PROVE UNCHANGED cookie
    BY <1>4 DEF Guest, FollowLink, FollowOldLink, OpenMenu, SubmitNothing, SubmitCustomerOrder,
       LeaveCustomerSession
  <1>5. ASSUME NEW t \in Tab, Serve(t), ~JoinAnswer(t), ~Left(t) PROVE UNCHANGED cookie
    BY <1>5 DEF Serve, Join, Checkout, JoinRotate, ValidateSession, RecheckSession,
       ConsumeCheckoutProof, CheckoutRotate, PlaceOrder, SubmitAnswer, CloseSession, AnswerLost
  <1>6. CASE Store \/ (\E k \in Token : TokenExpires(k)) \/ (\E s \in Session : SessionExpires(s))
    BY <1>1, <1>6 DEF Store, Rotate, CloseBill, MoveBill, TokenExpires, SessionExpires
  <1>7. QED
    BY <1>1, <1>2, <1>3, <1>4, <1>5, <1>6 DEF Next, CallFails

\* A step of the store or of time leaves the requests alone.
StoreOrTime == Store \/ (\E k \in Token : TokenExpires(k)) \/ (\E s \in Session : SessionExpires(s))

\* Tables and sessions: that part of the invariant is inductive on its own.
LEMMA PlacesStep ==
  ASSUME TypeOK, AtTables, KnownSessions, Next
  PROVE  AtTables' /\ KnownSessions'
  <1>1. TypeOK' /\ TokensKept /\ NewTokensAtTables /\ SessionsKept /\ SessionsAtTables
    BY TypeStep, TokenStep, SessionStep
  <1>2. \A k \in Made' : tokens'[k].table \in Table
    BY <1>1 DEF AtTables, Made, TokensKept, NewTokensAtTables
  <1>3. \A s \in Opened' : sessions'[s].table \in Table
    BY <1>1 DEF Opened, SessionsAtTables
  <1>4. ASSUME NEW u \in Tab PROVE Located(u) /\ Named(u)
    <2>1. CASE pc'[u] = pc[u] /\ ctx'[u] = ctx[u]
      BY <1>1, <2>1, KeptOpened DEF Located, Named, AtTables, KnownSessions
    <2>2. ASSUME NEW t \in Tab, Request(t) PROVE Located(u) /\ Named(u)
      BY <1>1, <2>1, <2>2, OthersWait, RequestStep
    <2>3. CASE StoreOrTime
      BY <2>1, <2>3 DEF StoreOrTime, Store, Rotate, CloseBill, MoveBill, TokenExpires, SessionExpires
    <2>4. QED
      BY <2>2, <2>3 DEF Next, Request, StoreOrTime
  <1>5. AtTables'
    BY <1>2, <1>3, <1>4 DEF AtTables, Located
  <1>6. \A b \in Browser : cookie'[b] # None => cookie'[b] \in Opened'
    BY <1>1, CookieStep
  <1>7. QED
    BY <1>4, <1>5, <1>6 DEF KnownSessions, Named

-----------------------------------------------------------------------------
(* Proofs and orders. *)

\* What the invariant says of proofs, sessions and orders.
Proven ==
    /\ HeldAreGone
    /\ ProofIsReserved
    /\ NotOrderedYet
    /\ AnswersArePlaced
    /\ OneUsePerQr
    /\ ProvedAtItsTable

Underway == {"validate", "recheck", "consume", "rotate", "place"}

\* The request of a tab takes no proof and brings no order to an answer.
TabQuiet(u) ==
    \/ pc'[u] = pc[u] /\ ctx'[u] = ctx[u]
    \/ /\ pc'[u] \in {"rotate", "place"} => u \in Paying /\ ctx'[u] = ctx[u]
       /\ pc'[u] \in Underway \cup {"answer"} => ctx'[u].order = None

\* A step that neither joins, nor takes a proof, nor places an order.
Quiet ==
    /\ UNCHANGED orders
    /\ \A s \in Opened' : s \in Opened /\ sessions'[s].qr = sessions[s].qr
    /\ \A u \in Tab : TabQuiet(u)

\* Steps that are quiet keep what is proven.
LEMMA QuietKeeps ==
  ASSUME TypeOK, Proven, TokensKept, Quiet
  PROVE  Proven'
  <1> USE DEF Proven, Quiet
  <1>1. Placed' = Placed
    BY DEF Placed
  <1>2. \A k : Gone(k) => Gone(k)' /\ tokens'[k].table = tokens[k].table
    BY DEF Gone, TokensKept
  <1>3. \A u \in Paying' : u \in Paying /\ ctx'[u] = ctx[u]
    BY DEF Paying, TabQuiet
  <1>4. HeldAreGone'
    BY <1>1, <1>2, <1>3 DEF HeldAreGone
  <1>5. ProofIsReserved'
    BY <1>1, <1>3 DEF ProofIsReserved
  <1>6. NotOrderedYet'
    BY DEF NotOrderedYet, TabQuiet, Underway
  <1>7. AnswersArePlaced'
    BY <1>1 DEF AnswersArePlaced, TabQuiet
  <1>8. OneUsePerQr'
    BY <1>1 DEF OneUsePerQr
  <1>9. ProvedAtItsTable'
    BY <1>1, <1>2 DEF ProvedAtItsTable, HeldAreGone
  <1>10. QED
    BY <1>4, <1>5, <1>6, <1>7, <1>8, <1>9

\* The steps that are not quiet.
Takes(t) == ConsumeCheckoutProof(t) /\ pc'[t] = "rotate"
Orders(t) == PlaceOrder(t) /\ ~Refuse(t)

\* Every other step of a tab is quiet for that tab.
LEMMA TabStep ==
  ASSUME TypeOK, NotOrderedYet, NEW t \in Tab, Request(t),
         ~\E k \in Token : FollowLink(t, k), ~Takes(t), ~Orders(t)
  PROVE  TabQuiet(t) /\ UNCHANGED orders
  <1> USE DEF TabQuiet, Underway
  <1>1. ASSUME Done(t) PROVE TabQuiet(t)
    BY <1>1 DEF Done, Goto, TypeOK
  <1>2. CASE Guest(t)
    <2>1. ASSUME NEW k \in OptToken, SubmitCustomerOrder(t, k) PROVE TabQuiet(t)
      BY <2>1 DEF SubmitCustomerOrder, Goto, NoCtx, TypeOK
    <2>2. ASSUME LeaveCustomerSession(t) PROVE TabQuiet(t)
      BY <2>2 DEF LeaveCustomerSession, Goto, TypeOK
    <2>3. QED
      BY <1>2, <2>1, <2>2 DEF Guest, FollowOldLink, OpenMenu, SubmitNothing, SubmitCustomerOrder,
         LeaveCustomerSession, api
  <1>3. CASE Refuse(t) /\ pc[t] \in Underway
    BY <1>3 DEF Refuse, Goto, NotOrderedYet, TypeOK, api
  <1>4. CASE ValidateSession(t)
    <2>1. CASE Refuse(t)
      BY <1>3, <1>4, <2>1 DEF ValidateSession, At
    <2>2. CASE ~Refuse(t)
      <3>1. ctx'[t] = [ctx[t] EXCEPT !.table = sessions[ctx[t].session].table]
        BY <1>4, <2>2 DEF ValidateSession, TypeOK
      <3>2. ctx'[t].order = None
        BY <1>4, <3>1 DEF ValidateSession, At, NotOrderedYet, TypeOK, Ctx
      <3>3. pc'[t] = "recheck" /\ UNCHANGED orders
        BY <1>4, <2>2 DEF ValidateSession, Goto, TypeOK, api
      <3>4. QED
        BY <3>2, <3>3
    <2>3. QED
      BY <2>1, <2>2
  <1>5. CASE RecheckSession(t)
    BY <1>3, <1>5 DEF RecheckSession, At, Goto, NotOrderedYet, TypeOK, api
  <1>6. CASE ConsumeCheckoutProof(t)
    BY <1>3, <1>6 DEF ConsumeCheckoutProof, Takes, At, Goto, TypeOK, api
  <1>7. CASE CheckoutRotate(t)
    BY <1>7 DEF CheckoutRotate, At, Goto, Paying, NotOrderedYet, TypeOK
  <1>8. CASE PlaceOrder(t)
    BY <1>3, <1>8 DEF PlaceOrder, Orders, At
  <1>9. CASE JoinRotate(t) \/ CloseSession(t)
    BY <1>9 DEF JoinRotate, CloseSession, Goto, TypeOK
  <1>10. CASE JoinAnswer(t) \/ SubmitAnswer(t) \/ Left(t) \/ AnswerLost(t)
    BY <1>1, <1>10 DEF JoinAnswer, SubmitAnswer, Left, AnswerLost, api
  <1>11. CASE CallFails(t)
    BY <1>1, <1>11 DEF CallFails, Goto, TypeOK, Ctx, api
  <1>12. QED
    BY <1>2, <1>4, <1>5, <1>6, <1>7, <1>8, <1>9, <1>10, <1>11 DEF Request, Serve, Join, Checkout

\* A token that is fresh is held by nobody.
LEMMA FreshIsFree ==
  ASSUME Proven, NEW k \in Token, Fresh(k)
  PROVE  /\ \A o \in Placed : orders[o].proof # k
         /\ \A s \in Opened : sessions[s].qr # k
         /\ \A u \in Paying : ctx[u].token # k
  BY DEF Proven, HeldAreGone, Gone, Fresh

\* Following a link keeps what is proven.
LEMMA JoinKeeps ==
  ASSUME TypeOK, Proven, TokensKept, NEW t \in Tab, NEW k \in Token, FollowLink(t, k)
  PROVE  Proven'
  <1> USE DEF Proven
  <1> DEFINE s == CHOOSE i \in Session : i \notin Opened
  <1>1. s \in Session /\ s \notin Opened /\ sessions' = [sessions EXCEPT ![s] =
           [state |-> "open", over |-> FALSE, table |-> tokens[k].table, qr |-> k]]
    BY DEF FollowLink
  <1> HIDE DEF s
  <1>2. \A i \in Opened' : \/ i = s /\ sessions'[i].qr = k
                           \/ i \in Opened /\ sessions'[i].qr = sessions[i].qr
    BY <1>1 DEF Opened, TypeOK
  <1>3. Placed' = Placed /\ UNCHANGED orders
    BY DEF FollowLink, Placed
  <1>4. \A i : Gone(i) => Gone(i)' /\ tokens'[i].table = tokens[i].table
    BY DEF Gone, TokensKept
  <1>5. Gone(k)'
    BY SpendEffect DEF Gone, FollowLink
  <1>6. pc'[t] = "joinRotate" /\ \A u \in Tab : u # t => pc'[u] = pc[u] /\ ctx'[u] = ctx[u]
    BY DEF FollowLink, Goto, TypeOK
  <1>7. \A u \in Paying' : u \in Paying /\ ctx'[u] = ctx[u]
    BY <1>6 DEF Paying
  <1>8. HeldAreGone'
    BY <1>2, <1>3, <1>4, <1>5, <1>7 DEF HeldAreGone
  <1>9. ProofIsReserved'
    <2>1. Fresh(k)
      BY DEF FollowLink
    <2>2. \A u \in Paying : ctx[u].token # k
      BY <2>1, FreshIsFree
    <2>3. \A u \in Paying, i \in Opened' : sessions'[i].qr # ctx[u].token
      BY <1>2, <2>2 DEF ProofIsReserved
    <2>4. QED
      BY <1>3, <1>7, <2>3 DEF ProofIsReserved
  <1>10. NotOrderedYet'
    BY <1>6 DEF NotOrderedYet
  <1>11. AnswersArePlaced'
    BY <1>3, <1>6 DEF AnswersArePlaced
  <1>12. OneUsePerQr'
    BY <1>2, <1>3, FreshIsFree DEF OneUsePerQr, FollowLink
  <1>13. ProvedAtItsTable'
    BY <1>3, <1>4 DEF ProvedAtItsTable, HeldAreGone
  <1>14. QED
    BY <1>8, <1>9, <1>10, <1>11, <1>12, <1>13

\* Consuming the proof of an order keeps what is proven.
LEMMA TakeKeeps ==
  ASSUME TypeOK, Proven, TokensKept, NEW t \in Tab, Takes(t)
  PROVE  Proven'
  <1> USE DEF Proven
  <1> DEFINE k == ctx[t].token
  <1>1. /\ Fresh(k) /\ tokens[k].table = ctx[t].table /\ tokens' = Spend(k)
        /\ UNCHANGED <<sessions, orders, ctx>>
    BY DEF Takes, ConsumeCheckoutProof, Refuse, Goto, TypeOK, api
  <1>2. k \in Token
    BY <1>1, FieldTypes DEF Fresh, OptToken
  <1>3. pc' = [pc EXCEPT ![t] = "rotate"] /\ pc[t] = "consume"
    BY DEF Takes, ConsumeCheckoutProof, Refuse, Goto, TypeOK, At
  <1>4. Gone(k)' /\ tokens'[k].table = ctx[t].table
    BY <1>1, <1>2, SpendEffect DEF Gone
  <1>5. \A i : Gone(i) => Gone(i)' /\ tokens'[i].table = tokens[i].table
    BY DEF Gone, TokensKept
  <1>6. Placed' = Placed /\ Opened' = Opened
    BY <1>1 DEF Placed, Opened
  <1>7. Paying' = Paying \cup {t}
    BY <1>3 DEF Paying, TypeOK
  <1>8. HeldAreGone'
    BY <1>1, <1>4, <1>5, <1>6, <1>7 DEF HeldAreGone
  <1>9. ProofIsReserved'
    BY <1>1, <1>2, <1>6, <1>7, FreshIsFree DEF ProofIsReserved
  <1>10. NotOrderedYet' /\ AnswersArePlaced'
    BY <1>1, <1>3, <1>6 DEF NotOrderedYet, AnswersArePlaced, TypeOK
  <1>11. OneUsePerQr' /\ ProvedAtItsTable'
    BY <1>1, <1>5, <1>6 DEF OneUsePerQr, ProvedAtItsTable, HeldAreGone
  <1>12. QED
    BY <1>8, <1>9, <1>10, <1>11

\* Placing an order keeps what is proven.
LEMMA OrderKeeps ==
  ASSUME TypeOK, Proven, NEW t \in Tab, Orders(t)
  PROVE  Proven'
  <1> USE DEF Proven
  <1> DEFINE o == CHOOSE i \in Order : i \notin Placed
  <1>1. /\ o \in Order /\ o \notin Placed
        /\ orders' = [orders EXCEPT ![o] = [placed |-> TRUE, session |-> ctx[t].session,
                                            table |-> ctx[t].table, proof |-> ctx[t].token]]
        /\ ctx' = [ctx EXCEPT ![t].order = o] /\ UNCHANGED <<tokens, sessions>>
    BY DEF Orders, PlaceOrder
  <1>2. pc' = [pc EXCEPT ![t] = "answer"] /\ t \in Paying
    BY DEF Orders, PlaceOrder, Goto, At, Paying
  <1> HIDE DEF o
  <1>3. Placed' = Placed \cup {o} /\ Opened' = Opened
    BY <1>1 DEF Placed, Opened, TypeOK
  <1>4. /\ orders'[o].proof = ctx[t].token /\ orders'[o].session = ctx[t].session
        /\ orders'[o].table = ctx[t].table
        /\ \A i \in Placed : orders'[i] = orders[i]
    BY <1>1 DEF TypeOK, Placed
  <1>5. Paying' = Paying \ {t} /\ \A u \in Tab : u # t => pc'[u] = pc[u] /\ ctx'[u] = ctx[u]
    BY <1>1, <1>2 DEF Paying, TypeOK
  <1>6. /\ pc'[t] = "answer" /\ ctx'[t].order = o
        /\ ctx'[t].token = ctx[t].token /\ ctx'[t].session = ctx[t].session
    BY <1>1, <1>2 DEF TypeOK, Ctx
  <1>7. \A i : Gone(i)' = Gone(i)
    BY <1>1 DEF Gone
  <1>8. HeldAreGone'
    BY <1>1, <1>2, <1>3, <1>4, <1>5, <1>7 DEF HeldAreGone, Paying
  <1>9. ProofIsReserved'
    BY <1>1, <1>2, <1>3, <1>4, <1>5 DEF ProofIsReserved, Paying
  <1>10. NotOrderedYet'
    BY <1>5, <1>6 DEF NotOrderedYet
  <1>11. AnswersArePlaced'
    BY <1>3, <1>4, <1>5, <1>6 DEF AnswersArePlaced
  <1>12. OneUsePerQr'
    BY <1>1, <1>2, <1>3, <1>4 DEF OneUsePerQr, ProofIsReserved
  <1>13. ProvedAtItsTable'
    BY <1>1, <1>2, <1>3, <1>4 DEF ProvedAtItsTable, HeldAreGone
  <1>14. QED
    BY <1>8, <1>9, <1>10, <1>11, <1>12, <1>13

-----------------------------------------------------------------------------
(* The invariant. *)

\* It holds at the start.
LEMMA InitInv == Init => IInv
  <1> SUFFICES ASSUME Init PROVE IInv
    OBVIOUS
  <1>1. TypeOK
    BY NoCtxType DEF Init, TypeOK, TokenRow, SessionRow, OrderRow, Page, Labels, OptTable, OptToken,
       OptSession, NoToken, NoSession, NoOrder, Home
  <1>2. Made = {} /\ Opened = {} /\ Placed = {} /\ Paying = {}
    BY DEF Init, Made, Opened, Placed, Paying, NoToken, NoSession, NoOrder
  <1>3. AtTables /\ KnownSessions
    BY <1>2 DEF Init, AtTables, KnownSessions, NoCtx
  <1>4. Proven
    BY <1>2 DEF Init, Proven, HeldAreGone, ProofIsReserved, NotOrderedYet, AnswersArePlaced,
       OneUsePerQr, ProvedAtItsTable
  <1>5. QED
    BY <1>1, <1>3, <1>4 DEF IInv, Proven

\* Every step keeps it.
LEMMA NextInv == IInv /\ [Next]_vars => IInv'
  <1> SUFFICES ASSUME IInv, [Next]_vars PROVE IInv'
    OBVIOUS
  <1> USE DEF IInv, Proven
  <1>1. CASE UNCHANGED vars
    BY <1>1 DEF vars, TypeOK, AtTables, KnownSessions, HeldAreGone, ProofIsReserved, NotOrderedYet,
       AnswersArePlaced, OneUsePerQr, ProvedAtItsTable, Made, Opened, Placed, Paying, Gone
  <1>2. CASE Next
    <2>1. TypeOK' /\ AtTables' /\ KnownSessions' /\ TokensKept /\ SessionsKept /\ SessionsByLinks
      BY <1>2, TypeStep, PlacesStep, TokenStep, SessionStep
    <2>2. CASE \E t \in Tab, k \in Token : FollowLink(t, k)
      BY <2>1, <2>2, JoinKeeps
    <2>3. CASE ~\E t \in Tab, k \in Token : FollowLink(t, k)
      <3>1. \A s \in Opened' : s \in Opened /\ sessions'[s].qr = sessions[s].qr
        BY <2>1, <2>3 DEF SessionsKept, SessionsByLinks, Opened
      <3>2. ASSUME NEW t \in Tab, Request(t) PROVE Proven'
        <4>1. CASE Takes(t)
          BY <2>1, <4>1, TakeKeeps
        <4>2. CASE Orders(t)
          BY <4>2, OrderKeeps
        <4>3. CASE ~Takes(t) /\ ~Orders(t)
          <5>1. TabQuiet(t) /\ UNCHANGED orders
            BY <2>3, <3>2, <4>3, TabStep
          <5>2. \A u \in Tab : TabQuiet(u)
            BY <3>2, <5>1, OthersWait DEF TabQuiet
          <5>3. QED
            BY <2>1, <3>1, <5>1, <5>2, QuietKeeps DEF Quiet
        <4>4. QED
          BY <4>1, <4>2, <4>3
      <3>3. CASE StoreOrTime
        <4>1. UNCHANGED <<orders, pc, ctx>>
          BY <3>3 DEF StoreOrTime, Store, Rotate, CloseBill, MoveBill, TokenExpires, SessionExpires
        <4>2. QED
          BY <2>1, <3>1, <4>1, QuietKeeps DEF Quiet, TabQuiet
      <3>4. QED
        BY <1>2, <2>1, <3>2, <3>3 DEF Next, Request, StoreOrTime
    <2>4. QED
      BY <2>1, <2>2, <2>3
  <1>3. QED
    BY <1>1, <1>2

\* The invariant, for every value of the constants.
THEOREM VisitInvariance == Spec => []IInv
  BY InitInv, NextInv, PTL DEF Spec

\* Every variable has its type.
THEOREM VisitTypeCorrect == Spec => []TypeOK
  <1>1. IInv => TypeOK
    BY DEF IInv
  <1>2. QED
    BY <1>1, VisitInvariance, PTL

\* A QR admits one guest or proves one order (ConsumeTokenAsync).
THEOREM QrUsedOnce == Spec => []OneUsePerQr
  <1>1. IInv => OneUsePerQr
    BY DEF IInv
  <1>2. QED
    BY <1>1, VisitInvariance, PTL

\* An order goes to the table whose QR proves it (CreateOrder).
THEOREM OrdersProved == Spec => []ProvedAtItsTable
  <1>1. IInv => ProvedAtItsTable
    BY DEF IInv
  <1>2. QED
    BY <1>1, VisitInvariance, PTL

-----------------------------------------------------------------------------
(* The action properties. *)

\* A request that passes the checks of CreateOrder in a step has a session that
\* was valid before it.
LEMMA CheckedStep ==
  ASSUME TypeOK, [Next]_vars, NEW s \in Opened, ~Valid(s), NEW u \in Tab,
         ctx'[u].session = s, pc'[u] \in {"consume", "rotate", "place"}
  PROVE  ctx[u].session = s /\ pc[u] \in {"consume", "rotate", "place"}
  <1> DEFINE Goal == ctx[u].session = s /\ pc[u] \in {"consume", "rotate", "place"}
  <1>1. CASE pc'[u] = pc[u] /\ ctx'[u] = ctx[u]
    BY <1>1
  <1>2. CASE ctx'[u] = ctx[u] /\ pc[u] \in {"consume", "rotate", "place"}
    BY <1>2
  <1>3. CASE Guest(u)
    BY <1>1, <1>3 DEF Guest, FollowLink, FollowOldLink, OpenMenu, SubmitNothing, SubmitCustomerOrder,
       LeaveCustomerSession, Goto, TypeOK
  <1>4. CASE Join(u) \/ CloseSession(u) \/ Left(u) \/ AnswerLost(u)
    BY <1>4 DEF Join, JoinRotate, JoinAnswer, CloseSession, Left, AnswerLost, Done, Goto, TypeOK
  <1>5. CASE ValidateSession(u) \/ PlaceOrder(u) \/ SubmitAnswer(u)
    BY <1>5 DEF ValidateSession, PlaceOrder, SubmitAnswer, Refuse, Done, Goto, TypeOK
  <1>6. CASE RecheckSession(u)
    BY <1>6 DEF RecheckSession, Refuse, Goto, TypeOK
  <1>7. CASE ConsumeCheckoutProof(u) \/ CheckoutRotate(u)
    BY <1>2, <1>7 DEF ConsumeCheckoutProof, CheckoutRotate, Refuse, At
  <1>8. CASE CallFails(u)
    BY <1>8 DEF CallFails, Done, Goto, TypeOK
  <1>9. ASSUME NEW t \in Tab, Request(t), t # u PROVE Goal
    BY <1>1, <1>9, OthersWait
  <1>10. CASE UNCHANGED vars \/ StoreOrTime
    BY <1>1, <1>10 DEF vars, StoreOrTime, Store, Rotate, CloseBill, MoveBill, TokenExpires,
       SessionExpires
  <1>11. CASE Request(u)
    BY <1>3, <1>4, <1>5, <1>6, <1>7, <1>8, <1>11 DEF Request, Serve, Checkout
  <1>12. QED
    BY <1>9, <1>10, <1>11 DEF Next, Request, StoreOrTime

\* A session that has ended places nothing but what was checked before it ended
\* (CreateOrder).
THEOREM EndedPlaceNothing == Spec => EndedSessionsAreRefused
  <1>1. TypeOK /\ [Next]_vars =>
           [\A s \in Opened : ~Valid(s) => Checked(s)' \subseteq Checked(s)]_vars
    BY CheckedStep DEF Checked
  <1>2. QED
    BY <1>1, VisitTypeCorrect, PTL DEF Spec, EndedSessionsAreRefused

\* A tab whose page begins to say that an order was sent has got an answer that
\* carries one.
LEMMA SentStep ==
  ASSUME TypeOK, [Next]_vars, NEW u \in Tab, tabs'[u].sent, ~tabs[u].sent
  PROVE  pc[u] = "answer" /\ ctx[u].order # None
  <1> DEFINE Goal == pc[u] = "answer" /\ ctx[u].order # None
  <1> USE DEF TypeOK, Page
  <1>1. tabs'[u] # tabs[u] /\ tabs'[u] # Home /\ tabs'[u] # Menu
    BY DEF Home, Menu
  <1>2. ASSUME NEW t \in Tab, NEW page, Show(t, page), t # u \/ page \in {Home, Menu} PROVE Goal
    BY <1>1, <1>2 DEF Show
  <1>3. ASSUME NEW t \in Tab, Guest(t) PROVE Goal
    <2>1. CASE (\E k \in Token : FollowLink(t, k)) \/ FollowOldLink(t) \/ OpenMenu(t)
      BY <1>2, <2>1 DEF FollowLink, FollowOldLink, OpenMenu, MenuPage
    <2>2. CASE SubmitNothing(t)
      BY <2>2 DEF SubmitNothing
    <2>3. CASE (\E k \in OptToken : SubmitCustomerOrder(t, k)) \/ LeaveCustomerSession(t)
      BY <1>1, <2>3 DEF SubmitCustomerOrder, LeaveCustomerSession
    <2>4. QED
      BY <1>3, <2>1, <2>2, <2>3 DEF Guest
  <1>4. ASSUME NEW t \in Tab, JoinAnswer(t) \/ Left(t) \/ AnswerLost(t) PROVE Goal
    BY <1>2, <1>4 DEF JoinAnswer, Left, AnswerLost, MenuPage
  <1>5. ASSUME NEW t \in Tab, SubmitAnswer(t) PROVE Goal
    <2>1. CASE t # u
      BY <1>2, <1>5, <2>1 DEF SubmitAnswer
    <2>2. CASE t = u
      <3>1. \/ Show(u, Home)
            \/ Show(u, [tabs[u] EXCEPT !.sent = (ctx[u].order # None)])
        BY <1>5, <2>2 DEF SubmitAnswer
      <3>2. CASE Show(u, Home)
        BY <1>2, <3>2
      <3>3. CASE Show(u, [tabs[u] EXCEPT !.sent = (ctx[u].order # None)])
        BY <1>5, <2>2, <3>3 DEF Show, SubmitAnswer, At
      <3>4. QED
        BY <3>1, <3>2, <3>3
    <2>3. QED
      BY <2>1, <2>2
  <1>6. ASSUME NEW t \in Tab, Serve(t), tabs' # tabs
        PROVE  JoinAnswer(t) \/ Left(t) \/ AnswerLost(t) \/ SubmitAnswer(t)
    BY <1>6 DEF Serve, Join, Checkout, JoinRotate, ValidateSession, RecheckSession,
       ConsumeCheckoutProof, CheckoutRotate, PlaceOrder, CloseSession
  <1>7. ASSUME NEW t \in Tab, CallFails(t) PROVE Goal
    BY <1>1, <1>2, <1>7 DEF CallFails
  <1>8. CASE UNCHANGED vars \/ StoreOrTime
    BY <1>1, <1>8 DEF vars, StoreOrTime, Store, Rotate, CloseBill, MoveBill, TokenExpires,
       SessionExpires
  <1>9. QED
    BY <1>1, <1>3, <1>4, <1>5, <1>6, <1>7, <1>8 DEF Next, StoreOrTime

\* "Sent" is said only of an order that is placed with the proof entered for it
\* (submitCustomerOrderAction).
THEOREM SentIsPlaced == Spec => SentMeansPlaced
  <1>1. IInv /\ [Next]_vars =>
           [\A t \in Tab : tabs'[t].sent /\ ~tabs[t].sent
               => \E o \in Placed : orders[o].proof = ctx[t].token
                                    /\ orders[o].session = ctx[t].session]_vars
    BY SentStep DEF IInv, AnswersArePlaced
  <1>2. QED
    BY <1>1, VisitInvariance, PTL DEF Spec, SentMeansPlaced
=============================================================================
