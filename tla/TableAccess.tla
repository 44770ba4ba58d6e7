----------------------------- MODULE TableAccess -----------------------------
(***************************************************************************)
(* The QR tokens of a table and the display that shows them: rotation and  *)
(* consumption of tokens (TableTokenService.cs), the requests that need a  *)
(* token (TenantEndpoints.cs), the handler of a display's WebSocket        *)
(* (DeviceWebSocketEndpoint.cs), the registry of connections               *)
(* (DeviceConnectionRegistry.cs) and the display itself (firmware.ino).    *)
(* Tables share nothing here, so the module models one active table.       *)
(*                                                                         *)
(* A request and the handler of a connection are processes with a program  *)
(* counter.  Both rotate the token of the table and send it to the display *)
(* that is registered at that moment, which need not be the one that asked *)
(* for it.  Statements and registry calls of different processes           *)
(* interleave.  A statement that writes the row of a token waits for the   *)
(* transaction that has written it.                                        *)
(***************************************************************************)
EXTENDS Naturals, Sequences, FiniteSetsExt

CONSTANTS
    Request,      \* slots for requests the API serves at the same time
    Conn,         \* slots for connections of displays
    MaxTokens,    \* bound: tokens ever made
    MaxFaults,    \* bound: links that break, displays that restart, requests cut off
    None

ASSUME TokensAssumption == MaxTokens \in Nat
ASSUME FaultsAssumption == MaxFaults \in Nat
ASSUME SlotsAssumption  == Request \cap Conn = {} /\ None \notin Request \cup Conn

VARIABLES
    tokens,     \* table_tokens, numbered in the order they are inserted
    scanned,    \* tokens a guest's phone has read from the display, while they are active
    pc, ctx,    \* next statement and locals of a process
    registry,   \* _connections: the connection of the table's display
    sockets,    \* a connection as the server sees it
    device,     \* the display
    faults

vars == <<tokens, scanned, pc, ctx, registry, sockets, device, faults>>

Token    == 1..MaxTokens
OptToken == 0..MaxTokens
Process  == Request \cup Conn

\* over: expires_at has passed; consumed_at was set by a proof (used) or by a
\* rotation (withdrawn).
TokenState == {"none", "fresh", "over", "used", "withdrawn"}
Labels   == {"idle", "consumed", "read", "save", "send", "check", "remove",
             "accept", "replace", "register", "loop"}
Ctx      == [local : BOOLEAN,               \* the proof is for this table
             token : OptToken,              \* token consumed, then token made
             seen  : SUBSET Token,          \* activeTokens of RotateAsync
             other : Conn \cup {None}]      \* connection to be replaced or removed
Socket   == [state : {"closed", "open", "closing"},   \* closing: close frame sent
             inbox : Seq(Token)]                      \* new_token messages on their way
Device   == [conn  : Conn \cup {None},      \* ws_connected
             ready : BOOLEAN,               \* token_ready
             shown : OptToken,              \* active_url
             once  : BOOLEAN,               \* token_received_once
             rejoin : BOOLEAN]              \* connectWifi has just returned

NoCtx    == [local |-> TRUE, token |-> 0, seen |-> {}, other |-> None]
NoSocket == [state |-> "closed", inbox |-> <<>>]
Started  == [conn |-> None, ready |-> FALSE, shown |-> 0, once |-> FALSE, rejoin |-> TRUE]

TypeOK ==
    /\ tokens \in [Token -> TokenState]
    /\ scanned \subseteq Token
    /\ pc \in [Process -> Labels]
    /\ ctx \in [Process -> Ctx]
    /\ registry \in Conn \cup {None}
    /\ sockets \in [Conn -> Socket]
    /\ device \in Device
    /\ faults \in 0..MaxFaults

Init ==
    /\ tokens = [k \in Token |-> "none"]
    /\ scanned = {}
    /\ pc = [p \in Process |-> "idle"]
    /\ ctx = [p \in Process |-> NoCtx]
    /\ registry = None
    /\ sockets = [c \in Conn |-> NoSocket]
    /\ device = Started
    /\ faults = 0

Fault == faults < MaxFaults /\ faults' = faults + 1

At(p, label)   == pc[p] = label
Goto(p, label) == pc' = [pc EXCEPT ![p] = label]

-----------------------------------------------------------------------------
(* Tokens. *)

Active(k) == tokens[k] = "fresh"
Made      == {k \in Token : tokens[k] # "none"}

\* Rows written by transactions that have not ended.
Held == {ctx[p].token : p \in {q \in Process : At(q, "consumed")}}

\* Bound: a request starts while MaxTokens leaves a token for every rotation under way.
Rotating == {p \in Process : pc[p] \in {"consumed", "accept", "replace", "register", "read", "save"}}
Room     == Cardinality(Made) + Cardinality(Rotating) < MaxTokens

\* Mutant: the token is looked up first and updated without looking again.
ConsumeTokenUnlocked(r, local, k) ==
    /\ At(r, "idle") /\ Room /\ k \in scanned /\ Active(k)
    /\ ctx' = [ctx EXCEPT ![r] = [NoCtx EXCEPT !.local = local, !.token = k]]
    /\ Goto(r, "consumed")
    /\ UNCHANGED <<tokens, scanned, registry, sockets, device, faults>>

\* The update of a join or of an order; a guest of another table may submit the
\* QR of this one with an order (local is FALSE).
\* A token that is not active is refused and nothing changes.
ConsumeToken(r, local, k) ==
    /\ At(r, "idle") /\ Room
    /\ k \in scanned /\ k \notin Held
    /\ Active(k)
    /\ ctx' = [ctx EXCEPT ![r] = [NoCtx EXCEPT !.local = local, !.token = k]]
    /\ Goto(r, "consumed")
    /\ UNCHANGED <<tokens, scanned, registry, sockets, device, faults>>

\* The proof is accepted, or rolled back when it is for another table.
EndProof(r) ==
    LET k == ctx[r].token
    IN  /\ At(r, "consumed")
        /\ IF ctx[r].local
           THEN /\ Goto(r, "read")
                /\ tokens' = [tokens EXCEPT ![k] = "used"]
                /\ scanned' = scanned \ {k}
           ELSE Goto(r, "idle") /\ UNCHANGED <<tokens, scanned>>
        /\ ctx' = [ctx EXCEPT ![r] = NoCtx]
        /\ UNCHANGED <<registry, sockets, device, faults>>

RefreshDeviceToken(r) ==
    /\ At(r, "idle") /\ Room
    /\ Goto(r, "read")
    /\ UNCHANGED <<tokens, scanned, ctx, registry, sockets, device, faults>>

RotateRead(p) ==
    /\ At(p, "read")
    /\ ctx' = [ctx EXCEPT ![p].seen = {k \in Token : Active(k)}]
    /\ Goto(p, "save")
    /\ UNCHANGED <<tokens, scanned, registry, sockets, device, faults>>

Withdrawn(S) == [k \in Token |-> IF k \in S /\ tokens[k] # "used" THEN "withdrawn" ELSE tokens[k]]

\* Mutant: the new token is inserted before the active ones are withdrawn.
RotateSaveInsertFirst(p) ==
    LET new == Cardinality(Made) + 1
    IN  /\ At(p, "save") /\ new \in Token /\ ctx[p].seen \cap Held = {}
        /\ tokens' = Withdrawn({k \in Token : Active(k)} \cup {new})
        /\ scanned' = {}
        /\ ctx' = [ctx EXCEPT ![p].token = new, ![p].seen = {}]
        /\ Goto(p, "send")
        /\ UNCHANGED <<registry, sockets, device, faults>>

\* The tokens that were active when they were read are withdrawn.
RotateSave(p) ==
    LET new == Cardinality(Made) + 1
    IN  /\ At(p, "save") /\ new \in Token   \* bound: MaxTokens
        /\ ctx[p].seen \cap Held = {}
        /\ tokens' = [Withdrawn(ctx[p].seen) EXCEPT ![new] = "fresh"]
        /\ scanned' = scanned \ ctx[p].seen
        /\ ctx' = [ctx EXCEPT ![p].token = new, ![p].seen = {}]
        /\ Goto(p, "send")
        /\ UNCHANGED <<registry, sockets, device, faults>>

TokenExpires(k) ==
    /\ Active(k)
    /\ tokens' = [tokens EXCEPT ![k] = "over"]
    /\ scanned' = scanned \ {k}
    /\ UNCHANGED <<pc, ctx, registry, sockets, device, faults>>

-----------------------------------------------------------------------------
(* The registry. *)

\* What a process goes on with: a request is done (an order is placed next, by a
\* statement of another module), a handler waits for messages.
Resume(p) ==
    IF p \in Request THEN Goto(p, "idle") /\ ctx' = [ctx EXCEPT ![p] = NoCtx]
    ELSE Goto(p, "loop") /\ ctx' = [ctx EXCEPT ![p].token = 0, ![p].other = None]

\* To the display that is registered now, if any.  A message to a display that
\* is gone unnoticed is lost.
SendJson(p) ==
    /\ At(p, "send")
    /\ CASE registry = None -> Resume(p) /\ UNCHANGED sockets
         [] registry # None /\ sockets[registry].state = "open" ->
                /\ Resume(p)
                /\ sockets' = [sockets EXCEPT ![registry].inbox =
                                  IF device.conn = registry THEN Append(@, ctx[p].token) ELSE @]
         [] OTHER ->
                /\ Goto(p, "check") /\ ctx' = [ctx EXCEPT ![p].other = registry]
                /\ UNCHANGED sockets
    /\ UNCHANGED <<tokens, scanned, registry, device, faults>>

\* The end of Disconnect: a sender goes on, the handler of the connection is done.
Disconnected(p) ==
    IF ctx[p].other = p
    THEN /\ Goto(p, "idle") /\ ctx' = [ctx EXCEPT ![p] = NoCtx]
         /\ sockets' = [sockets EXCEPT ![p] = NoSocket]
    ELSE Resume(p) /\ UNCHANGED sockets

DisconnectCheck(p) ==
    /\ At(p, "check")
    /\ IF registry = ctx[p].other THEN Goto(p, "remove") /\ UNCHANGED <<ctx, sockets>>
       ELSE Disconnected(p)
    /\ UNCHANGED <<tokens, scanned, registry, device, faults>>

\* Whatever is registered by now is removed.
DisconnectRemove(p) ==
    /\ At(p, "remove")
    /\ registry' = None
    /\ Disconnected(p)
    /\ UNCHANGED <<tokens, scanned, device, faults>>

-----------------------------------------------------------------------------
(* The handler of a connection. *)

\* ConnectAsync looks for the connection to replace and sends it a close frame.
LookUpPrevious(c) ==
    /\ At(c, "accept")
    /\ IF registry = None
       THEN Goto(c, "register") /\ UNCHANGED <<ctx, sockets>>
       ELSE /\ Goto(c, "replace") /\ ctx' = [ctx EXCEPT ![c].other = registry]
            /\ sockets' = [sockets EXCEPT ![registry].state = IF @ = "open" THEN "closing" ELSE @]
    /\ UNCHANGED <<tokens, scanned, registry, device, faults>>

\* CloseAsync returns when the other side has answered, and throws when one of
\* the two connections is lost: both go on.
PreviousClosed(c) ==
    /\ At(c, "replace")
    /\ "closed" \in {sockets[ctx[c].other].state, sockets[c].state}
    /\ Goto(c, "register") /\ ctx' = [ctx EXCEPT ![c].other = None]
    /\ UNCHANGED <<tokens, scanned, registry, sockets, device, faults>>

\* Mutant: the handler sends the token before it rotates.
RegisterWithoutRotation(c) ==
    /\ At(c, "register")
    /\ registry' = c
    /\ Goto(c, "send")
    /\ UNCHANGED <<tokens, scanned, ctx, sockets, device, faults>>

Register(c) ==
    /\ At(c, "register")
    /\ registry' = c
    /\ Goto(c, "read")
    /\ UNCHANGED <<tokens, scanned, ctx, sockets, device, faults>>

\* Mutant: the connection is only removed when the handler ends in its loop.
HandlerEndsWithoutFinally(c) ==
    /\ pc[c] \in {"read", "save", "send", "loop"} /\ sockets[c].state = "closed"
    /\ IF At(c, "loop") THEN Goto(c, "check") /\ ctx' = [ctx EXCEPT ![c].other = c]
       ELSE Goto(c, "idle") /\ ctx' = [ctx EXCEPT ![c] = NoCtx]
    /\ UNCHANGED <<tokens, scanned, registry, sockets, device, faults>>

\* The connection is over, in the loop or at an await before it: finally.
HandlerEnds(c) ==
    /\ pc[c] \in {"read", "save", "send", "loop"} /\ sockets[c].state = "closed"
    /\ Goto(c, "check") /\ ctx' = [ctx EXCEPT ![c].other = c]
    /\ UNCHANGED <<tokens, scanned, registry, sockets, device, faults>>

ServerNotices(c) ==
    /\ device.conn # c /\ sockets[c].state # "closed"
    /\ sockets' = [sockets EXCEPT ![c].state = "closed"]
    /\ UNCHANGED <<tokens, scanned, pc, ctx, registry, device, faults>>

-----------------------------------------------------------------------------
(* The display. *)

\* resetWsState, and the messages that were on their way.
Lost    == [device EXCEPT !.conn = None, !.ready = @ /\ device.once,
                          !.shown = IF device.once THEN @ ELSE 0]
Cut(c)  == IF c = None THEN sockets ELSE [sockets EXCEPT ![c].inbox = <<>>]

\* A slot is free when its handler has ended and nobody refers to it any more.
FreeConn(c) == At(c, "idle") /\ registry # c /\ \A p \in Process : ctx[p].other # c

\* Mutant: only a display whose QR has expired connects.
ConnectWsExpiredOnly(c) ==
    /\ device.conn = None /\ device.ready /\ ~Active(device.shown)
    /\ FreeConn(c)
    /\ device' = [device EXCEPT !.conn = c, !.once = FALSE, !.rejoin = FALSE]
    /\ sockets' = [sockets EXCEPT ![c] = [state |-> "open", inbox |-> <<>>]]
    /\ Goto(c, "accept")
    /\ UNCHANGED <<tokens, scanned, ctx, registry, faults>>

\* Without a connection, a display that shows no QR connects, and so does one
\* that has joined the network again.
ConnectWs(c) ==
    /\ device.conn = None /\ (~device.ready \/ device.rejoin)
    /\ FreeConn(c)
    /\ device' = [device EXCEPT !.conn = c, !.once = FALSE, !.rejoin = FALSE]
    /\ sockets' = [sockets EXCEPT ![c] = [state |-> "open", inbox |-> <<>>]]
    /\ Goto(c, "accept")
    /\ UNCHANGED <<tokens, scanned, ctx, registry, faults>>

HandleNewToken(c) ==
    LET k == Head(sockets[c].inbox)
    IN  /\ device.conn = c /\ sockets[c].inbox # <<>>
        /\ device' = [device EXCEPT !.ready = TRUE, !.shown = k, !.once = TRUE]
        /\ scanned' = IF Active(k) THEN scanned \cup {k} ELSE scanned
        /\ sockets' = [sockets EXCEPT ![c].inbox = Tail(@)]
        /\ UNCHANGED <<tokens, pc, ctx, registry, faults>>

\* The close frame comes after the messages sent before it; the client answers it.
HandleClose(c) ==
    /\ device.conn = c /\ sockets[c].state = "closing" /\ sockets[c].inbox = <<>>
    /\ device' = Lost
    /\ sockets' = [sockets EXCEPT ![c].state = "closed"]
    /\ UNCHANGED <<tokens, scanned, pc, ctx, registry, faults>>

\* The loop of a display that is not connected drops a QR that has expired (its
\* own clock starts after the server's; a consumed token expires unnoticed).
DropExpired ==
    /\ device.conn = None /\ device.ready /\ ~Active(device.shown)
    /\ device' = [device EXCEPT !.ready = FALSE, !.shown = 0]
    /\ UNCHANGED <<tokens, scanned, pc, ctx, registry, sockets, faults>>

-----------------------------------------------------------------------------
(* Faults. *)

\* The connection breaks, or the network with it; the server may notice later.
LinkBreaks ==
    /\ device.conn # None
    /\ \E rejoin \in BOOLEAN : device' = [Lost EXCEPT !.rejoin = rejoin]
    /\ Fault /\ sockets' = Cut(device.conn)
    /\ UNCHANGED <<tokens, scanned, pc, ctx, registry>>

DeviceRestarts ==
    /\ device # Started
    /\ Fault /\ device' = Started /\ sockets' = Cut(device.conn)
    /\ UNCHANGED <<tokens, scanned, pc, ctx, registry>>

\* The client of a request is gone: a transaction is rolled back, what is
\* committed stays, and the rest is not done.
RequestAborted(r) ==
    /\ pc[r] \in {"consumed", "read", "save", "send"}
    /\ Fault
    /\ Goto(r, "idle") /\ ctx' = [ctx EXCEPT ![r] = NoCtx]
    /\ UNCHANGED <<tokens, scanned, registry, sockets, device>>

-----------------------------------------------------------------------------
Rotate(p) == RotateRead(p) \/ RotateSave(p) \/ SendJson(p)
             \/ DisconnectCheck(p) \/ DisconnectRemove(p)

Serve(r) == EndProof(r) \/ Rotate(r)

Handle(c) == LookUpPrevious(c) \/ PreviousClosed(c) \/ Register(c) \/ Rotate(c) \/ HandlerEnds(c)

Display == DropExpired \/ \E c \in Conn : ConnectWs(c) \/ HandleNewToken(c) \/ HandleClose(c)

Next ==
    \/ \E r \in Request, k \in Token, local \in BOOLEAN : ConsumeToken(r, local, k)
    \/ \E r \in Request : RefreshDeviceToken(r) \/ Serve(r) \/ RequestAborted(r)
    \/ \E c \in Conn : Handle(c) \/ ServerNotices(c)
    \/ \E k \in Token : TokenExpires(k)
    \/ Display
    \/ LinkBreaks \/ DeviceRestarts

Spec == Init /\ [][Next]_vars

\* Handlers run, the display runs its loop, time passes, and a server notices in
\* the end that a connection is lost (TCP gives up).
FairSpec ==
    /\ Spec
    /\ \A r \in Request : WF_vars(Serve(r))
    /\ \A c \in Conn : WF_vars(Handle(c)) /\ WF_vars(ServerNotices(c))
    /\ \A k \in Token : WF_vars(TokenExpires(k))
    /\ WF_vars(Display)

-----------------------------------------------------------------------------
(* Properties. *)

\* A QR is accepted at most once, as the proof of a join or of an order, however
\* many guests submit it and whatever rotates in between (ConsumeTokenAsync).
ProofUsedOnce ==
    [][\A r \in Request : At(r, "consumed") /\ pc'[r] = "read"
        => tokens[ctx[r].token] \notin {"used", "withdrawn"}]_vars

\* The newest QR is withdrawn by nothing but its own use: a rotation that has
\* read the active tokens before it was made cannot take it away.
NewestIsNotWithdrawn == Made # {} => tokens[Max(Made)] # "withdrawn"

\* The registry calls a display online only while a handler serves its
\* connection: every way out of the handler removes it.
OnlineIsServed == registry # None => pc[registry] # "idle"

\* A display that has lost its connection connects again.
DisplayReconnects == device.conn = None ~> device.conn # None
=============================================================================
