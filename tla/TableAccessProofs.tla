--------------------------- MODULE TableAccessProofs ---------------------------
(***************************************************************************)
(* Proofs about TableAccess, for any number of requests, connections and   *)
(* tokens, whatever rotates, is consumed or breaks at the same time.       *)
(***************************************************************************)
EXTENDS TableAccess, FiniteSetTheorems, TLAPS

-----------------------------------------------------------------------------
(* The inductive invariant.                                                *)

\* Tokens are made one after the other, whoever makes them.
Numbered == \E n \in 0..MaxTokens : Made = 1..n

\* The token of a proof under way was active when it was taken, and nobody else
\* has it: it may expire meanwhile, and no more.
HeldInv ==
    /\ \A p \in Process : pc[p] = "consumed" =>
          ctx[p].token \in Token /\ tokens[ctx[p].token] \in {"fresh", "over"}
    /\ \A p, q \in Process : p # q /\ pc[p] = "consumed" /\ pc[q] = "consumed" =>
          ctx[p].token # ctx[q].token

\* What is sent is a token, and what a rotation has read was made.
LocalsInv == \A p \in Process : (pc[p] = "send" => ctx[p].token \in Token) /\ ctx[p].seen \subseteq Made

AccessInv == TypeOK /\ Numbered /\ HeldInv /\ LocalsInv /\ NewestIsNotWithdrawn /\ OnlineIsServed

-----------------------------------------------------------------------------
(* Operators.                                                              *)

\* The newest of the tokens made is the last.
LEMMA NewestIsLast ==
  ASSUME NEW n \in Nat
  PROVE  Cardinality(1..n) = n /\ (n > 0 => Max(1..n) = n)
  <1>1. Cardinality(1..n) = n
    BY FS_Interval
  <1>2. ASSUME n > 0 PROVE Max(1..n) = n
    <2>1. n \in 1..n /\ \A y \in 1..n : n >= y
      BY <1>2
    <2>2. \A x \in 1..n : (\A y \in 1..n : x >= y) => x = n
      BY <2>1
    <2>3. QED
      BY <2>1, <2>2 DEF Max
  <1>3. QED
    BY <1>1, <1>2

\* The empty locals are locals, and so on.
LEMMA EmptyTypes ==
  NoCtx \in Ctx /\ NoCtx.seen = {} /\ NoSocket \in Socket /\ Started \in Device
  <1>1. 0 \in OptToken
    BY TokensAssumption DEF OptToken
  <1>2. <<>> \in Seq(Token)
    OBVIOUS
  <1>3. QED
    BY <1>1, <1>2 DEF NoCtx, Ctx, NoSocket, Socket, Started, Device, Labels

\* What a process, a connection and the display have.
LEMMA Fields ==
  ASSUME TypeOK
  PROVE  /\ \A p \in Process : /\ ctx[p] \in Ctx /\ ctx[p].token \in OptToken /\ ctx[p].seen \subseteq Token
                               /\ ctx[p].other \in Conn \cup {None}
         /\ \A c \in Conn : /\ sockets[c] \in Socket /\ sockets[c].inbox \in Seq(Token)
                            /\ sockets[c].state \in {"closed", "open", "closing"}
         /\ device \in Device /\ device.conn \in Conn \cup {None} /\ device.shown \in OptToken
         /\ Request \subseteq Process /\ Conn \subseteq Process /\ Token \subseteq OptToken
         /\ None \notin Conn /\ \A r \in Request : r \notin Conn
  <1>1. Token \subseteq OptToken
    BY TokensAssumption DEF Token, OptToken
  <1>2. QED
    BY <1>1, SlotsAssumption DEF TypeOK, Ctx, Socket, Device, Process

\* The tokens stay as they are while one process goes on to something else than
\* a proof.
LEMMA OneProcess ==
  ASSUME AccessInv, NEW p \in Process, NEW label \in Labels \ {"consumed"}, NEW c \in Ctx,
         pc' = [pc EXCEPT ![p] = label], ctx' = [ctx EXCEPT ![p] = c],
         label = "send" => c.token \in Token, c.seen \subseteq Made, UNCHANGED tokens
  PROVE  /\ pc' \in [Process -> Labels] /\ ctx' \in [Process -> Ctx] /\ tokens' \in [Token -> TokenState]
         /\ Numbered' /\ HeldInv' /\ LocalsInv' /\ NewestIsNotWithdrawn'
         /\ pc'[p] = label /\ \A q \in Process \ {p} : pc'[q] = pc[q]
  <1>1. pc \in [Process -> Labels] /\ ctx \in [Process -> Ctx] /\ tokens \in [Token -> TokenState]
    BY DEF AccessInv, TypeOK
  <1>2. /\ pc' \in [Process -> Labels] /\ ctx' \in [Process -> Ctx] /\ tokens' \in [Token -> TokenState]
        /\ pc'[p] = label /\ ctx'[p] = c
        /\ \A q \in Process \ {p} : pc'[q] = pc[q] /\ ctx'[q] = ctx[q]
    BY <1>1
  <1>3. Made' = Made
    BY DEF Made
  <1>4. HeldInv'
    BY <1>2 DEF AccessInv, HeldInv
  <1>5. LocalsInv'
    BY <1>2, <1>3 DEF AccessInv, LocalsInv
  <1>6. Numbered' /\ NewestIsNotWithdrawn'
    BY <1>3 DEF AccessInv, Numbered, NewestIsNotWithdrawn
  <1>7. QED
    BY <1>2, <1>4, <1>5, <1>6

\* No process moves, no token changes.
LEMMA NoProcess ==
  ASSUME AccessInv, UNCHANGED <<tokens, pc, ctx>>
  PROVE  /\ pc' \in [Process -> Labels] /\ ctx' \in [Process -> Ctx] /\ tokens' \in [Token -> TokenState]
         /\ Numbered' /\ HeldInv' /\ LocalsInv' /\ NewestIsNotWithdrawn'
  <1>1. Made' = Made
    BY DEF Made
  <1>2. QED
    BY <1>1 DEF AccessInv, TypeOK, Numbered, HeldInv, LocalsInv, NewestIsNotWithdrawn

\* A process that is no handler, or that does not end, leaves the registry true.
LEMMA StillServed ==
  ASSUME AccessInv, NEW p \in Process, NEW label,
         pc'[p] = label, \A q \in Process \ {p} : pc'[q] = pc[q],
         UNCHANGED registry, label # "idle" \/ p # registry
  PROVE  OnlineIsServed'
  BY Fields DEF AccessInv, OnlineIsServed, TypeOK

-----------------------------------------------------------------------------
(* Proofs and rotations.                                                   *)

LEMMA ConsumeStep ==
  ASSUME AccessInv, NEW r \in Request, NEW local \in BOOLEAN, NEW k \in Token, ConsumeToken(r, local, k)
  PROVE  AccessInv'
  <1> DEFINE c == [NoCtx EXCEPT !.local = local, !.token = k]
  <1>1. /\ pc' = [pc EXCEPT ![r] = "consumed"] /\ ctx' = [ctx EXCEPT ![r] = c]
        /\ k \notin Held /\ tokens[k] = "fresh"
        /\ UNCHANGED <<tokens, scanned, registry, sockets, device, faults>>
    BY DEF ConsumeToken, Goto, Active
  <1>2. c \in Ctx /\ c.token = k /\ c.seen = {}
    BY EmptyTypes, Fields DEF AccessInv, Ctx
  <1> HIDE DEF c
  <1>3. r \in Process /\ "consumed" \in Labels /\ r \notin Conn
    BY Fields DEF AccessInv, Labels
  <1>4. pc \in [Process -> Labels] /\ ctx \in [Process -> Ctx]
    BY DEF AccessInv, TypeOK
  <1>5. /\ pc' \in [Process -> Labels] /\ ctx' \in [Process -> Ctx]
        /\ pc'[r] = "consumed" /\ ctx'[r] = c
        /\ \A q \in Process \ {r} : pc'[q] = pc[q] /\ ctx'[q] = ctx[q]
    BY <1>1, <1>2, <1>3, <1>4
  <1>6. TypeOK'
    BY <1>1, <1>5 DEF AccessInv, TypeOK
  <1>7. Made' = Made
    BY <1>1 DEF Made
  <1>8. \A q \in Process : pc[q] = "consumed" => ctx[q].token # k
    BY <1>1 DEF Held, At
  <1>9. HeldInv'
    BY <1>1, <1>2, <1>5, <1>8 DEF AccessInv, HeldInv
  <1>10. LocalsInv'
    BY <1>2, <1>5, <1>7 DEF AccessInv, LocalsInv
  <1>11. OnlineIsServed'
    BY <1>1, <1>3, <1>5, StillServed
  <1>12. QED
    BY <1>1, <1>6, <1>7, <1>9, <1>10, <1>11 DEF AccessInv, Numbered, NewestIsNotWithdrawn

\* A token changes its state and no process goes on to a proof.
LEMMA TokenChanges ==
  ASSUME AccessInv, NEW k \in Token, NEW state \in TokenState \ {"none", "withdrawn"}, tokens[k] # "none",
         tokens' = [tokens EXCEPT ![k] = state]
  PROVE  tokens' \in [Token -> TokenState] /\ Numbered' /\ NewestIsNotWithdrawn' /\ Made' = Made
  <1>1. tokens \in [Token -> TokenState]
    BY DEF AccessInv, TypeOK
  <1>2. tokens' \in [Token -> TokenState] /\ tokens'[k] = state
        /\ \A j \in Token \ {k} : tokens'[j] = tokens[j]
    BY <1>1
  <1>3. Made' = Made
    BY <1>2 DEF Made
  <1>4. PICK n \in 0..MaxTokens : Made = 1..n
    BY DEF AccessInv, Numbered
  <1>5. n > 0 => Max(Made) \in Token
    BY <1>4, NewestIsLast, TokensAssumption DEF Token
  <1>6. n = 0 => Made = {}
    BY <1>4
  <1>7. NewestIsNotWithdrawn'
    BY <1>2, <1>3, <1>4, <1>5, <1>6 DEF AccessInv, NewestIsNotWithdrawn
  <1>8. QED
    BY <1>2, <1>3, <1>7 DEF AccessInv, Numbered

LEMMA EndProofStep ==
  ASSUME AccessInv, NEW r \in Request, EndProof(r)
  PROVE  AccessInv' /\ tokens[ctx[r].token] \notin {"used", "withdrawn"}
  <1> DEFINE k == ctx[r].token
  <1>1. /\ pc[r] = "consumed" /\ ctx' = [ctx EXCEPT ![r] = NoCtx]
        /\ UNCHANGED <<registry, sockets, device, faults>>
    BY DEF EndProof, At
  <1>2. r \in Process /\ r \notin Conn /\ {"read", "idle"} \subseteq Labels \ {"consumed"}
    BY Fields DEF AccessInv, Labels
  <1>3. k \in Token /\ tokens[k] \in {"fresh", "over"}
    BY <1>1, <1>2 DEF AccessInv, HeldInv
  <1>4. CASE ctx[r].local
    <2>1. /\ pc' = [pc EXCEPT ![r] = "read"] /\ tokens' = [tokens EXCEPT ![k] = "used"]
          /\ scanned' = scanned \ {k}
      BY <1>4 DEF EndProof, Goto
    <2>2. tokens' \in [Token -> TokenState] /\ Numbered' /\ NewestIsNotWithdrawn' /\ Made' = Made
      BY <1>3, <2>1, TokenChanges DEF TokenState
    <2>3. /\ pc \in [Process -> Labels] /\ ctx \in [Process -> Ctx] /\ tokens \in [Token -> TokenState]
          /\ scanned \subseteq Token
      BY DEF AccessInv, TypeOK
    <2>4. /\ pc' \in [Process -> Labels] /\ ctx' \in [Process -> Ctx]
          /\ pc'[r] = "read" /\ ctx'[r] = NoCtx /\ \A j \in Token \ {k} : tokens'[j] = tokens[j]
          /\ \A q \in Process \ {r} : pc'[q] = pc[q] /\ ctx'[q] = ctx[q]
      BY <1>1, <1>2, <2>1, <2>3, EmptyTypes
    <2>5. TypeOK'
      BY <1>1, <2>1, <2>2, <2>3, <2>4 DEF AccessInv, TypeOK
    <2>6. HeldInv'
      BY <1>1, <1>2, <1>3, <2>4 DEF AccessInv, HeldInv
    <2>7. LocalsInv'
      BY <2>2, <2>4, EmptyTypes DEF AccessInv, LocalsInv
    <2>8. OnlineIsServed'
      BY <1>1, <1>2, <2>4, StillServed
    <2>9. QED
      BY <1>3, <2>2, <2>5, <2>6, <2>7, <2>8 DEF AccessInv
  <1>5. CASE ~ctx[r].local
    <2>1. pc' = [pc EXCEPT ![r] = "idle"] /\ UNCHANGED tokens /\ UNCHANGED scanned
      BY <1>5 DEF EndProof, Goto
    <2>2. /\ pc' \in [Process -> Labels] /\ ctx' \in [Process -> Ctx] /\ tokens' \in [Token -> TokenState]
          /\ Numbered' /\ HeldInv' /\ LocalsInv' /\ NewestIsNotWithdrawn'
          /\ pc'[r] = "idle" /\ \A q \in Process \ {r} : pc'[q] = pc[q]
      BY <1>1, <1>2, <2>1, EmptyTypes, OneProcess
    <2>3. TypeOK'
      BY <1>1, <2>1, <2>2 DEF AccessInv, TypeOK
    <2>4. r # registry
      BY SlotsAssumption DEF AccessInv, TypeOK
    <2>5. OnlineIsServed'
      BY <1>1, <1>2, <2>2, <2>4, StillServed
    <2>6. QED
      BY <1>3, <2>2, <2>3, <2>5 DEF AccessInv
  <1>6. QED
    BY <1>4, <1>5

LEMMA ExpireStep ==
  ASSUME AccessInv, NEW k \in Token, TokenExpires(k) PROVE AccessInv'
  <1>1. /\ tokens[k] = "fresh" /\ tokens' = [tokens EXCEPT ![k] = "over"] /\ scanned' = scanned \ {k}
        /\ UNCHANGED <<pc, ctx, registry, sockets, device, faults>>
    BY DEF TokenExpires, Active
  <1>2. tokens' \in [Token -> TokenState] /\ Numbered' /\ NewestIsNotWithdrawn' /\ Made' = Made
    BY <1>1, TokenChanges DEF TokenState
  <1>3. \A j \in Token : tokens'[j] = tokens[j] \/ tokens'[j] = "over"
    BY <1>1 DEF AccessInv, TypeOK
  <1>4. HeldInv'
    BY <1>1, <1>3 DEF AccessInv, HeldInv
  <1>5. TypeOK'
    BY <1>1, <1>2 DEF AccessInv, TypeOK
  <1>6. LocalsInv' /\ OnlineIsServed'
    BY <1>1, <1>2 DEF AccessInv, LocalsInv, OnlineIsServed
  <1>7. QED
    BY <1>2, <1>4, <1>5, <1>6 DEF AccessInv

\* A rotation withdraws no token that somebody holds, and makes the newest.
LEMMA RotateSaveStep ==
  ASSUME AccessInv, NEW p \in Process, RotateSave(p) PROVE AccessInv'
  <1> DEFINE new == Cardinality(Made) + 1
             seen == ctx[p].seen
             c == [ctx[p] EXCEPT !.token = new, !.seen = {}]
  <1>1. /\ pc[p] = "save" /\ new \in Token /\ seen \cap Held = {}
        /\ tokens' = [Withdrawn(seen) EXCEPT ![new] = "fresh"]
        /\ scanned' = scanned \ seen
        /\ ctx' = [ctx EXCEPT ![p].token = new, ![p].seen = {}]
        /\ pc' = [pc EXCEPT ![p] = "send"]
        /\ UNCHANGED <<registry, sockets, device, faults>>
    BY DEF RotateSave, At, Goto
  <1>2. PICK n \in 0..MaxTokens : Made = 1..n
    BY DEF AccessInv, Numbered
  <1>3. new = n + 1 /\ n \in Nat
    BY <1>2, NewestIsLast, TokensAssumption
  <1>4. c \in Ctx /\ c.token = new
    BY <1>1, Fields DEF AccessInv, Ctx
  <1>5. ctx' = [ctx EXCEPT ![p] = c]
    BY <1>1 DEF AccessInv, TypeOK
  <1>6. /\ pc \in [Process -> Labels] /\ ctx \in [Process -> Ctx] /\ tokens \in [Token -> TokenState]
        /\ scanned \subseteq Token /\ "send" \in Labels
    BY DEF AccessInv, TypeOK, Labels
  <1> HIDE DEF c, new, seen
  <1>7. /\ pc' \in [Process -> Labels] /\ ctx' \in [Process -> Ctx]
        /\ pc'[p] = "send" /\ ctx'[p] = c
        /\ \A q \in Process \ {p} : pc'[q] = pc[q] /\ ctx'[q] = ctx[q]
    BY <1>1, <1>4, <1>5, <1>6
  <1>8. /\ Withdrawn(seen) \in [Token -> TokenState]
        /\ \A k \in Token : /\ Withdrawn(seen)[k] = "none" <=> tokens[k] = "none"
                            /\ k \notin seen => Withdrawn(seen)[k] = tokens[k]
    <2>1. seen \subseteq Made
      BY DEF AccessInv, LocalsInv, seen
    <2>2. QED
      BY <1>6, <2>1 DEF Withdrawn, TokenState, Made
  <1>9. /\ tokens' \in [Token -> TokenState] /\ tokens'[new] = "fresh"
        /\ \A k \in Token \ {new} : tokens'[k] = Withdrawn(seen)[k]
    BY <1>1, <1>8 DEF TokenState
  <1>10. \A k \in Token : k \in Made => k <= n
    BY <1>2
  <1>11. Made' = 1..n+1
    <2>1. \A k \in Token : tokens'[k] # "none" <=> k = new \/ tokens[k] # "none"
      BY <1>9, <1>8 DEF TokenState
    <2>2. Made' = Made \cup {new}
      BY <1>1, <2>1 DEF Made
    <2>3. QED
      BY <1>2, <1>3, <2>2
  <1>12. Numbered' /\ NewestIsNotWithdrawn'
    <2>1. n + 1 \in 0..MaxTokens
      BY <1>1, <1>3, TokensAssumption DEF Token
    <2>2. Max(Made') = new
      BY <1>3, <1>11, NewestIsLast
    <2>3. QED
      BY <1>9, <1>11, <2>1, <2>2 DEF Numbered, NewestIsNotWithdrawn
  <1>13. \A q \in Process \ {p} : pc[q] = "consumed" =>
            ctx[q].token \in Token /\ tokens'[ctx[q].token] = tokens[ctx[q].token]
    <2>1. ASSUME NEW q \in Process \ {p}, pc[q] = "consumed"
          PROVE  ctx[q].token \in Token /\ tokens'[ctx[q].token] = tokens[ctx[q].token]
      <3>1. ctx[q].token \in Token /\ ctx[q].token \in Made /\ ctx[q].token \notin seen
        BY <1>1, <2>1 DEF AccessInv, HeldInv, Made, Held, At
      <3>2. ctx[q].token # new
        BY <1>3, <1>10, <3>1
      <3>3. QED
        BY <1>8, <1>9, <3>1, <3>2
    <2>2. QED
      BY <2>1
  <1>14. HeldInv'
    BY <1>7, <1>13 DEF AccessInv, HeldInv
  <1>15. LocalsInv'
    <2>1. c.seen = {}
      BY <1>4, Fields DEF AccessInv, Ctx, c
    <2>2. Made \subseteq Made'
      BY <1>2, <1>3, <1>11
    <2>3. QED
      BY <1>1, <1>4, <1>7, <2>1, <2>2 DEF AccessInv, LocalsInv
  <1>16. TypeOK'
    BY <1>1, <1>6, <1>7, <1>9 DEF AccessInv, TypeOK
  <1>17. OnlineIsServed'
    BY <1>1, <1>7, StillServed
  <1>18. QED
    BY <1>12, <1>14, <1>15, <1>16, <1>17 DEF AccessInv

-----------------------------------------------------------------------------
(* Everything else a process does.                                         *)

\* A step of one process that makes and takes no token.
LEMMA ProcessStep ==
  ASSUME AccessInv, NEW p \in Process, NEW label \in Labels \ {"consumed"}, NEW c \in Ctx,
         pc' = [pc EXCEPT ![p] = label], ctx' = [ctx EXCEPT ![p] = c],
         label = "send" => c.token \in Token, c.seen \subseteq Made,
         label # "idle" \/ p # registry',
         sockets' \in [Conn -> Socket], device' \in Device, faults' \in 0..MaxFaults,
         UNCHANGED <<tokens, scanned>>, registry' \in {registry, p, None}, registry' = p => p \in Conn
  PROVE  AccessInv'
  <1>1. /\ pc' \in [Process -> Labels] /\ ctx' \in [Process -> Ctx] /\ tokens' \in [Token -> TokenState]
        /\ Numbered' /\ HeldInv' /\ LocalsInv' /\ NewestIsNotWithdrawn'
        /\ pc'[p] = label /\ \A q \in Process \ {p} : pc'[q] = pc[q]
    BY OneProcess
  <1>2. TypeOK'
    BY <1>1 DEF AccessInv, TypeOK
  <1>3. OnlineIsServed'
    BY <1>1, Fields DEF AccessInv, TypeOK, OnlineIsServed
  <1>4. QED
    BY <1>1, <1>2, <1>3 DEF AccessInv

\* What a process has read stays read.
LEMMA SeenFields ==
  ASSUME AccessInv, NEW p \in Process
  PROVE  ctx[p] \in Ctx /\ ctx[p].seen \subseteq Made /\ NoCtx \in Ctx /\ NoCtx.seen \subseteq Made
  BY Fields, EmptyTypes DEF AccessInv, LocalsInv

LEMMA RefreshStep ==
  ASSUME AccessInv, NEW r \in Request, RefreshDeviceToken(r) PROVE AccessInv'
  <1>1. /\ pc' = [pc EXCEPT ![r] = "read"] /\ ctx' = [ctx EXCEPT ![r] = ctx[r]]
        /\ UNCHANGED <<tokens, scanned, registry, sockets, device, faults>>
    BY DEF RefreshDeviceToken, Goto, AccessInv, TypeOK
  <1>2. "read" \in Labels \ {"consumed"} /\ r \in Process
    BY Fields DEF AccessInv, Labels
  <1>3. sockets' \in [Conn -> Socket] /\ device' \in Device /\ faults' \in 0..MaxFaults
        /\ registry' = registry /\ (registry' = r => r \in Conn)
    BY <1>1, SlotsAssumption DEF AccessInv, TypeOK
  <1>4. QED
    BY <1>1, <1>2, <1>3, SeenFields, ProcessStep

LEMMA RotateReadStep ==
  ASSUME AccessInv, NEW p \in Process, RotateRead(p) PROVE AccessInv'
  <1> DEFINE seen == {k \in Token : Active(k)}
             c == [ctx[p] EXCEPT !.seen = seen]
  <1>1. seen \subseteq Made /\ seen \subseteq Token
    BY DEF Made, Active
  <1>2. c \in Ctx /\ c.seen = seen
    BY <1>1, SeenFields DEF Ctx
  <1>3. /\ pc' = [pc EXCEPT ![p] = "save"] /\ ctx' = [ctx EXCEPT ![p] = c]
        /\ UNCHANGED <<tokens, scanned, registry, sockets, device, faults>>
    BY DEF RotateRead, Goto, AccessInv, TypeOK
  <1> HIDE DEF c, seen
  <1>4. "save" \in Labels \ {"consumed"}
    BY DEF Labels
  <1>5. sockets' \in [Conn -> Socket] /\ device' \in Device /\ faults' \in 0..MaxFaults
        /\ registry' = registry /\ (registry' = p => p \in Conn)
    BY <1>3, SlotsAssumption DEF AccessInv, TypeOK, Process
  <1>6. QED
    BY <1>1, <1>2, <1>3, <1>4, <1>5, ProcessStep

\* A request is done, a handler goes back to its loop.
LEMMA ResumeIs ==
  ASSUME AccessInv, NEW p \in Process, Resume(p)
  PROVE  \E label \in {"idle", "loop"} : \E c \in Ctx :
            /\ pc' = [pc EXCEPT ![p] = label] /\ ctx' = [ctx EXCEPT ![p] = c]
            /\ c.seen \subseteq Made /\ (label = "idle" => p \notin Conn)
  <1>1. CASE p \in Request
    <2>1. pc' = [pc EXCEPT ![p] = "idle"] /\ ctx' = [ctx EXCEPT ![p] = NoCtx] /\ p \notin Conn
      BY <1>1, SlotsAssumption DEF Resume, Goto
    <2>2. QED
      BY <2>1, SeenFields
  <1>2. CASE p \notin Request
    <2> DEFINE c == [ctx[p] EXCEPT !.token = 0, !.other = None]
    <2>0. 0 \in OptToken
      BY TokensAssumption DEF OptToken
    <2>1. c \in Ctx /\ c.seen = ctx[p].seen
      BY <2>0, SeenFields DEF Ctx
    <2>2. pc' = [pc EXCEPT ![p] = "loop"] /\ ctx' = [ctx EXCEPT ![p] = c]
      BY <1>2 DEF Resume, Goto, AccessInv, TypeOK
    <2> HIDE DEF c
    <2>3. QED
      BY <2>1, <2>2, SeenFields
  <1>3. QED
    BY <1>1, <1>2

\* A process resumes, whatever it sent.
LEMMA ResumeStep ==
  ASSUME AccessInv, NEW p \in Process, Resume(p),
         sockets' \in [Conn -> Socket], UNCHANGED <<tokens, scanned, device, faults>>,
         registry' \in {registry, None}
  PROVE  AccessInv'
  <1>1. PICK label \in {"idle", "loop"} : \E c \in Ctx :
            /\ pc' = [pc EXCEPT ![p] = label] /\ ctx' = [ctx EXCEPT ![p] = c]
            /\ c.seen \subseteq Made /\ (label = "idle" => p \notin Conn)
    BY ResumeIs
  <1>2. PICK c \in Ctx :
            /\ pc' = [pc EXCEPT ![p] = label] /\ ctx' = [ctx EXCEPT ![p] = c]
            /\ c.seen \subseteq Made /\ (label = "idle" => p \notin Conn)
    BY <1>1
  <1>3. label \in Labels \ {"consumed"} /\ label # "send"
    BY DEF Labels
  <1>4. device' \in Device /\ faults' \in 0..MaxFaults /\ (registry' = p => p \in Conn)
    BY SlotsAssumption DEF AccessInv, TypeOK, Process
  <1>5. QED
    BY <1>2, <1>3, <1>4, ProcessStep

\* A message goes to the display that is registered.
LEMMA SendJsonStep ==
  ASSUME AccessInv, NEW p \in Process, SendJson(p) PROVE AccessInv'
  <1>1. UNCHANGED <<tokens, scanned, registry, device, faults>> /\ pc[p] = "send"
    BY DEF SendJson, At
  <1>2. sockets \in [Conn -> Socket] /\ registry \in Conn \cup {None}
    BY DEF AccessInv, TypeOK
  <1>3. CASE registry = None
    <2>1. Resume(p) /\ sockets' = sockets
      BY <1>3 DEF SendJson
    <2>2. QED
      BY <1>1, <1>2, <2>1, ResumeStep
  <1>4. CASE registry # None /\ sockets[registry].state = "open"
    <2> DEFINE inbox == IF device.conn = registry THEN Append(sockets[registry].inbox, ctx[p].token)
                        ELSE sockets[registry].inbox
               s == [sockets[registry] EXCEPT !.inbox = inbox]
    <2>1. Resume(p) /\ sockets' = [sockets EXCEPT ![registry] = s]
      BY <1>4, <1>2 DEF SendJson
    <2>2. ctx[p].token \in Token /\ registry \in Conn
      BY <1>1, <1>2, <1>4 DEF AccessInv, LocalsInv
    <2>3. inbox \in Seq(Token)
      BY <2>2, Fields DEF AccessInv
    <2> HIDE DEF inbox
    <2>4. s \in Socket
      BY <1>2, <2>2, <2>3 DEF Socket
    <2> HIDE DEF s
    <2>5. sockets' \in [Conn -> Socket]
      BY <1>2, <2>1, <2>2, <2>4
    <2>6. QED
      BY <1>1, <2>1, <2>5, ResumeStep
  <1>5. CASE registry # None /\ sockets[registry].state # "open"
    <2> DEFINE c == [ctx[p] EXCEPT !.other = registry]
    <2>1. /\ pc' = [pc EXCEPT ![p] = "check"] /\ ctx' = [ctx EXCEPT ![p] = c] /\ sockets' = sockets
      BY <1>5 DEF SendJson, Goto, AccessInv, TypeOK
    <2>2. c \in Ctx /\ c.seen = ctx[p].seen
      BY <1>2, SeenFields DEF Ctx
    <2> HIDE DEF c
    <2>3. "check" \in Labels \ {"consumed"}
      BY DEF Labels
    <2>4. sockets' \in [Conn -> Socket] /\ device' \in Device /\ faults' \in 0..MaxFaults
          /\ (registry' = p => p \in Conn)
      BY <1>1, <2>1, SlotsAssumption DEF AccessInv, TypeOK, Process
    <2>5. QED
      BY <1>1, <2>1, <2>2, <2>3, <2>4, SeenFields, ProcessStep
  <1>6. QED
    BY <1>3, <1>4, <1>5

\* The connection that was to be removed is not registered any more.
LEMMA DisconnectedStep ==
  ASSUME AccessInv, NEW p \in Process, Disconnected(p), registry' # ctx[p].other \/ registry' = None,
         UNCHANGED <<tokens, scanned, device, faults>>, registry' \in {registry, None}
  PROVE  AccessInv'
  <1>1. sockets \in [Conn -> Socket] /\ registry \in Conn \cup {None} /\ ctx[p].other \in Conn \cup {None}
    BY Fields DEF AccessInv, TypeOK
  <1>2. CASE ctx[p].other = p
    <2>1. /\ pc' = [pc EXCEPT ![p] = "idle"] /\ ctx' = [ctx EXCEPT ![p] = NoCtx]
          /\ sockets' = [sockets EXCEPT ![p] = NoSocket]
      BY <1>2 DEF Disconnected, Goto
    <2>2. p \in Conn /\ p # registry'
      BY <1>1, <1>2, SlotsAssumption DEF Process
    <2>3. sockets' \in [Conn -> Socket] /\ device' \in Device /\ faults' \in 0..MaxFaults
      BY <1>1, <2>1, EmptyTypes DEF AccessInv, TypeOK
    <2>4. "idle" \in Labels \ {"consumed"}
      BY DEF Labels
    <2>5. QED
      BY <2>1, <2>2, <2>3, <2>4, SeenFields, ProcessStep
  <1>3. CASE ctx[p].other # p
    <2>1. Resume(p) /\ sockets' \in [Conn -> Socket]
      BY <1>1, <1>3 DEF Disconnected
    <2>2. QED
      BY <2>1, ResumeStep
  <1>4. QED
    BY <1>2, <1>3

LEMMA DisconnectStep ==
  ASSUME AccessInv, NEW p \in Process, DisconnectCheck(p) \/ DisconnectRemove(p) PROVE AccessInv'
  <1>1. CASE DisconnectCheck(p) /\ registry # ctx[p].other
    <2>1. Disconnected(p) /\ UNCHANGED <<tokens, scanned, registry, device, faults>>
      BY <1>1 DEF DisconnectCheck
    <2>2. QED
      BY <1>1, <2>1, DisconnectedStep
  <1>2. CASE DisconnectCheck(p) /\ registry = ctx[p].other
    <2>1. /\ pc' = [pc EXCEPT ![p] = "remove"] /\ ctx' = [ctx EXCEPT ![p] = ctx[p]]
          /\ UNCHANGED <<tokens, scanned, registry, sockets, device, faults>>
      BY <1>2 DEF DisconnectCheck, Goto, AccessInv, TypeOK
    <2>2. "remove" \in Labels \ {"consumed"}
      BY DEF Labels
    <2>3. sockets' \in [Conn -> Socket] /\ device' \in Device /\ faults' \in 0..MaxFaults
          /\ registry' = registry /\ (registry' = p => p \in Conn)
      BY <2>1, SlotsAssumption DEF AccessInv, TypeOK, Process
    <2>4. QED
      BY <2>1, <2>2, <2>3, SeenFields, ProcessStep
  <1>3. CASE DisconnectRemove(p)
    <2>1. registry' = None /\ Disconnected(p) /\ UNCHANGED <<tokens, scanned, device, faults>>
      BY <1>3 DEF DisconnectRemove
    <2>2. QED
      BY <2>1, DisconnectedStep
  <1>4. QED
    BY <1>1, <1>2, <1>3

-----------------------------------------------------------------------------
(* Handlers, the display, and faults.                                      *)

LEMMA HandlerStep ==
  ASSUME AccessInv, NEW c \in Conn,
         LookUpPrevious(c) \/ PreviousClosed(c) \/ Register(c) \/ HandlerEnds(c)
  PROVE  AccessInv'
  <1>1. c \in Process /\ {"register", "replace", "read", "check"} \subseteq Labels \ {"consumed", "send", "idle"}
    BY Fields DEF AccessInv, Labels
  <1>2. /\ sockets \in [Conn -> Socket] /\ device \in Device /\ faults \in 0..MaxFaults
        /\ registry \in Conn \cup {None} /\ ctx \in [Process -> Ctx]
    BY DEF AccessInv, TypeOK
  <1>3. UNCHANGED <<tokens, scanned, device, faults>>
    BY DEF LookUpPrevious, PreviousClosed, Register, HandlerEnds
  <1>4. \A other \in Conn \cup {None} : /\ [ctx[c] EXCEPT !.other = other] \in Ctx
                                        /\ [ctx[c] EXCEPT !.other = other].seen \subseteq Made
    BY <1>1, SeenFields DEF Ctx
  <1>5. ASSUME NEW label \in {"register", "replace", "read", "check"}, NEW l \in Ctx, l.seen \subseteq Made,
               pc' = [pc EXCEPT ![c] = label], ctx' = [ctx EXCEPT ![c] = l],
               sockets' \in [Conn -> Socket], registry' \in {registry, c}
        PROVE  AccessInv'
    BY <1>1, <1>2, <1>3, <1>5, ProcessStep
  <1>6. CASE LookUpPrevious(c) /\ registry = None
    <2>1. /\ pc' = [pc EXCEPT ![c] = "register"] /\ ctx' = [ctx EXCEPT ![c] = ctx[c]]
          /\ sockets' = sockets /\ registry' = registry
      BY <1>2, <1>6 DEF LookUpPrevious, Goto
    <2>2. QED
      BY <1>1, <1>2, <1>5, <2>1, SeenFields
  <1>7. CASE LookUpPrevious(c) /\ registry # None
    <2> DEFINE l == [ctx[c] EXCEPT !.other = registry]
               s == [sockets[registry] EXCEPT !.state = IF sockets[registry].state = "open" THEN "closing"
                                                        ELSE sockets[registry].state]
    <2>1. /\ pc' = [pc EXCEPT ![c] = "replace"] /\ ctx' = [ctx EXCEPT ![c] = l]
          /\ sockets' = [sockets EXCEPT ![registry] = s] /\ registry' = registry
      BY <1>2, <1>7 DEF LookUpPrevious, Goto
    <2>2. s \in Socket
      BY <1>2, <1>7 DEF Socket
    <2>3. l \in Ctx /\ l.seen \subseteq Made
      BY <1>2, <1>4
    <2> HIDE DEF l, s
    <2>4. sockets' \in [Conn -> Socket]
      BY <1>2, <1>7, <2>1, <2>2
    <2>5. QED
      BY <1>5, <2>1, <2>3, <2>4
  <1>8. CASE PreviousClosed(c)
    <2> DEFINE l == [ctx[c] EXCEPT !.other = None]
    <2>1. /\ pc' = [pc EXCEPT ![c] = "register"] /\ ctx' = [ctx EXCEPT ![c] = l]
          /\ sockets' = sockets /\ registry' = registry
      BY <1>1, <1>2, <1>8 DEF PreviousClosed, Goto
    <2>2. l \in Ctx /\ l.seen \subseteq Made
      BY <1>4
    <2> HIDE DEF l
    <2>3. QED
      BY <1>2, <1>5, <2>1, <2>2
  <1>9. CASE Register(c)
    <2>1. /\ pc' = [pc EXCEPT ![c] = "read"] /\ ctx' = [ctx EXCEPT ![c] = ctx[c]]
          /\ sockets' = sockets /\ registry' = c
      BY <1>2, <1>9 DEF Register, Goto
    <2>2. QED
      BY <1>1, <1>2, <1>5, <2>1, SeenFields
  <1>10. CASE HandlerEnds(c)
    <2> DEFINE l == [ctx[c] EXCEPT !.other = c]
    <2>1. /\ pc' = [pc EXCEPT ![c] = "check"] /\ ctx' = [ctx EXCEPT ![c] = l]
          /\ sockets' = sockets /\ registry' = registry
      BY <1>1, <1>2, <1>10 DEF HandlerEnds, Goto
    <2>2. l \in Ctx /\ l.seen \subseteq Made
      BY <1>4
    <2> HIDE DEF l
    <2>3. QED
      BY <1>2, <1>5, <2>1, <2>2
  <1>11. QED
    BY <1>6, <1>7, <1>8, <1>9, <1>10

\* A step of the display and its links, that no process takes part in.
LEMMA LinkStep ==
  ASSUME AccessInv, UNCHANGED <<tokens, pc, ctx, registry>>, scanned' \subseteq Token,
         sockets' \in [Conn -> Socket], device' \in Device, faults' \in 0..MaxFaults
  PROVE  AccessInv'
  <1>1. /\ pc' \in [Process -> Labels] /\ ctx' \in [Process -> Ctx] /\ tokens' \in [Token -> TokenState]
        /\ Numbered' /\ HeldInv' /\ LocalsInv' /\ NewestIsNotWithdrawn'
    BY NoProcess
  <1>2. TypeOK' /\ OnlineIsServed'
    BY <1>1 DEF AccessInv, TypeOK, OnlineIsServed
  <1>3. QED
    BY <1>1, <1>2 DEF AccessInv

LEMMA ConnectStep ==
  ASSUME AccessInv, NEW c \in Conn, ConnectWs(c) PROVE AccessInv'
  <1> DEFINE s == [state |-> "open", inbox |-> <<>>]
             d == [device EXCEPT !.conn = c, !.once = FALSE, !.rejoin = FALSE]
  <1>1. /\ device' = d /\ sockets' = [sockets EXCEPT ![c] = s]
        /\ pc' = [pc EXCEPT ![c] = "accept"] /\ ctx' = [ctx EXCEPT ![c] = ctx[c]]
        /\ UNCHANGED <<tokens, scanned, registry, faults>>
    BY DEF ConnectWs, Goto, AccessInv, TypeOK
  <1>2. c \in Process /\ "accept" \in Labels \ {"consumed"}
    BY Fields DEF AccessInv, Labels
  <1>3. s \in Socket /\ d \in Device
    <2>1. <<>> \in Seq(Token)
      OBVIOUS
    <2>2. QED
      BY <2>1, Fields DEF AccessInv, Socket, Device
  <1> HIDE DEF s, d
  <1>4. sockets' \in [Conn -> Socket] /\ device' \in Device /\ faults' \in 0..MaxFaults
    BY <1>1, <1>3 DEF AccessInv, TypeOK
  <1>5. QED
    BY <1>1, <1>2, <1>4, SeenFields, ProcessStep

LEMMA LostType ==
  ASSUME AccessInv
  PROVE  /\ Lost \in Device /\ \A rejoin \in BOOLEAN : [Lost EXCEPT !.rejoin = rejoin] \in Device
         /\ Cut(device.conn) \in [Conn -> Socket]
  <1>1. device \in Device /\ sockets \in [Conn -> Socket] /\ 0 \in OptToken /\ <<>> \in Seq(Token)
        /\ None \notin Conn
    BY TokensAssumption, SlotsAssumption DEF AccessInv, TypeOK, OptToken
  <1>2. Lost \in Device
    BY <1>1 DEF Lost, Device
  <1>3. \A rejoin \in BOOLEAN : [Lost EXCEPT !.rejoin = rejoin] \in Device
    BY <1>2 DEF Device
  <1>4. CASE device.conn = None
    BY <1>1, <1>2, <1>3, <1>4 DEF Cut
  <1>5. CASE device.conn # None
    <2> DEFINE c == device.conn
               s == [sockets[c] EXCEPT !.inbox = <<>>]
    <2>1. c \in Conn
      BY <1>1, <1>5 DEF Device
    <2>2. s \in Socket
      BY <1>1, <2>1 DEF Socket
    <2>3. Cut(c) = [sockets EXCEPT ![c] = s]
      BY <1>5 DEF Cut
    <2> HIDE DEF s, c
    <2>4. Cut(c) \in [Conn -> Socket]
      BY <1>1, <2>1, <2>2, <2>3
    <2>5. QED
      BY <1>2, <1>3, <2>4 DEF c
  <1>6. QED
    BY <1>4, <1>5

LEMMA DisplayStep ==
  ASSUME AccessInv, Display PROVE AccessInv'
  <1>1. /\ sockets \in [Conn -> Socket] /\ device \in Device /\ faults \in 0..MaxFaults
        /\ scanned \subseteq Token /\ 0 \in OptToken
    BY TokensAssumption DEF AccessInv, TypeOK, OptToken
  <1>2. CASE DropExpired
    <2>1. [device EXCEPT !.ready = FALSE, !.shown = 0] \in Device
      BY <1>1 DEF Device
    <2>2. QED
      BY <1>1, <1>2, <2>1, LinkStep DEF DropExpired
  <1>3. ASSUME NEW c \in Conn, HandleNewToken(c) PROVE AccessInv'
    <2> DEFINE k == Head(sockets[c].inbox)
               s == [sockets[c] EXCEPT !.inbox = Tail(sockets[c].inbox)]
               d == [device EXCEPT !.ready = TRUE, !.shown = k, !.once = TRUE]
    <2>1. sockets[c].inbox \in Seq(Token) /\ sockets[c].inbox # <<>>
      BY <1>3, Fields DEF AccessInv, HandleNewToken
    <2>2. k \in Token /\ Tail(sockets[c].inbox) \in Seq(Token)
      BY <2>1
    <2>3. s \in Socket
      BY <1>1, <2>2 DEF Socket
    <2>4. d \in Device
      BY <1>1, <2>2, Fields DEF AccessInv, Device
    <2>5. /\ device' = d /\ sockets' = [sockets EXCEPT ![c] = s]
          /\ scanned' = (IF Active(k) THEN scanned \cup {k} ELSE scanned)
          /\ UNCHANGED <<tokens, pc, ctx, registry, faults>>
      BY <1>3 DEF HandleNewToken
    <2> HIDE DEF k, s, d
    <2>6. sockets' \in [Conn -> Socket] /\ scanned' \subseteq Token
      BY <1>1, <2>2, <2>3, <2>5
    <2>7. QED
      BY <1>1, <2>4, <2>5, <2>6, LinkStep
  <1>4. ASSUME NEW c \in Conn, HandleClose(c) PROVE AccessInv'
    <2> DEFINE s == [sockets[c] EXCEPT !.state = "closed"]
    <2>1. s \in Socket
      BY <1>1 DEF Socket
    <2>2. /\ device' = Lost /\ sockets' = [sockets EXCEPT ![c] = s]
          /\ UNCHANGED <<tokens, scanned, pc, ctx, registry, faults>>
      BY <1>4 DEF HandleClose
    <2> HIDE DEF s
    <2>3. sockets' \in [Conn -> Socket]
      BY <1>1, <2>1, <2>2
    <2>4. QED
      BY <1>1, <2>2, <2>3, LostType, LinkStep
  <1>5. QED
    BY <1>2, <1>3, <1>4, ConnectStep DEF Display

LEMMA NoticeStep ==
  ASSUME AccessInv, NEW c \in Conn, ServerNotices(c) PROVE AccessInv'
  <1> DEFINE s == [sockets[c] EXCEPT !.state = "closed"]
  <1>1. /\ sockets \in [Conn -> Socket] /\ device \in Device /\ faults \in 0..MaxFaults /\ scanned \subseteq Token
    BY DEF AccessInv, TypeOK
  <1>2. s \in Socket
    BY <1>1 DEF Socket
  <1>3. sockets' = [sockets EXCEPT ![c] = s] /\ UNCHANGED <<tokens, scanned, pc, ctx, registry, device, faults>>
    BY DEF ServerNotices
  <1> HIDE DEF s
  <1>4. sockets' \in [Conn -> Socket]
    BY <1>1, <1>2, <1>3
  <1>5. QED
    BY <1>1, <1>3, <1>4, LinkStep

LEMMA FaultStep ==
  ASSUME AccessInv, LinkBreaks \/ DeviceRestarts \/ \E r \in Request : RequestAborted(r) PROVE AccessInv'
  <1>1. /\ sockets \in [Conn -> Socket] /\ device \in Device /\ faults \in 0..MaxFaults /\ scanned \subseteq Token
    BY DEF AccessInv, TypeOK
  <1>2. faults' \in 0..MaxFaults
    BY <1>1, FaultsAssumption DEF LinkBreaks, DeviceRestarts, RequestAborted, Fault
  <1>3. CASE LinkBreaks
    BY <1>1, <1>2, <1>3, LostType, LinkStep DEF LinkBreaks
  <1>4. CASE DeviceRestarts
    BY <1>1, <1>2, <1>4, LostType, EmptyTypes, LinkStep DEF DeviceRestarts
  <1>5. ASSUME NEW r \in Request, RequestAborted(r) PROVE AccessInv'
    <2>1. /\ pc' = [pc EXCEPT ![r] = "idle"] /\ ctx' = [ctx EXCEPT ![r] = NoCtx]
          /\ UNCHANGED <<tokens, scanned, registry, sockets, device>>
      BY <1>5 DEF RequestAborted, Goto
    <2>2. r \in Process /\ "idle" \in Labels \ {"consumed"} /\ r # registry
      BY Fields, SlotsAssumption DEF AccessInv, TypeOK, Labels
    <2>3. QED
      BY <1>1, <1>2, <2>1, <2>2, SeenFields, ProcessStep
  <1>6. QED
    BY <1>3, <1>4, <1>5

-----------------------------------------------------------------------------
(* The theorems.                                                           *)

LEMMA AccessInit == Init => AccessInv
  <1> SUFFICES ASSUME Init PROVE AccessInv
    OBVIOUS
  <1>1. TypeOK
    BY EmptyTypes, FaultsAssumption DEF Init, TypeOK, TokenState, Labels
  <1>2. Made = {} /\ Made = 1..0 /\ 0 \in 0..MaxTokens
    BY TokensAssumption DEF Init, Made
  <1>3. HeldInv /\ LocalsInv /\ OnlineIsServed
    BY EmptyTypes DEF Init, HeldInv, LocalsInv, OnlineIsServed
  <1>4. Numbered /\ NewestIsNotWithdrawn
    BY <1>2 DEF Numbered, NewestIsNotWithdrawn
  <1>5. QED
    BY <1>1, <1>3, <1>4 DEF AccessInv

\* Every step keeps the invariant, and a proof takes a token that nobody took.
LEMMA AccessNext ==
  ASSUME AccessInv, [Next]_vars
  PROVE  /\ AccessInv'
         /\ \A r \in Request : At(r, "consumed") /\ pc'[r] = "read" =>
               tokens[ctx[r].token] \notin {"used", "withdrawn"}
  <1>1. \A r \in Request : At(r, "consumed") => tokens[ctx[r].token] \notin {"used", "withdrawn"}
    BY Fields DEF AccessInv, HeldInv, At
  <1>2. ASSUME NEW p \in Process, Rotate(p) PROVE AccessInv'
    BY <1>2, RotateReadStep, RotateSaveStep, SendJsonStep, DisconnectStep DEF Rotate
  <1>3. Request \subseteq Process /\ Conn \subseteq Process
    BY DEF Process
  <1>4. ASSUME NEW r \in Request, RefreshDeviceToken(r) \/ Serve(r) \/ RequestAborted(r) PROVE AccessInv'
    BY <1>2, <1>3, <1>4, RefreshStep, EndProofStep, FaultStep DEF Serve
  <1>5. ASSUME NEW c \in Conn, Handle(c) \/ ServerNotices(c) PROVE AccessInv'
    BY <1>2, <1>3, <1>5, HandlerStep, NoticeStep DEF Handle
  <1>6. ASSUME UNCHANGED vars PROVE AccessInv'
    <2>1. UNCHANGED <<tokens, pc, ctx, registry>> /\ UNCHANGED <<scanned, sockets, device, faults>>
      BY <1>6 DEF vars
    <2>2. scanned' \subseteq Token /\ sockets' \in [Conn -> Socket] /\ device' \in Device /\ faults' \in 0..MaxFaults
      BY <2>1 DEF AccessInv, TypeOK
    <2>3. QED
      BY <2>1, <2>2, LinkStep
  <1>7. QED
    BY <1>1, <1>4, <1>5, <1>6, ConsumeStep, ExpireStep, DisplayStep, FaultStep DEF Next

THEOREM AccessInvariance == Spec => []AccessInv
  BY AccessInit, AccessNext, PTL DEF Spec

\* Tokens, processes, sockets and the display keep their types.
THEOREM AccessTypeCorrect == Spec => []TypeOK
  <1>1. AccessInv => TypeOK
    BY DEF AccessInv
  <1>2. QED
    BY <1>1, AccessInvariance, PTL

\* No QR is the proof of two requests, however many guests submit it at once and
\* whatever rotates in between.
THEOREM EachProofIsUsedOnce == Spec => ProofUsedOnce
  <1>1. AccessInv /\ [Next]_vars =>
          \A r \in Request : At(r, "consumed") /\ pc'[r] = "read" =>
             tokens[ctx[r].token] \notin {"used", "withdrawn"}
    BY AccessNext
  <1>2. QED
    BY <1>1, AccessInvariance, PTL DEF Spec, ProofUsedOnce

\* No rotation withdraws the newest QR: what it has read is older.
THEOREM NewestStays == Spec => []NewestIsNotWithdrawn
  <1>1. AccessInv => NewestIsNotWithdrawn
    BY DEF AccessInv
  <1>2. QED
    BY <1>1, AccessInvariance, PTL

\* Whatever ends a handler, its connection is not online after it.
THEOREM OnlineDisplaysAreServed == Spec => []OnlineIsServed
  <1>1. AccessInv => OnlineIsServed
    BY DEF AccessInv
  <1>2. QED
    BY <1>1, AccessInvariance, PTL
=============================================================================
