----------------------------- MODULE RelayProofs -----------------------------
(***************************************************************************)
(* Gateway implements Relay: every callback is, for its connection, a step *)
(* of Relay or none, and for the others none.                              *)
(***************************************************************************)
EXTENDS GatewayProofs

-----------------------------------------------------------------------------
(***************************************************************************)
(* What a callback may do to one connection, in Relay's terms.             *)
(***************************************************************************)

Moves(k, r, p, q) == Phase(k) = p /\ Phase(r) = q

Silent(k, r) == r.sent = k.sent /\ r.xmpp = k.xmpp

Says(k, r, f) == r.sent = Append(k.sent, f) /\ r.xmpp = k.xmpp

Effect(k, r) ==
    \/ Phase(r) = Phase(k) /\ Silent(k, r)
    \/ Moves(k, r, "new", "waiting") /\ Silent(k, r)
    \/ Moves(k, r, "waiting", "open") /\ Says(k, r, "accept")
    \/ Moves(k, r, "waiting", "ending") /\ (Says(k, r, "reject") \/ Silent(k, r))
    \/ Moves(k, r, "open", "open") /\ Says(k, r, "text")
    \/ Moves(k, r, "open", "open") /\ Says(k, r, "pong")
    \/ Moves(k, r, "ending", "ending") /\ R!Closed(k.sent) /\ Says(k, r, "pong")
    \/ /\ Moves(k, r, "open", "open")
       /\ R!Extends(k.xmpp, r.xmpp) /\ R!Ordered(r.xmpp)
       /\ r.sent = k.sent
    \/ Moves(k, r, "open", "ending") /\ (Says(k, r, "close") \/ Silent(k, r))
    \/ Moves(k, r, "ending", "over") /\ Silent(k, r)

\* In WS_ST_CLOSING the Close frame has been written.
CloseSent(k) == k.ws_state = "CLOSING" => R!Closed(k.sent)

\* An effect on one connection is a step of Relay.
LEMMA EffectIsStep ==
  ASSUME TypeOK, NEW c \in Conns, NEW r, Set(c, r), Effect(conn[c], r)
  PROVE  [R!Next]_(R!vars)
<1> DEFINE k == conn[c]
<1>1. conn' = [conn EXCEPT ![c] = r] /\ conn \in [Conns -> Connection]
  BY DEF Set, TypeOK
<1>2. \A d \in Conns : conn'[d] = IF d = c THEN r ELSE conn[d]
  BY <1>1
<1>3. [d \in Conns |-> Phase(conn'[d])] =
        [[d \in Conns |-> Phase(conn[d])] EXCEPT ![c] = Phase(r)]
  BY <1>2
<1>4. [d \in Conns |-> conn'[d].sent] =
        [[d \in Conns |-> conn[d].sent] EXCEPT ![c] = r.sent]
  BY <1>2
<1>5. [d \in Conns |-> conn'[d].xmpp] =
        [[d \in Conns |-> conn[d].xmpp] EXCEPT ![c] = r.xmpp]
  BY <1>2
<1>6. [d \in Conns |-> conn[d].sent][c] = k.sent
      /\ [d \in Conns |-> conn[d].xmpp][c] = k.xmpp
      /\ [d \in Conns |-> Phase(conn[d])][c] = Phase(k)
  OBVIOUS
<1>7. [d \in Conns |-> Phase(conn[d])] =
         [[d \in Conns |-> Phase(conn[d])] EXCEPT ![c] = Phase(k)]
      /\ [d \in Conns |-> conn[d].sent] =
         [[d \in Conns |-> conn[d].sent] EXCEPT ![c] = k.sent]
      /\ [d \in Conns |-> conn[d].xmpp] =
         [[d \in Conns |-> conn[d].xmpp] EXCEPT ![c] = k.xmpp]
  OBVIOUS
<1>a. ASSUME NEW f, Says(k, r, f)
      PROVE  R!Send(c, f)
  <2> DEFINE out == [d \in Conns |-> conn[d].sent]
  <2>1. Append(out[c], f) = r.sent
    BY <1>6, <1>a DEF Says
  <2>2. [out EXCEPT ![c] = Append(@, f)] = [out EXCEPT ![c] = r.sent]
    BY <2>1, Zenon
  <2> QED
    BY <2>2, <1>4, Zenon DEF R!Send
<1>b. ASSUME NEW p, NEW q, Moves(k, r, p, q)
      PROVE  R!Move(c, p, q)
  BY <1>b, <1>3, <1>6 DEF Moves, R!Move
<1>c. r.xmpp = k.xmpp => [d \in Conns |-> conn'[d].xmpp] = [d \in Conns |-> conn[d].xmpp]
  BY <1>5, <1>7
<1>d. r.sent = k.sent => [d \in Conns |-> conn'[d].sent] = [d \in Conns |-> conn[d].sent]
  BY <1>4, <1>7
<1>e. Phase(r) = Phase(k) =>
        [d \in Conns |-> Phase(conn'[d])] = [d \in Conns |-> Phase(conn[d])]
  BY <1>3, <1>7
<1>8. R!Next \/ UNCHANGED R!vars
  <2>1. CASE Phase(r) = Phase(k) /\ Silent(k, r)
    BY <2>1, <1>c, <1>d, <1>e DEF Silent, R!vars
  <2>2. CASE Moves(k, r, "new", "waiting") /\ Silent(k, r)
    <3>1. R!Accept(c)
      BY <2>2, <1>b, <1>c, <1>d DEF Silent, R!Accept
    <3> QED
      BY <3>1 DEF R!Next
  <2>3. CASE Moves(k, r, "waiting", "open") /\ Says(k, r, "accept")
    <3>1. R!Send(c, "accept") /\ R!Move(c, "waiting", "open") /\ r.xmpp = k.xmpp
      BY <2>3, <1>a, <1>b DEF Says
    <3>2. R!Open(c)
      BY <3>1, <1>c DEF R!Open
    <3> QED
      BY <3>2 DEF R!Next
  <2>4. CASE Moves(k, r, "waiting", "ending")
             /\ (Says(k, r, "reject") \/ Silent(k, r))
    <3>1. /\ R!Send(c, "reject") \/ r.sent = k.sent
          /\ R!Move(c, "waiting", "ending") /\ r.xmpp = k.xmpp
      BY <2>4, <1>a, <1>b DEF Says, Silent
    <3>2. R!Refuse(c)
      BY <3>1, <1>c, <1>d DEF R!Refuse
    <3> QED
      BY <3>2 DEF R!Next
  <2>5. CASE Moves(k, r, "open", "open") /\ Says(k, r, "text")
    <3>1. R!Send(c, "text") /\ r.xmpp = k.xmpp
      BY <2>5, <1>a DEF Says
    <3>2. Phase(r) = Phase(k) /\ Phase(k) = "open"
      BY <2>5 DEF Moves
    <3>3. R!Text(c)
      BY <3>1, <3>2, <1>c, <1>e, <1>6 DEF R!Text
    <3> QED
      BY <3>3 DEF R!Next
  <2>6. CASE /\ \/ Moves(k, r, "open", "open")
                \/ Moves(k, r, "ending", "ending") /\ R!Closed(k.sent)
             /\ Says(k, r, "pong")
    <3>1. R!Send(c, "pong") /\ r.xmpp = k.xmpp
      BY <2>6, <1>a DEF Says
    <3>2. /\ Phase(r) = Phase(k)
          /\ Phase(k) = "open" \/ (Phase(k) = "ending" /\ R!Closed(k.sent))
      BY <2>6 DEF Moves
    <3>3. R!Pong(c)
      BY <3>1, <3>2, <1>c, <1>e, <1>6 DEF R!Pong
    <3> QED
      BY <3>3 DEF R!Next
  <2>7. CASE /\ Moves(k, r, "open", "open")
             /\ R!Extends(k.xmpp, r.xmpp) /\ R!Ordered(r.xmpp)
             /\ r.sent = k.sent
    <3>1. [d \in Conns |-> conn'[d].xmpp][c] = r.xmpp
      BY <1>2
    <3>2. Phase(r) = Phase(k) /\ Phase(k) = "open"
      BY <2>7 DEF Moves
    <3>3. R!Forward(c)
      BY <2>7, <3>1, <3>2, <1>5, <1>6, <1>d, <1>e DEF R!Forward
    <3> QED
      BY <3>3 DEF R!Next
  <2>8. CASE Moves(k, r, "open", "ending")
             /\ (Says(k, r, "close") \/ Silent(k, r))
    <3>1. /\ R!Send(c, "close") \/ r.sent = k.sent
          /\ R!Move(c, "open", "ending") /\ r.xmpp = k.xmpp
      BY <2>8, <1>a, <1>b DEF Says, Silent
    <3>2. R!End(c)
      BY <3>1, <1>c, <1>d DEF R!End
    <3> QED
      BY <3>2 DEF R!Next
  <2>9. CASE Moves(k, r, "ending", "over") /\ Silent(k, r)
    <3>1. R!GiveUp(c)
      BY <2>9, <1>b, <1>c, <1>d DEF Silent, R!GiveUp
    <3> QED
      BY <3>1 DEF R!Next
  <2> QED
    BY <2>1, <2>2, <2>3, <2>4, <2>5, <2>6, <2>7, <2>8, <2>9 DEF Effect
<1> QED
  BY <1>8

-----------------------------------------------------------------------------
(***************************************************************************)
(* The effect of each operation                                            *)
(***************************************************************************)

\* Nothing that Relay sees has changed.
LEMMA SameEffect ==
  ASSUME NEW k, NEW r, CloseSent(k), r.mem = k.mem, r.ws_state = k.ws_state,
         r.sent = k.sent, r.xmpp = k.xmpp
  PROVE  Effect(k, r) /\ CloseSent(r)
  BY DEF Effect, CloseSent, Silent, Phase

\* wsconn_close writes nothing; it frees only a connection that was closing.
LEMMA CloseFields ==
  ASSUME NEW g \in Connection, g.mem = "live",
         g.ws_state \in {"START", "RECEIVING"} => g.cm_state = "CREATED"
  PROVE  LET r == wsconn_close(g)
         IN  /\ r.ws_state = "CLOSED" /\ r.sent = g.sent /\ r.xmpp = g.xmpp
             /\ \/ r.mem = "live"
                \/ r.mem = "freed" /\ g.ws_state \in {"CLOSING", "CLOSED"}
  BY DEF Connection, WsState, wsconn_close, wsconn_delete, CloseManager,
         cm_close, cm_delete, Deref

\* So it ends a session that is waiting or open, and gives up one that ends.
LEMMA CloseEffect ==
  ASSUME NEW k \in Connection, NEW g \in Connection, ConnInv(k),
         k.mem = "live", g.mem = "live", g.ws_state = k.ws_state,
         g.cm_state = k.cm_state, g.sent = k.sent, g.xmpp = k.xmpp
  PROVE  Effect(k, wsconn_close(g)) /\ CloseSent(wsconn_close(g))
<1> DEFINE r == wsconn_close(g)
<1>1. g.ws_state \in {"START", "RECEIVING"} => g.cm_state = "CREATED"
  BY DEF ConnInv, LifeInv
<1>2. /\ r.ws_state = "CLOSED" /\ r.sent = k.sent /\ r.xmpp = k.xmpp
      /\ \/ r.mem = "live"
         \/ r.mem = "freed" /\ k.ws_state \in {"CLOSING", "CLOSED"}
  BY <1>1, CloseFields
<1> HIDE DEF r
<1>3. k.ws_state \in WsState
  BY DEF Connection
<1>4. Silent(k, r) /\ CloseSent(r)
  BY <1>2 DEF Silent, CloseSent
<1>5. \/ Moves(k, r, "waiting", "ending") \/ Moves(k, r, "open", "ending")
      \/ Moves(k, r, "ending", "over")    \/ Phase(r) = Phase(k)
  BY <1>2, <1>3 DEF WsState, Moves, Phase
<1> QED
  BY <1>4, <1>5 DEF Effect, r

\* The request is refused: the response, then wsconn_close.
LEMMA RejectEffect ==
  ASSUME NEW k \in Connection, ConnInv(k), k.mem = "live", k.ws_state = "START"
  PROVE  LET r == wsconn_close(wsconn_write_frame(k, "reject"))
         IN  Effect(k, r) /\ CloseSent(r)
<1> DEFINE s == Append(k.sent, "reject")
           g == wsconn_write_frame(k, "reject")
           r == wsconn_close(g)
<1>1. g \in Connection /\ g = [k EXCEPT !.sent = s, !.pending = TRUE]
  BY WriteType, WriteShape DEF Output
<1> HIDE DEF g, s
<1>2. /\ g.mem = "live" /\ g.ws_state = "START" /\ g.cm_state = "CREATED"
      /\ g.sent = s /\ g.xmpp = k.xmpp
  BY <1>1 DEF ConnInv, LifeInv, Connection
<1>3. r.ws_state = "CLOSED" /\ r.sent = s /\ r.xmpp = k.xmpp /\ r.mem = "live"
  BY <1>1, <1>2, CloseFields
<1> HIDE DEF r
<1>4. Moves(k, r, "waiting", "ending") /\ Says(k, r, "reject") /\ CloseSent(r)
  BY <1>3 DEF Moves, Says, CloseSent, Phase, s
<1> QED
  BY <1>4 DEF Effect, r, g

\* The request is accepted.
LEMMA AcceptEffect ==
  ASSUME NEW k \in Connection, k.mem = "live", k.ws_state = "START"
  PROVE  LET r == [wsconn_write_frame(k, "accept") EXCEPT
                      !.ws_state = "RECEIVING", !.fl_cm_closed = FALSE]
         IN  Effect(k, r) /\ CloseSent(r)
<1> DEFINE s == Append(k.sent, "accept")
           g == wsconn_write_frame(k, "accept")
           r == [g EXCEPT !.ws_state = "RECEIVING", !.fl_cm_closed = FALSE]
<1>1. g = [k EXCEPT !.sent = s, !.pending = TRUE]
  BY WriteShape DEF Output
<1> HIDE DEF g, s
<1>2. r.mem = "live" /\ r.ws_state = "RECEIVING" /\ r.sent = s /\ r.xmpp = k.xmpp
  BY <1>1 DEF Connection
<1> HIDE DEF r
<1>3. Moves(k, r, "waiting", "open") /\ Says(k, r, "accept") /\ CloseSent(r)
  BY <1>2 DEF Moves, Says, CloseSent, Phase, s
<1> QED
  BY <1>3 DEF Effect, r, g

\* A longer sequence still holds the Close frame.
LEMMA ClosedStays ==
  ASSUME NEW s \in Seq(Output), NEW f \in Output
  PROVE  /\ R!Closed(s) => R!Closed(Append(s, f))
         /\ f = "close" => R!Closed(Append(s, f))
<1>1. /\ Len(s) \in Nat /\ Len(Append(s, f)) = Len(s) + 1
      /\ \A i \in 1 .. Len(s) : Append(s, f)[i] = s[i]
      /\ Append(s, f)[Len(s) + 1] = f
  BY AppendFacts
<1>2. R!Closed(s) => R!Closed(Append(s, f))
  BY <1>1 DEF R!Closed
<1>3. f = "close" => R!Closed(Append(s, f))
  BY <1>1 DEF R!Closed
<1> QED
  BY <1>2, <1>3

\* A text frame in an open session; a Pong there and after the Close frame.
LEMMA FrameEffect ==
  ASSUME NEW k \in Connection, NEW t \in Connection, CloseSent(k),
         k.mem = "live", t.mem = "live", t.ws_state = k.ws_state,
         t.sent = k.sent, t.xmpp = k.xmpp,
         NEW f \in {"pong", "text"},
         k.ws_state = "RECEIVING" \/ (k.ws_state = "CLOSING" /\ f = "pong")
  PROVE  LET r == wsconn_write_frame(t, f)
         IN  Effect(k, r) /\ CloseSent(r)
<1> DEFINE s == Append(t.sent, f)
           r == wsconn_write_frame(t, f)
<1>1. r = [t EXCEPT !.sent = s, !.pending = TRUE]
  BY WriteShape DEF Output
<1>2. R!Closed(k.sent) => R!Closed(s)
  BY ClosedStays DEF Connection, Output
<1> HIDE DEF s, r
<1>3. r.mem = "live" /\ r.ws_state = k.ws_state /\ r.sent = s /\ r.xmpp = k.xmpp
  BY <1>1 DEF Connection
<1>4. Says(k, r, f) /\ CloseSent(r)
  BY <1>2, <1>3 DEF Says, CloseSent, s
<1>5. \/ Moves(k, r, "open", "open")
      \/ Moves(k, r, "ending", "ending") /\ R!Closed(k.sent) /\ f = "pong"
  BY <1>3 DEF Moves, Phase, CloseSent
<1> QED
  BY <1>4, <1>5 DEF Effect, r

\* The Close frame ends an open session.
LEMMA EndEffect ==
  ASSUME NEW k \in Connection, k.mem = "live", k.ws_state = "RECEIVING",
         NEW r, r.mem = "live", r.ws_state = "CLOSING",
         r.sent = Append(k.sent, "close"), r.xmpp = k.xmpp
  PROVE  Effect(k, r) /\ CloseSent(r)
<1>1. CloseSent(r)
  BY ClosedStays DEF Connection, Output, CloseSent
<1>2. Moves(k, r, "open", "ending") /\ Says(k, r, "close")
  BY DEF Moves, Says, Phase
<1> QED
  BY <1>1, <1>2 DEF Effect

\* A Close frame from the client ends the session, once.
LEMMA InitiateCloseEffect ==
  ASSUME NEW k \in Connection, NEW t \in Connection, CloseSent(k),
         ConnInv(t), RunInv(t), k.mem = "live", t.ws_state = k.ws_state,
         t.sent = k.sent, t.xmpp = k.xmpp
  PROVE  LET r == wsconn_initiate_close(t)
         IN  Effect(k, r) /\ CloseSent(r)
<1> DEFINE r == wsconn_initiate_close(t)
<1>1. CASE t.ws_state = "CLOSING"
  <2>1. r = t /\ t.mem = "live"
    BY <1>1 DEF ConnInv, WireInv, RunInv, wsconn_initiate_close
  <2> QED
    BY <2>1, SameEffect
<1>2. CASE t.ws_state = "RECEIVING"
  <2> DEFINE s == Append(t.sent, "close")
  <2>1. r = [t EXCEPT !.sent = s, !.pending = TRUE,
                      !.ws_state = "CLOSING", !.fl_ws_closing = TRUE,
                      !.cm_state = "CLOSING", !.cm_open = FALSE,
                      !.link = "null", !.buffer = <<>>]
    BY <1>2, ReceivingFacts, InitiateCloseShape DEF RunInv
  <2> HIDE DEF s, r
  <2>2. r.mem = "live" /\ r.ws_state = "CLOSING" /\ r.sent = s /\ r.xmpp = t.xmpp
    BY <2>1 DEF RunInv, Connection
  <2> QED
    BY <1>2, <2>2, EndEffect DEF s, r
<1> QED
  BY <1>1, <1>2 DEF RunInv

\* So does a failure of the XMPP connection.
LEMMA XmppErrorEffect ==
  ASSUME NEW k \in Connection, NEW t \in Connection,
         k.mem = "live", k.ws_state = "RECEIVING",
         t.sent = k.sent, t.xmpp = k.xmpp,
         ~t.fault, t.mem = "live", t.cm_mem = "live",
         t.ws_state = "RECEIVING", ~t.fl_ws_closing
  PROVE  LET r == cm_eventcb_error(t)
         IN  /\ r.mem = "live" /\ r.ws_state = "CLOSING"
             /\ r.sent = Append(k.sent, "close") /\ r.xmpp = k.xmpp
             /\ DOMAIN r = DOMAIN t
<1> DEFINE r == cm_eventcb_error(t)
           s == Append(t.sent, "close")
<1>1. r = [t EXCEPT !.sent = s, !.pending = TRUE,
                    !.ws_state = "CLOSING", !.fl_ws_closing = TRUE,
                    !.cm_state = "CLOSED", !.fl_cm_closed = TRUE,
                    !.cm_open = FALSE, !.link = "null", !.buffer = <<>>]
  BY XmppErrorShape
<1>2. s = Append(k.sent, "close")
  OBVIOUS
<1> HIDE DEF s, r
<1>3. r.mem = "live" /\ r.ws_state = "CLOSING" /\ r.sent = s /\ r.xmpp = t.xmpp
      /\ DOMAIN r = DOMAIN t
  BY <1>1 DEF Connection
<1> QED
  BY <1>2, <1>3 DEF r

\* A written output gives up a session whose Close frame it was.
LEMMA DrainedEffect ==
  ASSUME NEW k \in Connection, k.mem = "live", CloseSent(k)
  PROVE  LET r == wsconn_write_cb([k EXCEPT !.pending = FALSE])
         IN  Effect(k, r) /\ CloseSent(r)
<1> DEFINE r == wsconn_write_cb([k EXCEPT !.pending = FALSE])
<1>1. /\ r.ws_state = k.ws_state /\ r.sent = k.sent /\ r.xmpp = k.xmpp
      /\ r.mem = IF k.ws_state = "CLOSING" THEN "freed" ELSE "live"
  BY DEF Connection, wsconn_write_cb, wsconn_delete, cm_delete, cm_close, Deref
<1> HIDE DEF r
<1>2. CASE k.ws_state = "CLOSING"
  <2>1. Moves(k, r, "ending", "over") /\ Silent(k, r)
    BY <1>1, <1>2 DEF Moves, Silent, Phase
  <2> QED
    BY <1>1, <2>1 DEF Effect, CloseSent, r
<1>3. CASE k.ws_state # "CLOSING"
  BY <1>1, <1>3, SameEffect DEF r
<1> QED
  BY <1>2, <1>3

\* Messages reach the server: the sequence grows and stays in order.
LEMMA ForwardEffect ==
  ASSUME NEW k \in Connection, k.mem = "live", k.ws_state = "RECEIVING",
         NEW r, ConnInv(r), r.mem = "live", r.ws_state = "RECEIVING",
         r.sent = k.sent, R!Extends(k.xmpp, r.xmpp)
  PROVE  Effect(k, r) /\ CloseSent(r)
<1>1. R!Ordered(r.xmpp)
  BY DEF ConnInv, ForwardInv, R!Ordered
<1>2. Moves(k, r, "open", "open") /\ CloseSent(r)
  BY DEF Moves, CloseSent, Phase
<1> QED
  BY <1>1, <1>2 DEF Effect

\* The XMPP connection is up and the buffered messages are sent.
LEMMA XmppConnectedEffect ==
  ASSUME NEW k \in Connection, ConnInv(k), k.link = "connecting"
  PROVE  LET r == cm_eventcb_connected(k)
         IN  Effect(k, r) /\ CloseSent(r)
<1> DEFINE x == k.xmpp \o k.buffer
           r == cm_eventcb_connected(k)
<1>1. k.mem = "live" /\ k.ws_state = "RECEIVING" /\ k.xmpp = <<>> /\ k.cm_open
  BY DEF ConnInv, LifeInv, LinkInv, ForwardInv
<1>2. r = [Deref(k, k.cm_open) EXCEPT !.link = "connected", !.state = "FORWARD",
                                      !.xmpp = x, !.buffer = <<>>]
  BY DEF cm_eventcb_connected, Deref, Connection
<1>3. ConnInv(r)
  BY XmppConnectedInv
<1>4. R!Extends(k.xmpp, x)
  BY <1>1 DEF R!Extends, Connection
<1> HIDE DEF x, r
<1>5. r.mem = "live" /\ r.ws_state = "RECEIVING" /\ r.sent = k.sent /\ r.xmpp = x
  BY <1>1, <1>2 DEF Deref, Connection
<1> QED
  BY <1>1, <1>3, <1>4, <1>5, ForwardEffect DEF r

\* A text message: nothing that Relay sees, an end because cm_connect failed,
\* or one more message for the server.
LEMMA OnMessageEffect ==
  ASSUME NEW k \in Connection, NEW t \in Connection, CloseSent(k),
         ConnInv(t), RunInv(t), k.mem = "live", t.ws_state = k.ws_state,
         t.sent = k.sent, t.xmpp = k.xmpp,
         NEW parse \in ParseResult, NEW result \in ConnectResult
  PROVE  LET r == cm_onmessage(t, parse, result)
         IN  Effect(k, r) /\ CloseSent(r)
<1> DEFINE m == t.msgs + 1
           c == [t EXCEPT !.msgs = m]
           p == Deref(c, t.cm_open)
           b == [p EXCEPT !.buffer = Append(@, m)]
           r == cm_onmessage(t, parse, result)
<1>1. m \in Nat /\ t.mem = "live" /\ ~t.fault /\ t.state \in State
  BY DEF Connection, RunInv, ConnInv, LifeInv
<1>2. t.state # "CONNECT" => t.cm_open /\ t.ws_state = "RECEIVING"
  BY DEF RunInv, ConnInv, LifeInv, Connection
<1>3. c.mem = "live" /\ c.ws_state = t.ws_state /\ c.sent = t.sent
      /\ c.xmpp = t.xmpp
  BY <1>1 DEF Connection
<1>4. t.cm_open => p = c
  BY <1>1 DEF Deref, Connection
<1>5. CASE t.state = "START"
  <2>0. t.cm_open /\ t.ws_state = "RECEIVING" /\ p = c
    BY <1>2, <1>4, <1>5
  <2>1. CASE t.error \/ parse = "error"
    <3>1. r = [c EXCEPT !.error = TRUE]
      BY <1>5, <2>0, <2>1 DEF cm_onmessage
    <3>2. r.mem = k.mem /\ r.ws_state = k.ws_state /\ r.sent = k.sent
          /\ r.xmpp = k.xmpp
      BY <3>1, <1>3 DEF Connection
    <3> HIDE DEF r
    <3> QED
      BY <3>2, SameEffect DEF r
  <2>2. CASE ~t.error /\ parse # "error"
    <3> DEFINE s == Append(t.buffer, m)
    <3>1. s \in Seq(Nat) /\ c.buffer = t.buffer
      BY <1>1 DEF Connection
    <3>2. b = [t EXCEPT !.msgs = m, !.buffer = s]
      BY <2>0, <3>1 DEF Connection
    <3> HIDE DEF s
    <3>3. b \in Connection
      <4> HIDE DEF b, m
      <4> QED
        BY <1>1, <3>1, <3>2 DEF Connection
    <3>4. /\ b.mem = "live" /\ b.ws_state = "RECEIVING" /\ b.sent = k.sent
          /\ b.xmpp = k.xmpp /\ ~b.fault /\ b.cm_mem = t.cm_mem
          /\ b.fl_ws_closing = t.fl_ws_closing
      <4> HIDE DEF b, m
      <4> QED
        BY <1>1, <2>0, <3>2 DEF Connection
    <3>5. b.cm_mem = "live" /\ ~b.fl_ws_closing
      BY <1>1, <2>0, <3>4, ReceivingFacts
    <3>6. CASE parse = "more"
      <4>1. r = b
        BY <1>5, <2>0, <2>2, <3>6 DEF cm_onmessage
      <4> HIDE DEF b
      <4> QED
        BY <2>0, <3>4, <4>1, SameEffect
    <3>7. CASE parse = "server"
      <4>1. r = [cm_connect(b, result) EXCEPT !.state = "CONNECT"]
        BY <1>5, <2>0, <2>2, <3>7 DEF cm_onmessage
      <4> HIDE DEF b, r
      <4>2. CASE result # "error"
        <5>1. r = [[b EXCEPT !.link = result] EXCEPT !.state = "CONNECT"]
          BY <4>1, <4>2 DEF cm_connect
        <5>2. r.mem = k.mem /\ r.ws_state = k.ws_state /\ r.sent = k.sent
              /\ r.xmpp = k.xmpp
          BY <2>0, <3>3, <3>4, <5>1 DEF Connection
        <5> QED
          BY <5>2, SameEffect DEF r
      <4>3. CASE result = "error"
        <5> DEFINE g == [b EXCEPT !.link = "connecting"]
                   e == cm_eventcb_error(g)
        <5>1. /\ g \in Connection /\ g.mem = "live" /\ g.ws_state = "RECEIVING"
              /\ g.sent = k.sent /\ g.xmpp = k.xmpp /\ ~g.fault
              /\ g.cm_mem = "live" /\ ~g.fl_ws_closing
          BY <3>3, <3>4, <3>5 DEF Connection, Link
        <5>2. r = [e EXCEPT !.state = "CONNECT"]
          BY <4>1, <4>3 DEF cm_connect
        <5> HIDE DEF g
        <5>3. /\ e.mem = "live" /\ e.ws_state = "CLOSING"
              /\ e.sent = Append(k.sent, "close") /\ e.xmpp = k.xmpp
              /\ DOMAIN e = DOMAIN g
          BY <2>0, <5>1, XmppErrorEffect
        <5> HIDE DEF e
        <5>4. /\ r.mem = "live" /\ r.ws_state = "CLOSING"
              /\ r.sent = e.sent /\ r.xmpp = k.xmpp
          BY <5>1, <5>2, <5>3 DEF Connection
        <5>5. r.sent = Append(k.sent, "close")
          BY <5>3, <5>4
        <5> QED
          BY <2>0, <5>4, <5>5, EndEffect DEF r
      <4> QED
        BY <4>2, <4>3
    <3> QED
      BY <2>2, <3>6, <3>7 DEF ParseResult
  <2> QED
    BY <2>1, <2>2
<1>6. CASE t.state = "CONNECT"
  <2>1. r = c
    BY <1>6 DEF cm_onmessage
  <2> HIDE DEF c
  <2> QED
    BY <2>1, <1>3, SameEffect
<1>7. CASE t.state = "FORWARD"
  <2> DEFINE x == Append(t.xmpp, m)
  <2>1. t.link # "null" /\ t.ws_state = "RECEIVING" /\ t.xmpp \in Seq(Nat)
    BY <1>2, <1>7 DEF ConnInv, LinkInv, Connection
  <2>2. r = [Deref(c, t.link # "null") EXCEPT !.xmpp = x]
    BY <1>3, <1>7 DEF cm_onmessage, Deref, Connection
  <2>3. ConnInv(r)
    BY OnMessageInv
  <2>4. R!Extends(t.xmpp, x)
    BY <1>1, <2>1 DEF R!Extends
  <2> HIDE DEF x, r
  <2>5. r.mem = "live" /\ r.ws_state = "RECEIVING" /\ r.sent = k.sent /\ r.xmpp = x
    BY <1>3, <2>1, <2>2 DEF Deref, Connection
  <2> QED
    BY <2>1, <2>3, <2>4, <2>5, ForwardEffect DEF r
<1> QED
  BY <1>1, <1>5, <1>6, <1>7 DEF State

-----------------------------------------------------------------------------
(***************************************************************************)
(* The refinement                                                          *)
(***************************************************************************)

\* In WS_ST_CLOSING the Close frame has been written: the strengthening that
\* Relay's Pong needs.
CloseWritten == \A c \in Conns : CloseSent(conn[c])

\* The decoder's item changes nothing that Relay sees.
LEMMA TakenFields ==
  ASSUME NEW k \in Connection, ConnInv(k), RunInv(k), NEW t \in Taken(k)
  PROVE  /\ t \in Connection /\ ConnInv(t) /\ RunInv(t)
         /\ [t EXCEPT !.failed = TRUE] \in Connection
         /\ t.mem = k.mem /\ t.ws_state = k.ws_state /\ t.cm_state = k.cm_state
         /\ t.sent = k.sent /\ t.xmpp = k.xmpp
<1>1. PICK a \in Nat, m \in BOOLEAN : t = [k EXCEPT !.rcvd = a, !.more = m]
  BY TakenShape
<1>2. k.mem = "live"
  BY DEF RunInv
<1>3. ConnInv(t)
  BY <1>1, <1>2, ItemInv
<1>4. t \in Connection
  BY TakenType
<1> QED
  BY ZenonT(40), <1>1, <1>3, <1>4 DEF RunInv, Connection

\* Every step of Gateway is a step of Relay or none.
LEMMA RelayStep ==
  TypeOK /\ Consistent /\ CloseWritten /\ [Next]_vars
    => [R!Next]_(R!vars) /\ CloseWritten'
<1> SUFFICES ASSUME TypeOK, Consistent, CloseWritten, [Next]_vars
             PROVE  [R!Next]_(R!vars) /\ CloseWritten'
  OBVIOUS
<1>1. ASSUME UNCHANGED conn
      PROVE  [R!Next]_(R!vars) /\ CloseWritten'
  BY <1>1 DEF R!vars, CloseWritten
<1>2. ASSUME NEW c \in Conns, NEW r, Set(c, r), Effect(conn[c], r), CloseSent(r)
      PROVE  [R!Next]_(R!vars) /\ CloseWritten'
  <2>1. [R!Next]_(R!vars)
    BY <1>2, EffectIsStep
  <2>2. conn' = [conn EXCEPT ![c] = r] /\ conn \in [Conns -> Connection]
    BY <1>2 DEF Set, TypeOK
  <2>3. \A d \in Conns : conn'[d] = IF d = c THEN r ELSE conn[d]
    BY <2>2
  <2>4. CloseWritten'
    BY <1>2, <2>3 DEF CloseWritten
  <2> QED
    BY <2>1, <2>4
<1>3. ASSUME NEW c \in Conns,
             \/ Accept(c)           \/ RequestError(c)
             \/ HandshakeAccept(c)  \/ HandshakeReject(c)
             \/ ReadFrames(c)       \/ Loop(c)
             \/ WriteDrained(c)     \/ ClientReadEnd(c) \/ ClientWriteError(c)
             \/ XmppConnected(c)    \/ XmppError(c)
             \/ XmppEof(c)          \/ XmppRead(c)
      PROVE  [R!Next]_(R!vars) /\ CloseWritten'
  <2> DEFINE k == conn[c]
  <2>0. k \in Connection /\ ConnInv(k) /\ CloseSent(k)
    BY DEF TypeOK, Consistent, CloseWritten
  <2>a. k.link # "null" => k.mem = "live" /\ k.ws_state = "RECEIVING"
    BY <2>0 DEF ConnInv, LifeInv, LinkInv
  <2>1. CASE Accept(c)
    <3> DEFINE r == wsconn_create(k)
    <3>1. Set(c, r) /\ k.mem = "none"
      BY <2>1 DEF Accept, Callback
    <3>2. k = NoConnection
      BY <2>0, <3>1 DEF ConnInv, LifeInv
    <3>3. r.mem = "live" /\ r.ws_state = "START" /\ Silent(k, r)
      BY <3>2 DEF wsconn_create, cm_create, NoConnection, Silent
    <3> HIDE DEF r
    <3>4. Effect(k, r) /\ CloseSent(r)
      BY <3>1, <3>3 DEF Effect, Moves, Phase, CloseSent
    <3> QED
      BY <1>2, <3>1, <3>4
  <2>2. CASE RequestError(c)
    <3>1. Set(c, wsconn_close(k)) /\ k.mem = "live"
      BY <2>2 DEF RequestError, Callback, Idle
    <3> QED
      BY <1>2, <2>0, <3>1, CloseEffect
  <2>3. CASE HandshakeAccept(c)
    BY <1>2, <2>0, <2>3, AcceptEffect DEF HandshakeAccept, Callback, Idle
  <2>4. CASE HandshakeReject(c)
    BY <1>2, <2>0, <2>4, RejectEffect DEF HandshakeReject, Callback, Idle
  <2>5. CASE ReadFrames(c)
    <3>1. PICK m \in BOOLEAN : Set(c, [k EXCEPT !.more = m])
      BY <2>5 DEF ReadFrames, More
    <3> DEFINE r == [k EXCEPT !.more = m]
    <3>2. r.mem = k.mem /\ r.ws_state = k.ws_state /\ r.sent = k.sent
          /\ r.xmpp = k.xmpp
      BY <2>0 DEF Connection
    <3> HIDE DEF r
    <3>3. Effect(k, r) /\ CloseSent(r)
      BY <2>0, <3>2, SameEffect
    <3> QED
      BY <1>2, <3>1, <3>3 DEF r
  <2>6. CASE Loop(c)
    <3>0. running = c
      BY <2>6 DEF Loop, LoopDone, LoopFail, LoopClose, LoopPing, LoopIgnore,
                  LoopText, Turn
    <3>1. RunInv(k)
      BY <3>0, NoneAssumption DEF Consistent
    <3>2. CASE LoopDone(c)
      BY <1>1, <3>2 DEF LoopDone
    <3>3. CASE LoopFail(c)
      <4>1. PICK t \in Taken(k) : Set(c, wsconn_close([t EXCEPT !.failed = TRUE]))
        BY <3>3 DEF LoopFail
      <4> DEFINE g == [t EXCEPT !.failed = TRUE]
      <4>2. g \in Connection /\ k.mem = "live" /\ t \in Connection
        BY <2>0, <3>1, TakenFields DEF RunInv
      <4>3. /\ t.mem = k.mem /\ t.ws_state = k.ws_state
            /\ t.cm_state = k.cm_state /\ t.sent = k.sent /\ t.xmpp = k.xmpp
        BY <2>0, <3>1, TakenFields
      <4>4. /\ g.mem = k.mem /\ g.ws_state = k.ws_state
            /\ g.cm_state = k.cm_state /\ g.sent = k.sent /\ g.xmpp = k.xmpp
        BY <4>2, <4>3 DEF Connection
      <4> HIDE DEF g
      <4>5. Effect(k, wsconn_close(g)) /\ CloseSent(wsconn_close(g))
        BY <2>0, <4>2, <4>4, CloseEffect
      <4> QED
        BY <1>2, <4>1, <4>5 DEF g
    <3>4. CASE LoopClose(c)
      <4>1. PICK t \in Taken(k) : Set(c, wsconn_initiate_close(t))
        BY <3>4 DEF LoopClose
      <4>2. Effect(k, wsconn_initiate_close(t))
            /\ CloseSent(wsconn_initiate_close(t))
        BY <2>0, <3>1, TakenFields, InitiateCloseEffect DEF RunInv
      <4> QED
        BY <1>2, <4>1, <4>2
    <3>5. CASE LoopPing(c)
      <4>1. PICK t \in Taken(k) : Set(c, wsconn_write_frame(t, "pong"))
        BY <3>5 DEF LoopPing
      <4>2. Effect(k, wsconn_write_frame(t, "pong"))
            /\ CloseSent(wsconn_write_frame(t, "pong"))
        BY <2>0, <3>1, TakenFields, FrameEffect DEF RunInv
      <4> QED
        BY <1>2, <4>1, <4>2
    <3>6. CASE LoopIgnore(c)
      <4>1. PICK t \in Taken(k) : Set(c, t)
        BY <3>6 DEF LoopIgnore
      <4>2. Effect(k, t) /\ CloseSent(t)
        BY <2>0, <3>1, TakenFields, SameEffect
      <4> QED
        BY <1>2, <4>1, <4>2
    <3>7. CASE LoopText(c)
      <4>1. PICK t \in Taken(k), parse \in ParseResult, result \in ConnectResult :
                Set(c, cm_onmessage(t, parse, result))
        BY <3>7 DEF LoopText
      <4>2. Effect(k, cm_onmessage(t, parse, result))
            /\ CloseSent(cm_onmessage(t, parse, result))
        BY <2>0, <3>1, TakenFields, OnMessageEffect DEF RunInv
      <4> QED
        BY <1>2, <4>1, <4>2
    <3> QED
      BY <3>2, <3>3, <3>4, <3>5, <3>6, <3>7, <2>6 DEF Loop
  <2>7. CASE WriteDrained(c)
    BY <1>2, <2>0, <2>7, DrainedEffect DEF WriteDrained, Callback, Idle
  <2>8. CASE ClientReadEnd(c)
    <3> DEFINE g == [k EXCEPT !.rd = FALSE]
    <3>1. Set(c, wsconn_close(g)) /\ k.mem = "live"
      BY <2>8 DEF ClientReadEnd, Callback, Idle
    <3>2. /\ g \in Connection /\ g.mem = k.mem /\ g.ws_state = k.ws_state
          /\ g.cm_state = k.cm_state /\ g.sent = k.sent /\ g.xmpp = k.xmpp
      BY <2>0 DEF Connection
    <3> HIDE DEF g
    <3> QED
      BY <1>2, <2>0, <3>1, <3>2, CloseEffect
  <2>9. CASE ClientWriteError(c)
    <3> DEFINE g == [k EXCEPT !.wr = FALSE]
    <3>1. Set(c, wsconn_close(g)) /\ k.mem = "live"
      BY <2>9 DEF ClientWriteError, Callback, Idle
    <3>2. /\ g \in Connection /\ g.mem = k.mem /\ g.ws_state = k.ws_state
          /\ g.cm_state = k.cm_state /\ g.sent = k.sent /\ g.xmpp = k.xmpp
      BY <2>0 DEF Connection
    <3> HIDE DEF g
    <3> QED
      BY <1>2, <2>0, <3>1, <3>2, CloseEffect
  <2>10. CASE XmppConnected(c)
    BY <1>2, <2>0, <2>10, XmppConnectedEffect DEF XmppConnected, Callback
  <2>11. CASE XmppError(c)
    <3> DEFINE r == cm_eventcb_error(k)
    <3>1. Set(c, r) /\ k.mem = "live" /\ k.ws_state = "RECEIVING"
      BY <2>a, <2>11 DEF XmppError, Callback
    <3>2. ~k.fault /\ k.cm_mem = "live" /\ ~k.fl_ws_closing
      BY <2>0, <3>1, ReceivingFacts
    <3>3. /\ r.mem = "live" /\ r.ws_state = "CLOSING"
          /\ r.sent = Append(k.sent, "close") /\ r.xmpp = k.xmpp
      BY <2>0, <3>1, <3>2, XmppErrorEffect
    <3> HIDE DEF r
    <3>4. Effect(k, r) /\ CloseSent(r)
      BY <2>0, <3>1, <3>3, EndEffect
    <3> QED
      BY <1>2, <3>1, <3>4
  <2>12. CASE XmppEof(c)
    <3> DEFINE r == [k EXCEPT !.link = "eof"]
    <3>1. Set(c, r)
      BY <2>12 DEF XmppEof, Callback
    <3>2. r.mem = k.mem /\ r.ws_state = k.ws_state /\ r.sent = k.sent
          /\ r.xmpp = k.xmpp
      BY <2>0 DEF Connection
    <3> HIDE DEF r
    <3> QED
      BY <1>2, <2>0, <3>1, <3>2, SameEffect
  <2>13. CASE XmppRead(c)
    <3>1. Set(c, wsconn_write_frame(k, "text")) /\ k.link # "null"
      BY <2>13 DEF XmppRead, Callback
    <3>2. Effect(k, wsconn_write_frame(k, "text"))
          /\ CloseSent(wsconn_write_frame(k, "text"))
      BY <2>0, <2>a, <3>1, FrameEffect
    <3> QED
      BY <1>2, <3>1, <3>2
  <2> QED
    BY <1>3, <2>1, <2>2, <2>3, <2>4, <2>5, <2>6, <2>7, <2>8, <2>9, <2>10,
       <2>11, <2>12, <2>13
<1> QED
  BY <1>1, <1>3 DEF Next, vars

\* For any number of connections, jabsocket keeps what Relay promises: each
\* browser is answered once, its session is relayed in order in both
\* directions, ended once and only then given up.
THEOREM Refinement == Spec => KeepsPromise
<1>1. Init => R!Init /\ CloseWritten
  BY DEF Init, NoConnection, R!Init, Phase, CloseWritten, CloseSent
<1>2. TypeOK /\ Consistent /\ CloseWritten /\ [Next]_vars
        => [R!Next]_(R!vars) /\ CloseWritten'
  BY RelayStep
<1> QED
  BY <1>1, <1>2, TypeCorrect, AlwaysConsistent, PTL DEF Spec, KeepsPromise, R!Spec

=============================================================================
