---------------------------- MODULE GatewayProofs ----------------------------
(***************************************************************************)
(* Proofs about Gateway, for every set of connections and every bound.     *)
(***************************************************************************)
EXTENDS Gateway, TLAPS

-----------------------------------------------------------------------------
(***************************************************************************)
(* Every operation on a connection gives a connection.                     *)
(***************************************************************************)

\* The record of a connection not accepted yet is a connection.
LEMMA NoConnectionType == NoConnection \in Connection
  BY DEF NoConnection, Connection, WsState, CmState, State, Memory, Link, Output

\* Marking a fault keeps the type.
LEMMA DerefType ==
  ASSUME NEW k \in Connection, NEW ok \in BOOLEAN
  PROVE  Deref(k, ok) \in Connection
  BY DEF Deref, Connection

\* cm_create and wsconn_create keep the type.
LEMMA CreateType ==
  ASSUME NEW k \in Connection
  PROVE  wsconn_create(k) \in Connection
  BY DEF wsconn_create, cm_create, Connection, Memory

\* cm_close keeps the type.
LEMMA CmCloseType ==
  ASSUME NEW k \in Connection
  PROVE  cm_close(k) \in Connection
<1> DEFINE d == Deref(k, k.cm_mem = "live")
<1>1. d \in Connection
  BY DerefType
<1> HIDE DEF d
<1>2. ASSUME NEW s \in Seq(Nat)
      PROVE  [d EXCEPT !.cm_open = FALSE, !.link = "null", !.buffer = s]
                \in Connection
  BY <1>1 DEF Connection, Link
<1>3. <<>> \in Seq(Nat)
  OBVIOUS
<1>4. [d EXCEPT !.cm_open = FALSE, !.link = "null", !.buffer = <<>>]
          \in Connection
  BY <1>2, <1>3
<1> QED
  BY <1>4 DEF cm_close, d

\* wsconn_delete keeps the type.
LEMMA DeleteType ==
  ASSUME NEW k \in Connection
  PROVE  wsconn_delete(k) \in Connection
<1> DEFINE d == cm_close(Deref(k, k.mem = "live"))
<1>1. d \in Connection
  BY DerefType, CmCloseType
<1> HIDE DEF d
<1>2. [d EXCEPT !.cm_mem = "freed"] \in Connection
  BY <1>1 DEF Connection, Memory
<1>3. ASSUME NEW e \in Connection
      PROVE  [e EXCEPT !.mem = "freed", !.more = FALSE] \in Connection
  BY DEF Connection, Memory
<1>4. [[d EXCEPT !.cm_mem = "freed"] EXCEPT !.mem = "freed", !.more = FALSE]
          \in Connection
  BY <1>2, <1>3
<1> QED
  BY <1>4 DEF wsconn_delete, cm_delete, d

\* wsconn_write_frame keeps the type.
LEMMA WriteType ==
  ASSUME NEW k \in Connection, NEW f \in Output
  PROVE  wsconn_write_frame(k, f) \in Connection
<1> DEFINE d == Deref(k, k.mem = "live")
<1>1. d \in Connection
  BY DerefType
<1> HIDE DEF d
<1>2. ASSUME NEW s \in Seq(Output)
      PROVE  [d EXCEPT !.sent = s, !.pending = TRUE] \in Connection
  BY <1>1 DEF Connection
<1>3. d.sent \in Seq(Output)
  BY <1>1 DEF Connection
<1>4. Append(d.sent, f) \in Seq(Output)
  BY <1>3
<1>5. [d EXCEPT !.sent = Append(@, f), !.pending = TRUE] \in Connection
  BY <1>2, <1>4
<1> QED
  BY <1>5 DEF wsconn_write_frame, d

\* The closing functions keep the type.
LEMMA CloseManagerType ==
  ASSUME NEW k \in Connection
  PROVE  CloseManager(k) \in Connection
<1>1. cm_close(k) \in Connection
  BY CmCloseType
<1>2. ASSUME NEW c \in Connection
      PROVE  [c EXCEPT !.cm_state = "CLOSING"] \in Connection
  BY DEF Connection, CmState
<1>3. [cm_close(k) EXCEPT !.cm_state = "CLOSING"] \in Connection
  BY <1>1, <1>2
<1> QED
  BY <1>3 DEF CloseManager

\* wsconn_close keeps the type.
LEMMA CloseType ==
  ASSUME NEW k \in Connection
  PROVE  wsconn_close(k) \in Connection
<1> DEFINE d == Deref(k, k.mem = "live")
           c == [d EXCEPT !.ws_state = "CLOSED"]
<1>1. d \in Connection
  BY DerefType
<1>2. c \in Connection
  BY <1>1 DEF Connection, WsState
<1>3. wsconn_delete(c) \in Connection /\ CloseManager(c) \in Connection
  BY <1>2, DeleteType, CloseManagerType
<1> QED
  BY <1>3 DEF wsconn_close

\* wsconn_initiate_close keeps the type.
LEMMA InitiateCloseType ==
  ASSUME NEW k \in Connection
  PROVE  wsconn_initiate_close(k) \in Connection
<1> DEFINE w == wsconn_write_frame(k, "close")
           c == [w EXCEPT !.ws_state = "CLOSING"]
<1>1. w \in Connection
  BY WriteType DEF Output
<1>2. c \in Connection
  BY <1>1 DEF Connection, WsState
<1>3. CloseManager(c) \in Connection
  BY <1>2, CloseManagerType
<1>4. [CloseManager(c) EXCEPT !.fl_ws_closing = TRUE] \in Connection
  BY <1>3 DEF Connection
<1> QED
  BY <1>4 DEF wsconn_initiate_close

\* wsconn_onclosed keeps the type.
LEMMA OnclosedType ==
  ASSUME NEW k \in Connection
  PROVE  wsconn_onclosed(k) \in Connection
<1> DEFINE c == [k EXCEPT !.cm_state = "CLOSED", !.fl_cm_closed = TRUE]
<1>1. c \in Connection
  BY DEF Connection, CmState
<1>2. wsconn_initiate_close(c) \in Connection /\ wsconn_delete(c) \in Connection
  BY <1>1, InitiateCloseType, DeleteType
<1> QED
  BY <1>1, <1>2 DEF wsconn_onclosed

\* The event callback of the XMPP connection keeps the type.
LEMMA XmppConnectedType ==
  ASSUME NEW k \in Connection
  PROVE  cm_eventcb_connected(k) \in Connection
<1> DEFINE d == Deref(k, k.cm_open)
<1>1. d \in Connection /\ d.xmpp = k.xmpp
  BY SMTT(30), DerefType DEF Connection, Deref
<1> HIDE DEF d
<1>2. ASSUME NEW s \in Seq(Nat), NEW t \in Seq(Nat)
      PROVE  [d EXCEPT !.link = "connected", !.state = "FORWARD",
                       !.xmpp = s, !.buffer = t] \in Connection
  BY <1>1 DEF Connection, Link, State
<1>3. k.buffer \in Seq(Nat) /\ k.xmpp \in Seq(Nat)
  BY DEF Connection
<1>4. d.xmpp \o k.buffer \in Seq(Nat) /\ <<>> \in Seq(Nat)
  BY <1>1, <1>3
<1>5. [d EXCEPT !.link = "connected", !.state = "FORWARD",
                !.xmpp = @ \o k.buffer, !.buffer = <<>>] \in Connection
  BY <1>2, <1>4
<1> QED
  BY <1>5 DEF cm_eventcb_connected, d

\* cm_eventcb for BEV_EVENT_ERROR keeps the type.
LEMMA XmppErrorType ==
  ASSUME NEW k \in Connection
  PROVE  cm_eventcb_error(k) \in Connection
  BY OnclosedType, CmCloseType DEF cm_eventcb_error

\* cm_connect keeps the type, whatever it comes to.
LEMMA ConnectType ==
  ASSUME NEW k \in Connection, NEW result \in ConnectResult
  PROVE  cm_connect(k, result) \in Connection
<1>1. [k EXCEPT !.link = "connecting"] \in Connection
  BY DEF Connection, Link
<1>2. CASE result = "error"
  BY <1>1, <1>2, XmppErrorType DEF cm_connect
<1>3. CASE result # "error"
  BY <1>3 DEF cm_connect, ConnectResult, Connection, Link
<1> QED
  BY <1>2, <1>3

\* A message to the connection manager keeps the type.
LEMMA OnMessageType ==
  ASSUME NEW k \in Connection,
         NEW parse \in ParseResult, NEW result \in ConnectResult
  PROVE  cm_onmessage(k, parse, result) \in Connection
<1> DEFINE m == k.msgs + 1
           c == [k EXCEPT !.msgs = m]
           p == Deref(c, k.cm_open)
           b == [p EXCEPT !.buffer = Append(@, m)]
           f == Deref(c, k.link # "null")
<1>1. m \in Nat /\ c \in Connection
  <2>1. m \in Nat
    BY DEF Connection
  <2>2. ASSUME NEW n \in Nat
        PROVE  [k EXCEPT !.msgs = n] \in Connection
    BY DEF Connection
  <2> QED
    BY <2>1, <2>2
<1>2. p \in Connection /\ f \in Connection
  BY ZenonT(40), <1>1, DerefType DEF Connection
<1> HIDE DEF m, c, p, f
<1>3. b \in Connection
  <2>1. Append(p.buffer, m) \in Seq(Nat)
    BY <1>1, <1>2 DEF Connection
  <2>2. ASSUME NEW s \in Seq(Nat)
        PROVE  [p EXCEPT !.buffer = s] \in Connection
    BY <1>2 DEF Connection
  <2> QED
    BY <2>1, <2>2
<1>4. [p EXCEPT !.error = TRUE] \in Connection
  BY <1>2 DEF Connection
<1> HIDE DEF b
<1>5. [cm_connect(b, result) EXCEPT !.state = "CONNECT"] \in Connection
  <2>1. cm_connect(b, result) \in Connection
    BY <1>3, ConnectType
  <2> QED
    BY <2>1 DEF Connection, State
<1>6. [f EXCEPT !.xmpp = Append(@, m)] \in Connection
  <2>1. Append(f.xmpp, m) \in Seq(Nat)
    BY <1>1, <1>2 DEF Connection
  <2>2. ASSUME NEW s \in Seq(Nat)
        PROVE  [f EXCEPT !.xmpp = s] \in Connection
    BY <1>2 DEF Connection
  <2> QED
    BY <2>1, <2>2
<1>7. k.state \in State /\ k.error \in BOOLEAN
  BY DEF Connection
<1>8. CASE k.state = "START"
  BY <1>3, <1>4, <1>5, <1>7, <1>8 DEF cm_onmessage, ParseResult, m, c, p, b
<1>9. CASE k.state = "CONNECT"
  BY <1>1, <1>9 DEF cm_onmessage, m, c
<1>10. CASE k.state = "FORWARD"
  BY <1>6, <1>10 DEF cm_onmessage, m, c, f
<1> QED
  BY <1>7, <1>8, <1>9, <1>10 DEF State

\* Reading and taking an item change the counter and the flag of the decoder.
LEMMA ItemType ==
  ASSUME NEW k \in Connection, NEW a \in Nat, NEW m \in BOOLEAN
  PROVE  [k EXCEPT !.rcvd = a, !.more = m] \in Connection
  BY DEF Connection

\* Taking an item counts it and chooses `more' anew.
LEMMA TakenShape ==
  ASSUME NEW k \in Connection, NEW t \in Taken(k)
  PROVE  \E a \in Nat, m \in BOOLEAN : t = [k EXCEPT !.rcvd = a, !.more = m]
<1>1. k.rcvd + 1 \in Nat
  BY DEF Connection
<1>2. PICK m \in BOOLEAN : t = [[k EXCEPT !.rcvd = @ + 1] EXCEPT !.more = m]
  BY DEF Taken, More
<1>3. t = [k EXCEPT !.rcvd = k.rcvd + 1, !.more = m]
  BY <1>2 DEF Connection
<1> QED
  BY <1>1, <1>3

\* The result is a connection.
LEMMA TakenType ==
  ASSUME NEW k \in Connection, NEW t \in Taken(k)
  PROVE  t \in Connection
<1>1. PICK a \in Nat, m \in BOOLEAN : t = [k EXCEPT !.rcvd = a, !.more = m]
  BY TakenShape
<1> QED
  BY <1>1, ItemType

\* A read changes `more' and no counter.
LEMMA ReadShape ==
  ASSUME NEW k \in Connection, NEW m \in BOOLEAN
  PROVE  /\ k.rcvd \in Nat
         /\ [k EXCEPT !.more = m] = [k EXCEPT !.rcvd = k.rcvd, !.more = m]
  BY DEF Connection

\* The flags that the actions set keep the type.
LEMMA FlagTypes ==
  ASSUME NEW k \in Connection
  PROVE  /\ [k EXCEPT !.rd = FALSE] \in Connection
         /\ [k EXCEPT !.wr = FALSE] \in Connection
         /\ [k EXCEPT !.failed = TRUE] \in Connection
         /\ [k EXCEPT !.pending = FALSE] \in Connection
         /\ [k EXCEPT !.link = "eof"] \in Connection
         /\ [k EXCEPT !.ws_state = "RECEIVING", !.fl_cm_closed = FALSE]
                \in Connection
<1>1. [k EXCEPT !.rd = FALSE] \in Connection
  BY DEF Connection
<1>2. [k EXCEPT !.wr = FALSE] \in Connection
  BY DEF Connection
<1>3. [k EXCEPT !.failed = TRUE] \in Connection
  BY DEF Connection
<1>4. [k EXCEPT !.pending = FALSE] \in Connection
  BY DEF Connection
<1>5. [k EXCEPT !.link = "eof"] \in Connection
  BY DEF Connection, Link
<1>6. [k EXCEPT !.ws_state = "RECEIVING", !.fl_cm_closed = FALSE] \in Connection
  BY DEF Connection, WsState
<1> QED
  BY <1>1, <1>2, <1>3, <1>4, <1>5, <1>6

-----------------------------------------------------------------------------
(***************************************************************************)
(* Type correctness                                                        *)
(***************************************************************************)

\* Every action keeps the type invariant.
LEMMA TypeStep == TypeOK /\ [Next]_vars => TypeOK'
<1> SUFFICES ASSUME TypeOK, [Next]_vars
             PROVE  TypeOK'
  OBVIOUS
<1> USE DEF TypeOK
<1>1. CASE UNCHANGED vars
  BY <1>1 DEF vars
<1>2. ASSUME NEW c \in Conns, NEW k \in Connection, Set(c, k),
             running' \in Conns \cup {None}
      PROVE  TypeOK'
  BY <1>2 DEF Set
<1>3. ASSUME NEW c \in Conns, NEW k \in Connection, Callback(c, k)
      PROVE  TypeOK'
  BY <1>2, <1>3 DEF Callback
<1>4. ASSUME NEW c \in Conns,
             \/ Accept(c)           \/ RequestError(c)
             \/ HandshakeAccept(c)  \/ HandshakeReject(c)
             \/ ReadFrames(c)       \/ Loop(c)
             \/ WriteDrained(c)     \/ ClientReadEnd(c) \/ ClientWriteError(c)
             \/ XmppConnected(c)    \/ XmppError(c)
             \/ XmppEof(c)          \/ XmppRead(c)
      PROVE  TypeOK'
  <2> DEFINE k == conn[c]
  <2>0. k \in Connection
    OBVIOUS
  <2>1. CASE Accept(c)
    BY <2>1, <2>0, <1>3, CreateType DEF Accept
  <2>2. CASE RequestError(c)
    BY <2>2, <2>0, <1>3, CloseType DEF RequestError
  <2>3. CASE HandshakeAccept(c)
    <3>1. wsconn_write_frame(k, "accept") \in Connection
      BY <2>0, WriteType DEF Output
    <3> QED
      BY <3>1, <2>3, <1>3, FlagTypes DEF HandshakeAccept
  <2>4. CASE HandshakeReject(c)
    <3>1. wsconn_write_frame(k, "reject") \in Connection
      BY <2>0, WriteType DEF Output
    <3> QED
      BY <3>1, <2>4, <1>3, CloseType DEF HandshakeReject
  <2>5. CASE ReadFrames(c)
    <3>1. PICK m \in BOOLEAN : Set(c, [k EXCEPT !.more = m])
      BY <2>5 DEF ReadFrames, More
    <3>3. [k EXCEPT !.more = m] \in Connection
      BY <2>0 DEF Connection
    <3> QED
      BY <3>1, <3>3, <2>5, <1>2 DEF ReadFrames
  <2>6. CASE Loop(c)
    <3>1. CASE LoopDone(c)
      BY <3>1 DEF LoopDone, Break
    <3>2. ASSUME NEW t \in Taken(k) PROVE t \in Connection
      BY <2>0, TakenType
    <3>3. CASE LoopFail(c)
      <4>1. PICK t \in Taken(k) : Set(c, wsconn_close([t EXCEPT !.failed = TRUE]))
        BY <3>3 DEF LoopFail
      <4>2. wsconn_close([t EXCEPT !.failed = TRUE]) \in Connection
        BY <3>2, FlagTypes, CloseType
      <4> QED
        BY <4>1, <4>2, <3>3, <1>2 DEF LoopFail, Break
    <3>4. CASE LoopClose(c)
      <4>1. PICK t \in Taken(k) : Set(c, wsconn_initiate_close(t))
        BY <3>4 DEF LoopClose
      <4>2. wsconn_initiate_close(t) \in Connection
        BY <3>2, InitiateCloseType
      <4> QED
        BY <4>1, <4>2, <3>4, <1>2 DEF LoopClose, Break
    <3>5. CASE LoopPing(c)
      <4>1. PICK t \in Taken(k) : Set(c, wsconn_write_frame(t, "pong"))
        BY <3>5 DEF LoopPing
      <4>2. wsconn_write_frame(t, "pong") \in Connection
        BY <3>2, WriteType DEF Output
      <4> QED
        BY <4>1, <4>2, <3>5, <1>2 DEF LoopPing, Break
    <3>6. CASE LoopIgnore(c)
      BY <3>2, <3>6, <1>2 DEF LoopIgnore, Continue
    <3>7. CASE LoopText(c)
      <4>1. PICK t \in Taken(k), parse \in ParseResult, result \in ConnectResult :
                Set(c, cm_onmessage(t, parse, result))
        BY <3>7 DEF LoopText
      <4>2. cm_onmessage(t, parse, result) \in Connection
        BY <3>2, OnMessageType
      <4> QED
        BY <4>1, <4>2, <3>7, <1>2 DEF LoopText, Continue
    <3> QED
      BY <3>1, <3>3, <3>4, <3>5, <3>6, <3>7, <2>6 DEF Loop
  <2>7. CASE WriteDrained(c)
    <3>1. [k EXCEPT !.pending = FALSE] \in Connection
      BY <2>0, FlagTypes
    <3>2. wsconn_write_cb([k EXCEPT !.pending = FALSE]) \in Connection
      BY <3>1, DeleteType DEF wsconn_write_cb
    <3> QED
      BY <3>2, <2>7, <1>3 DEF WriteDrained
  <2>8. CASE ClientReadEnd(c)
    BY <2>8, <2>0, <1>3, FlagTypes, CloseType DEF ClientReadEnd
  <2>9. CASE ClientWriteError(c)
    BY <2>9, <2>0, <1>3, FlagTypes, CloseType DEF ClientWriteError
  <2>10. CASE XmppConnected(c)
    BY <2>10, <2>0, <1>3, XmppConnectedType DEF XmppConnected
  <2>11. CASE XmppError(c)
    BY <2>11, <2>0, <1>3, XmppErrorType DEF XmppError
  <2>12. CASE XmppEof(c)
    BY <2>12, <2>0, <1>3, FlagTypes DEF XmppEof
  <2>13. CASE XmppRead(c)
    <3>1. wsconn_write_frame(k, "text") \in Connection
      BY <2>0, WriteType DEF Output
    <3> QED
      BY <3>1, <2>13, <1>3 DEF XmppRead
  <2> QED
    BY <1>4, <2>1, <2>2, <2>3, <2>4, <2>5, <2>6, <2>7, <2>8, <2>9, <2>10,
       <2>11, <2>12, <2>13
<1> QED
  BY <1>1, <1>4 DEF Next

\* The connection records and the owner of the running loop always have their
\* types, for any set of connections and any bounds.
THEOREM TypeCorrect == Spec => []TypeOK
<1>1. Init => TypeOK
  BY NoConnectionType DEF Init, TypeOK
<1> QED
  BY <1>1, TypeStep, PTL DEF Spec

-----------------------------------------------------------------------------
(***************************************************************************)
(* The inductive invariant of one connection, operation by operation.      *)
(***************************************************************************)

\* A connection is consistent before and after it is accepted.
LEMMA CreateInv ==
  ConnInv(NoConnection) /\ ConnInv(wsconn_create(NoConnection))
  BY DEF ConnInv, LifeInv, LinkInv, WireInv, ForwardInv, NoConnection,
         wsconn_create, cm_create

\* wsconn_close after the client's end, a write error or a protocol error: the
\* first call releases the manager, a later one may free the connection.
LEMMA CloseInv ==
  ASSUME NEW k \in Connection, ConnInv(k), k.mem = "live",
         NEW r \in BOOLEAN, NEW w \in BOOLEAN, NEW f \in BOOLEAN,
         NEW n \in BOOLEAN, NEW a \in Nat, ~r \/ ~w \/ f
  PROVE  ConnInv(wsconn_close([k EXCEPT !.rd = r, !.wr = w, !.failed = f,
                                        !.rcvd = a, !.more = n]))
<1> DEFINE q == wsconn_close([k EXCEPT !.rd = r, !.wr = w, !.failed = f,
                                       !.rcvd = a, !.more = n])
<1> USE DEF ConnInv, Connection, Memory, WsState, CmState, Link, State,
            wsconn_close, wsconn_delete, CloseManager, cm_close, cm_delete, Deref
<1>1. LifeInv(q)
  BY DEF LifeInv, LinkInv
<1>2. LinkInv(q)
  BY DEF LifeInv, LinkInv
<1>3. WireInv(q)
  BY SMTT(30) DEF LifeInv, WireInv
<1>4. ForwardInv(q)
  BY DEF LifeInv, LinkInv, ForwardInv
<1> QED
  BY <1>1, <1>2, <1>3, <1>4

\* What Append does to a sequence.
LEMMA AppendFacts ==
  ASSUME NEW S, NEW s \in Seq(S), NEW e \in S
  PROVE  /\ Append(s, e) \in Seq(S)
         /\ Len(Append(s, e)) = Len(s) + 1
         /\ \A i \in 1 .. Len(s) : Append(s, e)[i] = s[i]
         /\ Append(s, e)[Len(s) + 1] = e
  OBVIOUS

\* Writing to a live connection.
LEMMA WriteShape ==
  ASSUME NEW k \in Connection, k.mem = "live", NEW f \in Output
  PROVE  wsconn_write_frame(k, f) =
            [k EXCEPT !.sent = Append(@, f), !.pending = TRUE]
<1>1. k.fault \in BOOLEAN
  BY DEF Connection
<1> QED
  BY <1>1 DEF Connection, wsconn_write_frame, Deref

\* The first wsconn_close releases the manager and frees nothing.
LEMMA FirstCloseShape ==
  ASSUME NEW k \in Connection, ~k.fault, k.mem = "live", k.cm_mem = "live",
         k.cm_state = "CREATED"
  PROVE  wsconn_close(k) =
            [k EXCEPT !.ws_state = "CLOSED", !.cm_state = "CLOSING",
                      !.cm_open = FALSE, !.link = "null", !.buffer = <<>>]
  BY DEF Connection, wsconn_close, CloseManager, cm_close, Deref

\* wsconn_close of a connection still in WS_ST_START: the manager is released
\* and the connection stays, for its response to be written.
LEMMA RefuseInv ==
  ASSUME NEW k \in Connection, ConnInv(k), k.mem = "live", k.ws_state = "START"
  PROVE  /\ ConnInv(wsconn_close(k))
         /\ ConnInv(wsconn_close(wsconn_write_frame(k, "reject")))
<1> DEFINE q == wsconn_close(k)
           w == wsconn_write_frame(k, "reject")
           r == wsconn_close(w)
<1>1. k.cm_state = "CREATED" /\ k.cm_mem = "live" /\ k.sent = <<>>
      /\ k.link = "null" /\ ~k.fault /\ k.rd /\ k.wr /\ ~k.failed
      /\ (k.state # "FORWARD" => k.xmpp = <<>>)
  BY DEF ConnInv, LifeInv, LinkInv, WireInv, ForwardInv, Connection
<1>2. q = [k EXCEPT !.ws_state = "CLOSED", !.cm_state = "CLOSING",
                    !.cm_open = FALSE, !.link = "null", !.buffer = <<>>]
  BY <1>1, FirstCloseShape
<1>3. w \in Connection
        /\ w = [k EXCEPT !.sent = Append(@, "reject"), !.pending = TRUE]
  BY WriteShape, WriteType DEF Output
<1>4. k.fl_cm_closed
  BY DEF ConnInv, WireInv, Connection
<1>5. Append(k.sent, "reject") = <<"reject">>
  BY <1>1
<1>6. r = [k EXCEPT !.ws_state = "CLOSED", !.cm_state = "CLOSING",
                    !.cm_open = FALSE, !.link = "null", !.buffer = <<>>,
                    !.sent = <<"reject">>, !.pending = TRUE]
  <2> HIDE DEF w
  <2>1. w.mem = "live" /\ w.cm_mem = "live" /\ w.cm_state = "CREATED" /\ ~w.fault
    BY <1>1, <1>3 DEF Connection
  <2>2. r = [w EXCEPT !.ws_state = "CLOSED", !.cm_state = "CLOSING",
                      !.cm_open = FALSE, !.link = "null", !.buffer = <<>>]
    BY <1>3, <2>1, FirstCloseShape
  <2>3. w = [k EXCEPT !.sent = <<"reject">>, !.pending = TRUE]
    BY <1>3, <1>5
  <2> QED
    BY <2>2, <2>3 DEF Connection
<1> HIDE DEF q, r, w
<1>7. ConnInv(q)
  BY <1>1, <1>2 DEF ConnInv, LifeInv, LinkInv, WireInv, ForwardInv, Connection
<1>8. ConnInv(r)
  <2>1. LifeInv(r) /\ LinkInv(r)
    BY <1>1, <1>6 DEF ConnInv, LifeInv, LinkInv, Connection
  <2>2. WireInv(r)
    BY <1>1, <1>4, <1>6 DEF ConnInv, WireInv, Connection
  <2>3. ForwardInv(r)
    BY <1>1, <1>6 DEF ConnInv, ForwardInv, Connection
  <2> QED
    BY <2>1, <2>2, <2>3 DEF ConnInv
<1> QED
  BY <1>7, <1>8 DEF q, r, w

\* The handshake: the response is written and frames are expected.
LEMMA AcceptInv ==
  ASSUME NEW k \in Connection, ConnInv(k), k.mem = "live", k.ws_state = "START"
  PROVE  ConnInv([wsconn_write_frame(k, "accept") EXCEPT
                      !.ws_state = "RECEIVING", !.fl_cm_closed = FALSE])
<1> DEFINE r == [wsconn_write_frame(k, "accept") EXCEPT
                      !.ws_state = "RECEIVING", !.fl_cm_closed = FALSE]
<1>1. k.sent = <<>> /\ k.rd /\ k.wr /\ ~k.failed /\ k.link = "null"
  BY DEF ConnInv, LifeInv, LinkInv, WireInv, Connection
<1>2. Append(k.sent, "accept") = <<"accept">>
  BY <1>1
<1>3. r = [k EXCEPT !.sent = <<"accept">>, !.pending = TRUE,
                    !.ws_state = "RECEIVING", !.fl_cm_closed = FALSE]
  BY <1>2, WriteShape DEF Connection, Output
<1> HIDE DEF r
<1>4. LifeInv(r) /\ LinkInv(r)
  BY <1>1, <1>3 DEF ConnInv, LifeInv, LinkInv, Connection
<1>5. WireInv(r)
  BY <1>1, <1>3 DEF ConnInv, WireInv, Connection
<1>6. ForwardInv(r)
  BY <1>1, <1>3 DEF ConnInv, ForwardInv, Connection
<1> QED
  BY <1>4, <1>5, <1>6 DEF ConnInv, r

\* Bytes arrive, or the decoder hands out an item: nothing else changes.
LEMMA ItemInv ==
  ASSUME NEW k \in Connection, ConnInv(k), k.mem = "live",
         NEW a \in Nat, NEW m \in BOOLEAN
  PROVE  ConnInv([k EXCEPT !.rcvd = a, !.more = m])
<1> DEFINE r == [k EXCEPT !.rcvd = a, !.more = m]
<1>1. LifeInv(r) /\ LinkInv(r)
  BY DEF ConnInv, LifeInv, LinkInv, Connection
<1>2. WireInv(r)
  BY DEF ConnInv, WireInv, Connection
<1>3. ForwardInv(r)
  BY DEF ConnInv, ForwardInv, Connection
<1> QED
  BY <1>1, <1>2, <1>3 DEF ConnInv

\* A Pong frame may be written in WS_ST_RECEIVING and in WS_ST_CLOSING; a text
\* frame or a Close frame only in WS_ST_RECEIVING.
LEMMA FrameInv ==
  ASSUME NEW k \in Connection, ConnInv(k), k.mem = "live",
         NEW f \in {"pong", "text"},
         k.ws_state = "RECEIVING" \/ (k.ws_state = "CLOSING" /\ f = "pong")
  PROVE  ConnInv(wsconn_write_frame(k, f))
<1> DEFINE s == Append(k.sent, f)
           r == [k EXCEPT !.sent = s, !.pending = TRUE]
<1>1. wsconn_write_frame(k, f) = r
  BY WriteShape DEF Output
<1>2. k.sent \in Seq(Output) /\ f \in Output
  BY DEF Connection, Output
<1>3. /\ s \in Seq(Output)
      /\ Len(s) = Len(k.sent) + 1
      /\ \A i \in 1 .. Len(k.sent) : s[i] = k.sent[i]
      /\ s[Len(k.sent) + 1] = f
  BY <1>2, AppendFacts
<1>4. Len(k.sent) \in Nat
  BY <1>2
<1> HIDE DEF s
<1>5. LifeInv(r) /\ LinkInv(r)
  BY DEF ConnInv, LifeInv, LinkInv, Connection
<1>6. WireInv(r)
  <2>1. r.sent = s /\ r.ws_state = k.ws_state /\ r.mem = k.mem
        /\ r.fl_ws_closing = k.fl_ws_closing
    BY DEF Connection
  <2>2. Len(k.sent) > 0 /\ k.sent[1] = "accept"
    BY DEF ConnInv, WireInv
  <2>3. s[1] = "accept" /\ s # <<"reject">> /\ Len(s) > 1
    BY <1>3, <1>4, <2>2
  <2>4. ASSUME NEW i \in 1 .. Len(s)
        PROVE  /\ IF i = 1 THEN s[i] \in {"accept", "reject"}
                  ELSE s[1] = "accept" /\ s[i] \notin {"accept", "reject"}
               /\ s[i] = "close" => k.fl_ws_closing
               /\ \A j \in 1 .. Len(s) : i < j /\ s[i] = "close" => s[j] = "pong"
    <3>0. /\ \A n \in 1 .. Len(k.sent) :
                /\ n # 1 => k.sent[n] \notin {"accept", "reject"}
                /\ k.sent[n] = "close" => k.fl_ws_closing
                /\ \A j \in 1 .. Len(k.sent) :
                      n < j /\ k.sent[n] = "close" => k.sent[j] = "pong"
          /\ k.fl_ws_closing => f = "pong"
      BY DEF ConnInv, WireInv
    <3>1. CASE i \in 1 .. Len(k.sent)
      <4>1. s[i] = k.sent[i]
        BY <1>3, <3>1
      <4>2. ASSUME NEW j \in 1 .. Len(s), i < j, s[i] = "close"
            PROVE  s[j] = "pong"
        <5>1. CASE j \in 1 .. Len(k.sent)
          BY <1>3, <3>0, <3>1, <4>1, <4>2, <5>1
        <5>2. CASE j = Len(k.sent) + 1
          BY <1>3, <3>0, <3>1, <4>1, <4>2, <5>2
        <5> QED
          BY <1>3, <1>4, <5>1, <5>2
      <4> QED
        BY <2>3, <3>0, <3>1, <4>1, <4>2
    <3>2. CASE i = Len(k.sent) + 1
      BY <1>3, <1>4, <2>2, <2>3, <3>2
    <3> QED
      BY <1>3, <1>4, <3>1, <3>2
  <2> HIDE DEF r
  <2> QED
    BY <2>1, <2>3, <2>4 DEF ConnInv, WireInv
<1>7. ForwardInv(r)
  BY DEF ConnInv, ForwardInv, Connection
<1> QED
  BY <1>1, <1>5, <1>6, <1>7 DEF ConnInv

\* The closing handshake is started from WS_ST_RECEIVING, on the client's Close
\* frame (t = "CLOSING") or because the XMPP server is gone (t = "CLOSED").
LEMMA ClosingInv ==
  ASSUME NEW k \in Connection, ConnInv(k), k.mem = "live",
         k.ws_state = "RECEIVING",
         NEW t \in {"CLOSING", "CLOSED"}, NEW b \in BOOLEAN
  PROVE  ConnInv([k EXCEPT
                    !.sent = Append(@, "close"), !.pending = TRUE,
                    !.ws_state = "CLOSING", !.fl_ws_closing = TRUE,
                    !.cm_state = t, !.fl_cm_closed = b,
                    !.cm_open = FALSE, !.link = "null", !.buffer = <<>>])
<1> DEFINE s == Append(k.sent, "close")
           r == [k EXCEPT
                    !.sent = s, !.pending = TRUE,
                    !.ws_state = "CLOSING", !.fl_ws_closing = TRUE,
                    !.cm_state = t, !.fl_cm_closed = b,
                    !.cm_open = FALSE, !.link = "null", !.buffer = <<>>]
<1>1. k.sent \in Seq(Output) /\ "close" \in Output
  BY DEF Connection, Output
<1>2. /\ s \in Seq(Output)
      /\ Len(s) = Len(k.sent) + 1
      /\ \A i \in 1 .. Len(k.sent) : s[i] = k.sent[i]
      /\ s[Len(k.sent) + 1] = "close"
  BY <1>1, AppendFacts
<1>3. Len(k.sent) \in Nat
  BY <1>1
<1> HIDE DEF s
<1>4. LifeInv(r) /\ LinkInv(r)
  BY DEF ConnInv, LifeInv, LinkInv, Connection
<1>5. WireInv(r)
  <2>1. r.sent = s /\ r.ws_state = "CLOSING" /\ r.fl_ws_closing
    BY DEF Connection
  <2>2. Len(k.sent) > 0 /\ k.sent[1] = "accept" /\ ~k.fl_ws_closing
    BY DEF ConnInv, WireInv
  <2>3. s[1] = "accept" /\ s # <<"reject">> /\ Len(s) > 1
    BY <1>2, <1>3, <2>2
  <2>4. \A i \in 1 .. Len(k.sent) : k.sent[i] # "close"
    BY <2>2 DEF ConnInv, WireInv
  <2>5. ASSUME NEW i \in 1 .. Len(s)
        PROVE  /\ IF i = 1 THEN s[i] \in {"accept", "reject"}
                  ELSE s[1] = "accept" /\ s[i] \notin {"accept", "reject"}
               /\ \A j \in 1 .. Len(s) : i < j /\ s[i] = "close" => s[j] = "pong"
    <3>1. CASE i \in 1 .. Len(k.sent)
      BY <1>2, <1>3, <2>3, <2>4, <3>1 DEF ConnInv, WireInv
    <3>2. CASE i = Len(k.sent) + 1
      BY <1>2, <1>3, <2>2, <2>3, <3>2
    <3> QED
      BY <1>2, <1>3, <3>1, <3>2
  <2> HIDE DEF r
  <2> QED
    BY <2>1, <2>3, <2>5 DEF WireInv
<1>6. ForwardInv(r)
  BY DEF ConnInv, ForwardInv, Connection
<1> QED
  BY <1>4, <1>5, <1>6 DEF ConnInv, s

\* Releasing a live manager.
LEMMA CmCloseShape ==
  ASSUME NEW k \in Connection, ~k.fault, k.cm_mem = "live"
  PROVE  cm_close(k) =
            [k EXCEPT !.cm_open = FALSE, !.link = "null", !.buffer = <<>>]
  BY DEF cm_close, Deref, Connection

\* The client's Close frame is answered and the manager is released.
LEMMA InitiateCloseShape ==
  ASSUME NEW k \in Connection, ~k.fault, k.mem = "live", k.cm_mem = "live",
         k.cm_state = "CREATED", ~k.fl_ws_closing
  PROVE  wsconn_initiate_close(k) =
            [k EXCEPT !.sent = Append(@, "close"), !.pending = TRUE,
                      !.ws_state = "CLOSING", !.fl_ws_closing = TRUE,
                      !.cm_state = "CLOSING", !.cm_open = FALSE,
                      !.link = "null", !.buffer = <<>>]
<1> DEFINE s == Append(k.sent, "close")
           w == wsconn_write_frame(k, "close")
           x == [w EXCEPT !.ws_state = "CLOSING"]
<1>1. w = [k EXCEPT !.sent = s, !.pending = TRUE] /\ w \in Connection
  BY WriteShape, WriteType DEF Output
<1>2. wsconn_initiate_close(k) = [CloseManager(x) EXCEPT !.fl_ws_closing = TRUE]
  BY DEF wsconn_initiate_close
<1> HIDE DEF w, s
<1>3. x \in Connection
  BY ZenonT(40), <1>1 DEF Connection, WsState
<1>4. x = [k EXCEPT !.sent = s, !.pending = TRUE, !.ws_state = "CLOSING"]
  BY <1>1 DEF Connection
<1>5. ~x.fault /\ x.cm_mem = "live" /\ x.cm_state = "CREATED"
  BY <1>4 DEF Connection
<1> HIDE DEF x
<1>6. CloseManager(x) = [x EXCEPT !.cm_open = FALSE, !.link = "null",
                                  !.buffer = <<>>, !.cm_state = "CLOSING"]
  BY <1>3, <1>5, CmCloseShape DEF CloseManager
<1>7. wsconn_initiate_close(k) =
        [x EXCEPT !.cm_open = FALSE, !.link = "null", !.buffer = <<>>,
                  !.cm_state = "CLOSING", !.fl_ws_closing = TRUE]
  BY <1>2, <1>6
<1>8. wsconn_initiate_close(k) =
        [k EXCEPT !.sent = s, !.pending = TRUE,
                  !.ws_state = "CLOSING", !.fl_ws_closing = TRUE,
                  !.cm_state = "CLOSING", !.cm_open = FALSE,
                  !.link = "null", !.buffer = <<>>]
  BY <1>4, <1>7 DEF Connection
<1> QED
  BY <1>8 DEF s

\* cm_eventcb reports a failure of the XMPP connection of a client in
\* WS_ST_RECEIVING: the Close frame is written, the manager is released, and
\* the wsconn_t stays until the frame is sent.
LEMMA XmppErrorShape ==
  ASSUME NEW k \in Connection, ~k.fault, k.mem = "live", k.cm_mem = "live",
         k.ws_state = "RECEIVING", ~k.fl_ws_closing
  PROVE  cm_eventcb_error(k) =
            [k EXCEPT !.sent = Append(@, "close"), !.pending = TRUE,
                      !.ws_state = "CLOSING", !.fl_ws_closing = TRUE,
                      !.cm_state = "CLOSED", !.fl_cm_closed = TRUE,
                      !.cm_open = FALSE, !.link = "null", !.buffer = <<>>]
<1> DEFINE s == Append(k.sent, "close")
           c == [k EXCEPT !.cm_state = "CLOSED", !.fl_cm_closed = TRUE]
           w == wsconn_write_frame(c, "close")
           o == wsconn_onclosed(k)
<1>1. c \in Connection /\ c.mem = "live"
  BY DEF Connection, CmState
<1>2. w = [c EXCEPT !.sent = Append(@, "close"), !.pending = TRUE]
  BY <1>1, WriteShape DEF Output
<1>3. c.sent = k.sent
  BY DEF Connection
<1>4. w = [k EXCEPT !.cm_state = "CLOSED", !.fl_cm_closed = TRUE,
                    !.sent = s, !.pending = TRUE]
  BY <1>2, <1>3 DEF Connection
<1>5. o = [CloseManager([w EXCEPT !.ws_state = "CLOSING"])
               EXCEPT !.fl_ws_closing = TRUE]
  BY DEF wsconn_onclosed, wsconn_initiate_close, Connection
<1> HIDE DEF w, s
<1>6. o = [k EXCEPT !.sent = s, !.pending = TRUE,
                    !.ws_state = "CLOSING", !.fl_ws_closing = TRUE,
                    !.cm_state = "CLOSED", !.fl_cm_closed = TRUE]
  BY <1>4, <1>5 DEF CloseManager, Connection
<1>7. o \in Connection
  BY OnclosedType
<1> HIDE DEF o
<1>8. ~o.fault /\ o.cm_mem = "live"
  BY <1>6 DEF Connection
<1>9. cm_eventcb_error(k) =
        [o EXCEPT !.cm_open = FALSE, !.link = "null", !.buffer = <<>>]
  BY <1>7, <1>8, CmCloseShape DEF cm_eventcb_error, o
<1>10. cm_eventcb_error(k) =
         [k EXCEPT !.sent = s, !.pending = TRUE,
                   !.ws_state = "CLOSING", !.fl_ws_closing = TRUE,
                   !.cm_state = "CLOSED", !.fl_cm_closed = TRUE,
                   !.cm_open = FALSE, !.link = "null", !.buffer = <<>>]
  BY <1>6, <1>9 DEF Connection
<1> QED
  BY <1>10 DEF s

\* What ConnInv says of a live connection in WS_ST_RECEIVING.
LEMMA ReceivingFacts ==
  ASSUME NEW k \in Connection, ConnInv(k), k.mem = "live",
         k.ws_state = "RECEIVING"
  PROVE  /\ ~k.fault /\ k.cm_mem = "live" /\ k.cm_open
         /\ k.cm_state = "CREATED" /\ ~k.fl_ws_closing
  BY DEF ConnInv, LifeInv, WireInv, Connection

\* A failure of the XMPP connection, whenever it comes.
LEMMA XmppErrorInv ==
  ASSUME NEW k \in Connection, ConnInv(k), k.mem = "live",
         k.ws_state = "RECEIVING"
  PROVE  ConnInv(cm_eventcb_error(k))
<1>1. ConnInv([k EXCEPT !.sent = Append(@, "close"), !.pending = TRUE,
                        !.ws_state = "CLOSING", !.fl_ws_closing = TRUE,
                        !.cm_state = "CLOSED", !.fl_cm_closed = TRUE,
                        !.cm_open = FALSE, !.link = "null", !.buffer = <<>>])
  BY ClosingInv
<1> QED
  BY <1>1, ReceivingFacts, XmppErrorShape

\* A Close frame from the client; a second one is ignored.
LEMMA InitiateCloseInv ==
  ASSUME NEW k \in Connection, ConnInv(k), RunInv(k)
  PROVE  ConnInv(wsconn_initiate_close(k))
<1>1. CASE k.ws_state = "CLOSING"
  BY <1>1 DEF ConnInv, WireInv, wsconn_initiate_close
<1>2. CASE k.ws_state = "RECEIVING"
  <2> DEFINE b == k.fl_cm_closed
             s == Append(k.sent, "close")
  <2>1. b \in BOOLEAN /\ k.mem = "live"
    BY DEF Connection, RunInv
  <2>2. ConnInv([k EXCEPT !.sent = s, !.pending = TRUE,
                          !.ws_state = "CLOSING", !.fl_ws_closing = TRUE,
                          !.cm_state = "CLOSING", !.fl_cm_closed = b,
                          !.cm_open = FALSE, !.link = "null", !.buffer = <<>>])
    BY <1>2, <2>1, ClosingInv
  <2>3. wsconn_initiate_close(k) =
          [k EXCEPT !.sent = s, !.pending = TRUE,
                    !.ws_state = "CLOSING", !.fl_ws_closing = TRUE,
                    !.cm_state = "CLOSING", !.cm_open = FALSE,
                    !.link = "null", !.buffer = <<>>]
    BY <1>2, <2>1, ReceivingFacts, InitiateCloseShape
  <2> HIDE DEF s
  <2>4. wsconn_initiate_close(k) =
          [k EXCEPT !.sent = s, !.pending = TRUE,
                    !.ws_state = "CLOSING", !.fl_ws_closing = TRUE,
                    !.cm_state = "CLOSING", !.fl_cm_closed = b,
                    !.cm_open = FALSE, !.link = "null", !.buffer = <<>>]
    BY ZenonT(40), <2>3 DEF Connection
  <2> QED
    BY <2>2, <2>4
<1> QED
  BY <1>1, <1>2 DEF RunInv

\* The XMPP connection is up: the stream header leaves the buffer, and is the
\* first thing the server reads.
LEMMA XmppConnectedInv ==
  ASSUME NEW k \in Connection, ConnInv(k), k.link = "connecting"
  PROVE  ConnInv(cm_eventcb_connected(k))
<1> DEFINE x == k.buffer
           r == [k EXCEPT !.link = "connected", !.state = "FORWARD",
                          !.xmpp = x, !.buffer = <<>>]
<1>1. k.cm_open /\ k.state = "CONNECT" /\ k.xmpp = <<>> /\ ~k.fault
  BY DEF ConnInv, LifeInv, LinkInv, ForwardInv, Connection
<1>2. k.buffer \in Seq(Nat) /\ k.msgs \in Nat
  BY DEF Connection
<1>3. k.xmpp \o k.buffer = x
  BY <1>1, <1>2
<1>4. cm_eventcb_connected(k) = r
  BY <1>1, <1>3 DEF cm_eventcb_connected, Deref, Connection
<1>5. Len(x) > 0 /\ Len(x) <= k.msgs /\ \A i \in 1 .. Len(x) : x[i] = i
  BY <1>1 DEF ConnInv, ForwardInv
<1> HIDE DEF x
<1>6. LifeInv(r) /\ LinkInv(r)
  BY <1>1 DEF ConnInv, LifeInv, LinkInv, Connection
<1>7. WireInv(r)
  BY DEF ConnInv, WireInv, Connection
<1>8. ForwardInv(r)
  <2>1. r.xmpp = x /\ r.buffer = <<>> /\ r.state = "FORWARD" /\ r.msgs = k.msgs
    BY DEF Connection
  <2>2. Len(x) \in Nat /\ x \in Seq(Nat)
    BY <1>2 DEF x
  <2> HIDE DEF r
  <2> QED
    BY SMTT(30), <2>1, <2>2, <1>5, <1>2 DEF ForwardInv
<1> QED
  BY <1>4, <1>6, <1>7, <1>8 DEF ConnInv

\* The XMPP server ends its side.
LEMMA XmppEofInv ==
  ASSUME NEW k \in Connection, ConnInv(k), k.link = "connected"
  PROVE  ConnInv([k EXCEPT !.link = "eof"])
<1> DEFINE r == [k EXCEPT !.link = "eof"]
<1>1. LifeInv(r) /\ LinkInv(r)
  BY DEF ConnInv, LifeInv, LinkInv, Connection
<1>2. WireInv(r)
  BY DEF ConnInv, WireInv, Connection
<1>3. ForwardInv(r)
  BY DEF ConnInv, ForwardInv, Connection
<1> QED
  BY <1>1, <1>2, <1>3 DEF ConnInv

\* The output is written; in WS_ST_CLOSING that frees the connection.
LEMMA DrainedInv ==
  ASSUME NEW k \in Connection, ConnInv(k), k.mem = "live"
  PROVE  ConnInv(wsconn_write_cb([k EXCEPT !.pending = FALSE]))
<1> DEFINE r == wsconn_write_cb([k EXCEPT !.pending = FALSE])
<1> USE DEF ConnInv, Connection, wsconn_write_cb, wsconn_delete, cm_delete,
            cm_close, Deref
<1>1. LifeInv(r)
  BY DEF LifeInv
<1>2. LinkInv(r)
  BY DEF LifeInv, LinkInv
<1>3. WireInv(r)
  BY DEF LifeInv, WireInv
<1>4. ForwardInv(r)
  BY DEF LifeInv, ForwardInv
<1> QED
  BY <1>1, <1>2, <1>3, <1>4

\* A message while the stream header is being received: it is parsed and kept,
\* and the connection stays consistent.
LEMMA BufferInv ==
  ASSUME NEW k \in Connection, ConnInv(k), k.cm_open, k.state = "START", ~k.error,
         NEW m \in Nat, m = k.msgs + 1
  PROVE  ConnInv([k EXCEPT !.msgs = m, !.buffer = Append(@, m)])
<1> DEFINE s == Append(k.buffer, m)
           r == [k EXCEPT !.msgs = m, !.buffer = s]
<1>1. k.buffer \in Seq(Nat) /\ Len(k.buffer) \in Nat /\ k.msgs \in Nat
  BY DEF Connection
<1>2. /\ Len(s) = Len(k.buffer) + 1
      /\ \A i \in 1 .. Len(k.buffer) : s[i] = k.buffer[i]
      /\ s[Len(k.buffer) + 1] = m
  BY <1>1, AppendFacts
<1> HIDE DEF s
<1>3. LifeInv(r) /\ LinkInv(r)
  BY DEF ConnInv, LifeInv, LinkInv, Connection
<1>4. WireInv(r)
  BY DEF ConnInv, WireInv, Connection
<1>5. ForwardInv(r)
  <2>1. r.msgs = m /\ r.buffer = s /\ r.state = "START" /\ r.xmpp = k.xmpp
    BY DEF Connection
  <2>2. Len(k.buffer) = k.msgs /\ k.xmpp = <<>>
        /\ \A i \in 1 .. Len(k.buffer) : k.buffer[i] = i
    BY DEF ConnInv, ForwardInv
  <2>3. Len(s) = m
    BY <1>1, <1>2, <2>2
  <2>4. ASSUME NEW i \in 1 .. Len(s) PROVE s[i] = i
    <3>1. CASE i \in 1 .. Len(k.buffer)
      BY <1>2, <2>2, <3>1
    <3>2. CASE i \notin 1 .. Len(k.buffer)
      <4>1. i = Len(k.buffer) + 1 /\ i = m
        BY <1>1, <1>2, <2>2, <3>2
      <4> QED
        BY <1>2, <4>1
    <3> QED
      BY <3>1, <3>2
  <2> HIDE DEF r
  <2> QED
    BY <2>1, <2>2, <2>3, <2>4 DEF ForwardInv
<1> QED
  BY <1>3, <1>4, <1>5 DEF ConnInv, s

\* A message in ST_CONNECT is counted and dropped; one that is not XML, in
\* ST_START, is counted and the parser's error stays.
LEMMA DropInv ==
  ASSUME NEW k \in Connection, ConnInv(k), k.mem = "live",
         NEW m \in Nat, m = k.msgs + 1
  PROVE  /\ k.state = "CONNECT" => ConnInv([k EXCEPT !.msgs = m])
         /\ k.state = "START" => ConnInv([k EXCEPT !.msgs = m, !.error = TRUE])
<1> DEFINE c == [k EXCEPT !.msgs = m]
           e == [k EXCEPT !.msgs = m, !.error = TRUE]
<1>1. LifeInv(c) /\ LinkInv(c) /\ LifeInv(e) /\ LinkInv(e)
  BY DEF ConnInv, LifeInv, LinkInv, Connection
<1>2. WireInv(c) /\ WireInv(e)
  BY DEF ConnInv, WireInv, Connection
<1>3. k.msgs \in Nat /\ Len(k.buffer) \in Nat /\ Len(k.xmpp) \in Nat
  BY DEF Connection
<1>4. k.state = "CONNECT" => ForwardInv(c)
  BY <1>3 DEF ConnInv, ForwardInv, Connection
<1>5. k.state = "START" => ForwardInv(e)
  BY <1>3 DEF ConnInv, ForwardInv, Connection
<1> QED
  BY <1>1, <1>2, <1>4, <1>5 DEF ConnInv

\* A message in ST_FORWARD goes to the server, after all the others.
LEMMA SendInv ==
  ASSUME NEW k \in Connection, ConnInv(k), k.mem = "live", k.state = "FORWARD",
         NEW m \in Nat, m = k.msgs + 1
  PROVE  ConnInv([k EXCEPT !.msgs = m, !.xmpp = Append(@, m)])
<1> DEFINE s == Append(k.xmpp, m)
           r == [k EXCEPT !.msgs = m, !.xmpp = s]
<1>1. k.xmpp \in Seq(Nat) /\ Len(k.xmpp) \in Nat /\ k.msgs \in Nat
  BY DEF Connection
<1>2. /\ s \in Seq(Nat)
      /\ Len(s) = Len(k.xmpp) + 1
      /\ \A i \in 1 .. Len(k.xmpp) : s[i] = k.xmpp[i]
      /\ s[Len(k.xmpp) + 1] = m
  BY <1>1, AppendFacts
<1> HIDE DEF s
<1>3. LifeInv(r) /\ LinkInv(r)
  BY DEF ConnInv, LifeInv, LinkInv, Connection
<1>4. WireInv(r)
  BY DEF ConnInv, WireInv, Connection
<1>5. ForwardInv(r)
  <2>1. r.msgs = m /\ r.buffer = k.buffer /\ r.state = "FORWARD" /\ r.xmpp = s
    BY DEF Connection
  <2>2. /\ Len(k.xmpp) > 0
        /\ \A i \in 1 .. Len(k.xmpp) :
              /\ k.xmpp[i] <= k.msgs
              /\ IF i = 1 THEN k.xmpp[i] = 1 ELSE k.xmpp[i - 1] < k.xmpp[i]
    BY DEF ConnInv, ForwardInv
  <2>3. \A i \in 1 .. Len(k.xmpp) : k.xmpp[i] \in Nat
    BY <1>1
  <2>4. ASSUME NEW i \in 1 .. Len(s)
        PROVE  s[i] <= m /\ IF i = 1 THEN s[i] = 1 ELSE s[i - 1] < s[i]
    <3>1. CASE i = 1
      <4>1. 1 \in 1 .. Len(k.xmpp)
        BY <1>1, <2>2
      <4>2. s[1] = k.xmpp[1] /\ k.xmpp[1] = 1
        BY <1>2, <2>2, <4>1
      <4> QED
        BY <1>1, <3>1, <4>2
    <3>2. CASE i \in 2 .. Len(k.xmpp)
      <4>1. s[i] = k.xmpp[i] /\ s[i - 1] = k.xmpp[i - 1]
        BY <1>1, <1>2, <3>2
      <4>2. k.xmpp[i] <= k.msgs /\ k.xmpp[i - 1] < k.xmpp[i] /\ k.xmpp[i] \in Nat
        BY SMTT(30), <1>1, <2>2, <2>3, <3>2
      <4>3. s[i] <= m /\ s[i - 1] < s[i] /\ i # 1
        BY SMTT(30), <1>1, <3>2, <4>1, <4>2
      <4> QED
        BY <4>3
    <3>3. CASE i = Len(k.xmpp) + 1
      <4>1. i - 1 \in 1 .. Len(k.xmpp)
        BY <1>1, <2>2, <3>3
      <4>2. s[i] = m /\ s[i - 1] = k.xmpp[i - 1]
        BY <1>2, <3>3, <4>1
      <4>3. k.xmpp[i - 1] <= k.msgs /\ k.xmpp[i - 1] \in Nat
        BY <2>2, <2>3, <4>1
      <4>4. i # 1
        BY <1>1, <2>2, <3>3
      <4> QED
        BY SMTT(30), <1>1, <4>2, <4>3, <4>4
    <3> QED
      BY <1>1, <1>2, <3>1, <3>2, <3>3
  <2>5. Len(s) > 0 /\ Len(k.buffer) \in Nat
    BY <1>1, <1>2 DEF Connection
  <2>6. Len(k.buffer) <= m /\ \A i \in 1 .. Len(k.buffer) : k.buffer[i] = i
    BY <1>1, <2>5 DEF ConnInv, ForwardInv
  <2> HIDE DEF r
  <2> QED
    BY <2>1, <2>4, <2>5, <2>6 DEF ForwardInv
<1> QED
  BY <1>3, <1>4, <1>5 DEF ConnInv, s

\* The stream header is complete: the connection is started, not started, or
\* has failed already, in which case the client is being closed.
LEMMA ConnectInv ==
  ASSUME NEW k \in Connection, ConnInv(k), RunInv(k), k.cm_open,
         k.state = "START", Len(k.buffer) > 0, NEW result \in ConnectResult
  PROVE  LET r == [cm_connect(k, result) EXCEPT !.state = "CONNECT"]
         IN  ConnInv(r) /\ RunInv(r)
<1> DEFINE r == [cm_connect(k, result) EXCEPT !.state = "CONNECT"]
<1>1. k.ws_state = "RECEIVING" /\ k.mem = "live" /\ k.link = "null"
  BY DEF ConnInv, LifeInv, LinkInv, RunInv, Connection, Link
<1>2. CASE result # "error"
  <2>1. r = [k EXCEPT !.link = result, !.state = "CONNECT"]
    BY <1>2 DEF cm_connect
  <2> HIDE DEF r
  <2>2. LifeInv(r) /\ LinkInv(r) /\ RunInv(r)
    BY <1>1, <1>2, <2>1 DEF ConnInv, LifeInv, LinkInv, RunInv, Connection,
                            ConnectResult
  <2>3. WireInv(r)
    BY <2>1 DEF ConnInv, WireInv, Connection
  <2>4. ForwardInv(r)
    BY <2>1 DEF ConnInv, ForwardInv, Connection
  <2> QED
    BY <2>2, <2>3, <2>4 DEF ConnInv, r
<1>3. CASE result = "error"
  <2> DEFINE g == [k EXCEPT !.link = "connecting"]
             s == Append(k.sent, "close")
             e == [k EXCEPT !.sent = s, !.pending = TRUE,
                            !.ws_state = "CLOSING", !.fl_ws_closing = TRUE,
                            !.cm_state = "CLOSED", !.fl_cm_closed = TRUE,
                            !.cm_open = FALSE, !.link = "null",
                            !.buffer = <<>>]
  <2>1. ConnInv(e)
    BY <1>1, ClosingInv
  <2>2. g \in Connection /\ g.sent = k.sent /\ ~g.fault /\ g.mem = "live"
        /\ g.cm_mem = "live" /\ g.ws_state = "RECEIVING" /\ ~g.fl_ws_closing
    BY <1>1, ReceivingFacts DEF Connection, Link
  <2>3. cm_eventcb_error(g) =
          [g EXCEPT !.sent = s, !.pending = TRUE,
                    !.ws_state = "CLOSING", !.fl_ws_closing = TRUE,
                    !.cm_state = "CLOSED", !.fl_cm_closed = TRUE,
                    !.cm_open = FALSE, !.link = "null", !.buffer = <<>>]
    <3>1. s = Append(g.sent, "close")
      BY <2>2
    <3> HIDE DEF g, s
    <3>2. cm_eventcb_error(g) =
            [g EXCEPT !.sent = Append(@, "close"), !.pending = TRUE,
                      !.ws_state = "CLOSING", !.fl_ws_closing = TRUE,
                      !.cm_state = "CLOSED", !.fl_cm_closed = TRUE,
                      !.cm_open = FALSE, !.link = "null", !.buffer = <<>>]
      BY <2>2, XmppErrorShape
    <3> QED
      BY <3>1, <3>2, Zenon
  <2> HIDE DEF s
  <2>4. cm_eventcb_error(g) = e
    BY <2>3 DEF Connection
  <2>5. r = [e EXCEPT !.state = "CONNECT"]
    BY <1>3, <2>4 DEF cm_connect
  <2>6. r = [k EXCEPT !.sent = s, !.pending = TRUE, !.state = "CONNECT",
                      !.ws_state = "CLOSING", !.fl_ws_closing = TRUE,
                      !.cm_state = "CLOSED", !.fl_cm_closed = TRUE,
                      !.cm_open = FALSE, !.link = "null", !.buffer = <<>>]
    BY <2>5 DEF Connection
  <2> HIDE DEF r
  <2>7. LifeInv(r) /\ LinkInv(r) /\ RunInv(r)
    BY <1>1, <2>1, <2>6 DEF ConnInv, LifeInv, LinkInv, RunInv, Connection
  <2>8. WireInv(r)
    BY <2>1, <2>6 DEF ConnInv, WireInv, Connection
  <2>9. ForwardInv(r)
    BY <2>6 DEF ConnInv, ForwardInv, Connection
  <2> QED
    BY <2>7, <2>8, <2>9 DEF ConnInv, r
<1> QED
  BY <1>2, <1>3

\* A text message, in the loop of wsconn_process_frame: the manager's parser,
\* buffer and bufferevent are there when cm_onmessage needs them.
LEMMA OnMessageInv ==
  ASSUME NEW k \in Connection, ConnInv(k), RunInv(k),
         NEW parse \in ParseResult, NEW result \in ConnectResult
  PROVE  LET r == cm_onmessage(k, parse, result)
         IN  ConnInv(r) /\ RunInv(r)
<1> DEFINE m == k.msgs + 1
           c == [k EXCEPT !.msgs = m]
           r == cm_onmessage(k, parse, result)
<1>1. m \in Nat /\ k.mem = "live" /\ ~k.fault /\ k.state \in State
  BY DEF Connection, RunInv, ConnInv, LifeInv
<1>2. k.state # "CONNECT" => k.cm_open /\ k.ws_state = "RECEIVING"
  BY DEF RunInv, ConnInv, LifeInv, Connection
<1>3. k.state = "FORWARD" => k.link # "null"
  BY <1>2 DEF ConnInv, LinkInv
<1>4. Deref(c, TRUE) = c
  BY <1>1 DEF Deref, Connection
<1>5. CASE k.state = "START"
  <2> DEFINE b == [c EXCEPT !.buffer = Append(@, m)]
  <2>1. CASE k.error \/ parse = "error"
    <3>1. r = [c EXCEPT !.error = TRUE]
      BY <1>2, <1>4, <1>5, <2>1 DEF cm_onmessage
    <3>2. r = [k EXCEPT !.msgs = m, !.error = TRUE]
      BY <3>1 DEF Connection
    <3>3. ConnInv(r)
      BY <1>1, <1>5, <3>2, DropInv
    <3>4. RunInv(r)
      BY <1>5, <3>2 DEF RunInv, Connection
    <3> QED
      BY <3>3, <3>4
  <2>2. CASE ~k.error /\ parse # "error"
    <3>1. b = [k EXCEPT !.msgs = m, !.buffer = Append(@, m)]
      BY DEF Connection
    <3>2. ConnInv(b)
      BY <1>1, <1>2, <1>5, <2>2, <3>1, BufferInv
    <3>3. b \in Connection
      <4>1. Append(k.buffer, m) \in Seq(Nat)
        BY <1>1 DEF Connection
      <4>2. ASSUME NEW s \in Seq(Nat), NEW n \in Nat
            PROVE  [k EXCEPT !.msgs = n, !.buffer = s] \in Connection
        BY DEF Connection
      <4> QED
        BY <1>1, <3>1, <4>1, <4>2
    <3>4. Len(Append(k.buffer, m)) > 0
      BY <1>1 DEF Connection
    <3>5. RunInv(b) /\ b.cm_open /\ b.state = "START" /\ Len(b.buffer) > 0
      BY <1>2, <1>5, <3>1, <3>4 DEF RunInv, Connection
    <3>6. CASE parse = "more"
      <4>1. r = b
        BY <1>2, <1>4, <1>5, <2>2, <3>6 DEF cm_onmessage
      <4> QED
        BY <4>1, <3>2, <3>5
    <3>7. CASE parse = "server"
      <4>1. r = [cm_connect(b, result) EXCEPT !.state = "CONNECT"]
        BY <1>2, <1>4, <1>5, <2>2, <3>7 DEF cm_onmessage
      <4> HIDE DEF b
      <4> QED
        BY <4>1, <3>2, <3>3, <3>5, ConnectInv
    <3> QED
      BY <2>2, <3>6, <3>7 DEF ParseResult
  <2> QED
    BY <2>1, <2>2
<1>6. CASE k.state = "CONNECT"
  <2>1. r = c
    BY <1>6 DEF cm_onmessage
  <2>2. ConnInv(r)
    BY <1>1, <1>6, <2>1, DropInv
  <2>3. RunInv(r)
    BY <2>1 DEF RunInv, Connection
  <2> QED
    BY <2>2, <2>3
<1>7. CASE k.state = "FORWARD"
  <2>1. r = [c EXCEPT !.xmpp = Append(@, m)]
    BY <1>3, <1>4, <1>7 DEF cm_onmessage
  <2>2. r = [k EXCEPT !.msgs = m, !.xmpp = Append(@, m)]
    BY <2>1 DEF Connection
  <2>3. ConnInv(r)
    BY <1>1, <1>7, <2>2, SendInv
  <2>4. RunInv(r)
    BY <2>2 DEF RunInv, Connection
  <2> QED
    BY <2>3, <2>4
<1> QED
  BY <1>1, <1>5, <1>6, <1>7 DEF State

-----------------------------------------------------------------------------
(***************************************************************************)
(* The invariants of the specification                                     *)
(***************************************************************************)

\* Every action keeps every connection consistent.
LEMMA ConsistentStep == TypeOK /\ Consistent /\ [Next]_vars => Consistent'
<1> SUFFICES ASSUME TypeOK, Consistent, [Next]_vars
             PROVE  Consistent'
  OBVIOUS
<1>1. CASE UNCHANGED vars
  BY <1>1 DEF vars, Consistent
<1>2. ASSUME NEW c \in Conns, NEW k, ConnInv(k), Set(c, k),
             running' = None \/ (running' = c /\ RunInv(k))
      PROVE  Consistent'
  <2>1. conn' = [conn EXCEPT ![c] = k] /\ conn \in [Conns -> Connection]
    BY <1>2 DEF Set, TypeOK
  <2>2. conn'[c] = k /\ \A d \in Conns : d # c => conn'[d] = conn[d]
    BY <2>1
  <2>3. \A d \in Conns : ConnInv(conn'[d])
    BY <1>2, <2>2 DEF Consistent
  <2>4. running' # None => RunInv(conn'[running'])
    BY <1>2, <2>2
  <2> QED
    BY <2>3, <2>4 DEF Consistent
<1>3. ASSUME NEW c \in Conns, NEW k, ConnInv(k), Callback(c, k), running = None
      PROVE  Consistent'
  BY <1>2, <1>3 DEF Callback
<1>4. ASSUME NEW c \in Conns,
             \/ Accept(c)           \/ RequestError(c)
             \/ HandshakeAccept(c)  \/ HandshakeReject(c)
             \/ ReadFrames(c)       \/ Loop(c)
             \/ WriteDrained(c)     \/ ClientReadEnd(c) \/ ClientWriteError(c)
             \/ XmppConnected(c)    \/ XmppError(c)
             \/ XmppEof(c)          \/ XmppRead(c)
      PROVE  Consistent'
  <2> DEFINE k == conn[c]
  <2>0. k \in Connection /\ ConnInv(k)
    BY DEF TypeOK, Consistent
  <2>a. k.link # "null" => k.mem = "live" /\ k.ws_state = "RECEIVING"
    BY <2>0 DEF ConnInv, LifeInv, LinkInv
  <2>b. k.rcvd \in Nat /\ k.more \in BOOLEAN /\ k.rd \in BOOLEAN
        /\ k.wr \in BOOLEAN /\ k.failed \in BOOLEAN
    BY <2>0 DEF Connection
  <2>1. CASE Accept(c)
    <3>1. k = NoConnection
      BY <2>0, <2>1 DEF Accept, ConnInv, LifeInv
    <3> QED
      BY <3>1, <2>1, <1>3, CreateInv DEF Accept
  <2>2. CASE RequestError(c)
    BY <2>0, <2>2, <1>3, RefuseInv DEF RequestError, Idle
  <2>3. CASE HandshakeAccept(c)
    BY <2>0, <2>3, <1>3, AcceptInv DEF HandshakeAccept, Idle
  <2>4. CASE HandshakeReject(c)
    BY <2>0, <2>4, <1>3, RefuseInv DEF HandshakeReject, Idle
  <2>5. CASE ReadFrames(c)
    <3>1. PICK m \in BOOLEAN : Set(c, [k EXCEPT !.more = m])
      BY <2>5 DEF ReadFrames, More
    <3>3. k.mem = "live" /\ k.ws_state = "RECEIVING"
      BY <2>5 DEF ReadFrames, Idle
    <3>4. ConnInv([k EXCEPT !.more = m])
      <4> HIDE DEF k
      <4>1. ConnInv([k EXCEPT !.rcvd = k.rcvd, !.more = m])
        BY <2>0, <2>b, <3>3, ItemInv
      <4> QED
        BY <4>1, <2>0, ReadShape
    <3>5. RunInv([k EXCEPT !.more = m])
      BY <2>0, <3>3 DEF RunInv, Connection
    <3> QED
      BY <3>1, <3>4, <3>5, <2>5, <1>2 DEF ReadFrames
  <2>6. CASE Loop(c)
    <3>0. running = c
      BY <2>6 DEF Loop, LoopDone, LoopFail, LoopClose, LoopPing, LoopIgnore,
                  LoopText, Turn
    <3>1. CASE LoopDone(c)
      BY <3>1 DEF LoopDone, Break, Consistent
    <3>2. RunInv(k)
      BY <3>0, NoneAssumption DEF Consistent
    <3>4. ASSUME NEW t \in Taken(k)
          PROVE  /\ t \in Connection /\ ConnInv(t) /\ RunInv(t)
                 /\ ConnInv(wsconn_close([t EXCEPT !.failed = TRUE]))
      <4>0. k.mem = "live"
        BY <3>2 DEF RunInv
      <4>1. PICK a \in Nat, m \in BOOLEAN : t = [k EXCEPT !.rcvd = a, !.more = m]
        BY <2>0, <3>4, TakenShape
      <4>2. t \in Connection
        BY <2>0, <4>1, ItemType
      <4>3. ConnInv(t)
        <5> HIDE DEF k
        <5>1. ConnInv([k EXCEPT !.rcvd = a, !.more = m])
          BY <2>0, <4>0, ItemInv
        <5> QED
          BY <4>1, <5>1
      <4>4. RunInv(t)
        BY <2>0, <3>2, <4>1 DEF RunInv, Connection
      <4>5. ConnInv(wsconn_close([t EXCEPT !.failed = TRUE]))
        <5>1. [t EXCEPT !.failed = TRUE] =
                [k EXCEPT !.rd = k.rd, !.wr = k.wr, !.failed = TRUE,
                          !.rcvd = a, !.more = m]
          BY <2>0, <4>1 DEF Connection
        <5> HIDE DEF k
        <5>2. ConnInv(wsconn_close([k EXCEPT !.rd = k.rd, !.wr = k.wr,
                                             !.failed = TRUE, !.rcvd = a,
                                             !.more = m]))
          BY <2>0, <2>b, <4>0, CloseInv
        <5> QED
          BY <5>1, <5>2
      <4> QED
        BY <4>2, <4>3, <4>4, <4>5
    <3>7. CASE LoopFail(c)
      <4>1. PICK t \in Taken(k) : Set(c, wsconn_close([t EXCEPT !.failed = TRUE]))
        BY <3>7 DEF LoopFail
      <4> QED
        BY <4>1, <3>4, <3>7, <1>2 DEF LoopFail, Break
    <3>8. CASE LoopClose(c)
      <4>1. PICK t \in Taken(k) : Set(c, wsconn_initiate_close(t))
        BY <3>8 DEF LoopClose
      <4>2. ConnInv(wsconn_initiate_close(t))
        BY <3>4, InitiateCloseInv
      <4> QED
        BY <4>1, <4>2, <3>8, <1>2 DEF LoopClose, Break
    <3>9. CASE LoopPing(c)
      <4>1. PICK t \in Taken(k) : Set(c, wsconn_write_frame(t, "pong"))
        BY <3>9 DEF LoopPing
      <4>2. ConnInv(wsconn_write_frame(t, "pong"))
        BY <3>4, FrameInv DEF RunInv
      <4> QED
        BY <4>1, <4>2, <3>9, <1>2 DEF LoopPing, Break
    <3>10. CASE LoopIgnore(c)
      <4>1. PICK t \in Taken(k) : Set(c, t)
        BY <3>10 DEF LoopIgnore
      <4> QED
        BY <4>1, <3>0, <3>4, <3>10, <1>2 DEF LoopIgnore, Continue
    <3>11. CASE LoopText(c)
      <4>1. PICK t \in Taken(k), parse \in ParseResult, result \in ConnectResult :
                Set(c, cm_onmessage(t, parse, result))
        BY <3>11 DEF LoopText
      <4> DEFINE r == cm_onmessage(t, parse, result)
      <4>2. ConnInv(r) /\ RunInv(r)
        BY <3>4, OnMessageInv
      <4> HIDE DEF r
      <4>3. running' = c /\ Set(c, r)
        BY <3>0, <3>11, <4>1 DEF LoopText, Continue, r
      <4> QED
        BY <4>2, <4>3, <1>2
    <3> QED
      BY <3>1, <3>7, <3>8, <3>9, <3>10, <3>11, <2>6 DEF Loop
  <2>7. CASE WriteDrained(c)
    BY <2>0, <2>7, <1>3, DrainedInv DEF WriteDrained, Idle
  <2>8. CASE ClientReadEnd(c)
    <3>1. [k EXCEPT !.rd = FALSE] =
            [k EXCEPT !.rd = FALSE, !.wr = k.wr, !.failed = k.failed,
                      !.rcvd = k.rcvd, !.more = k.more]
      BY <2>0 DEF Connection
    <3>2. ConnInv(wsconn_close([k EXCEPT !.rd = FALSE]))
      <4>1. k.mem = "live"
        BY <2>8 DEF ClientReadEnd, Idle
      <4> HIDE DEF k
      <4>2. ConnInv(wsconn_close([k EXCEPT !.rd = FALSE, !.wr = k.wr,
                                           !.failed = k.failed,
                                           !.rcvd = k.rcvd, !.more = k.more]))
        BY ZenonT(40), <2>0, <2>b, <4>1, CloseInv
      <4> QED
        BY <3>1, <4>2
    <3> QED
      BY <3>2, <2>8, <1>3 DEF ClientReadEnd, Idle
  <2>9. CASE ClientWriteError(c)
    <3>1. [k EXCEPT !.wr = FALSE] =
            [k EXCEPT !.rd = k.rd, !.wr = FALSE, !.failed = k.failed,
                      !.rcvd = k.rcvd, !.more = k.more]
      BY <2>0 DEF Connection
    <3>2. ConnInv(wsconn_close([k EXCEPT !.wr = FALSE]))
      <4>1. k.mem = "live"
        BY <2>9 DEF ClientWriteError, Idle
      <4> HIDE DEF k
      <4>2. ConnInv(wsconn_close([k EXCEPT !.rd = k.rd, !.wr = FALSE,
                                           !.failed = k.failed,
                                           !.rcvd = k.rcvd, !.more = k.more]))
        BY ZenonT(40), <2>0, <2>b, <4>1, CloseInv
      <4> QED
        BY <3>1, <4>2
    <3> QED
      BY <3>2, <2>9, <1>3 DEF ClientWriteError, Idle
  <2>10. CASE XmppConnected(c)
    BY <2>0, <2>10, <1>3, XmppConnectedInv DEF XmppConnected
  <2>11. CASE XmppError(c)
    BY <2>0, <2>a, <2>11, <1>3, XmppErrorInv DEF XmppError
  <2>12. CASE XmppEof(c)
    BY <2>0, <2>12, <1>3, XmppEofInv DEF XmppEof
  <2>13. CASE XmppRead(c)
    <3>1. ConnInv(wsconn_write_frame(k, "text"))
      BY <2>0, <2>a, <2>13, FrameInv DEF XmppRead
    <3> QED
      BY <3>1, <2>13, <1>3 DEF XmppRead
  <2> QED
    BY <1>4, <2>1, <2>2, <2>3, <2>4, <2>5, <2>6, <2>7, <2>8, <2>9, <2>10,
       <2>11, <2>12, <2>13
<1> QED
  BY <1>1, <1>4 DEF Next

\* Every connection is consistent at all times, for any number of connections,
\* whatever the order in which clients, servers and timers call back.
THEOREM AlwaysConsistent == Spec => []Consistent
<1>1. Init => Consistent
  BY CreateInv DEF Init, Consistent
<1> QED
  BY <1>1, ConsistentStep, TypeCorrect, PTL DEF Spec

\* No callback ever uses memory that is freed or NULL, or frees it twice.
THEOREM MemorySafe == Spec => []NoFault
<1>1. Consistent => NoFault
  BY DEF Consistent, ConnInv, LifeInv, NoFault
<1> QED
  BY <1>1, AlwaysConsistent, PTL

\* An XMPP connection never outlives its client's session.
THEOREM LinkNeverOrphaned == Spec => []LinkOwned
<1>1. TypeOK /\ Consistent => LinkOwned
  BY DEF TypeOK, Consistent, ConnInv, LifeInv, LinkInv, LinkOwned, Connection
<1> QED
  BY <1>1, AlwaysConsistent, TypeCorrect, PTL

\* Every client reads its output in the order the protocol asks for.
THEOREM OutputInOrder == Spec => []WireOrder
<1>1. Consistent => WireOrder
  BY ZenonT(40) DEF Consistent, ConnInv, WireInv, WireOrder
<1> QED
  BY <1>1, AlwaysConsistent, PTL

\* Every XMPP server reads the stream header first and messages in order.
THEOREM MessagesInOrder == Spec => []ForwardOrder
<1>1. Consistent => ForwardOrder
  BY DEF Consistent, ConnInv, ForwardInv, ForwardOrder
<1> QED
  BY <1>1, AlwaysConsistent, PTL

\* Output is lost only with a client that is gone or broke the protocol.
THEOREM OutputFlushed == Spec => []FlushedBeforeFree
<1>1. Consistent => FlushedBeforeFree
  BY DEF Consistent, ConnInv, LifeInv, FlushedBeforeFree
<1> QED
  BY <1>1, AlwaysConsistent, PTL

\* A rejected connection is freed when its client goes.
THEOREM RejectedFreed == Spec => []RejectedFreedAtEof
<1>1. Consistent => RejectedFreedAtEof
  BY DEF Consistent, ConnInv, WireInv, RejectedFreedAtEof
<1> QED
  BY <1>1, AlwaysConsistent, PTL

-----------------------------------------------------------------------------
(***************************************************************************)
(* Closing is final                                                        *)
(***************************************************************************)

\* What NeverReopens says of one connection.
Onward(k, r) ==
    /\ Rank(k.ws_state) <= Rank(r.ws_state)
    /\ Rank(k.cm_state) <= Rank(r.cm_state)
    /\ k.ws_state = "CLOSED" \/ k.mem = "freed" =>
          r.sent = k.sent /\ r.xmpp = k.xmpp

\* The manager of a connection that is not closing has not been told to close,
\* so anything may follow but a second handshake.
LEMMA OpenOnward ==
  ASSUME NEW k \in Connection, NEW r \in Connection, ConnInv(k),
         k.mem = "live", k.ws_state \in {"START", "RECEIVING"},
         k.ws_state = "RECEIVING" => r.ws_state # "START"
  PROVE  Onward(k, r)
<1>1. k.cm_state = "CREATED" /\ r.ws_state \in WsState /\ r.cm_state \in CmState
  BY DEF ConnInv, LifeInv, Connection
<1> QED
  BY <1>1 DEF Onward, Rank, WsState, CmState

\* A step that changes neither state, and writes nothing once closed.
LEMMA SameOnward ==
  ASSUME NEW k \in Connection, NEW r,
         r.ws_state = k.ws_state, r.cm_state = k.cm_state,
         k.ws_state = "CLOSED" \/ k.mem = "freed" =>
            r.sent = k.sent /\ r.xmpp = k.xmpp
  PROVE  Onward(k, r)
<1>1. k.ws_state \in WsState /\ k.cm_state \in CmState
  BY DEF Connection
<1> QED
  BY <1>1 DEF Onward, Rank, WsState, CmState

\* wsconn_close, the first and any later one.
LEMMA CloseOnward ==
  ASSUME NEW k \in Connection, NEW g \in Connection, g.ws_state = k.ws_state,
         g.cm_state = k.cm_state, g.sent = k.sent, g.xmpp = k.xmpp
  PROVE  Onward(k, wsconn_close(g))
<1> DEFINE r == wsconn_close(g)
<1>1. /\ r.ws_state = "CLOSED" /\ r.sent = g.sent /\ r.xmpp = g.xmpp
      /\ r.cm_state = IF g.cm_state = "CREATED" THEN "CLOSING" ELSE g.cm_state
  BY DEF Connection, WsState, wsconn_close, wsconn_delete, CloseManager,
         cm_close, cm_delete, Deref
<1> HIDE DEF r
<1>2. k.ws_state \in WsState /\ k.cm_state \in CmState
  BY DEF Connection
<1>3. Rank(k.ws_state) <= Rank(r.ws_state)
  BY <1>1, <1>2 DEF Rank, WsState
<1>4. Rank(k.cm_state) <= Rank(r.cm_state)
  BY <1>1, <1>2 DEF Rank, CmState
<1> QED
  BY <1>1, <1>3, <1>4 DEF Onward, r

\* Written output, after which the connection may be freed.
LEMMA DrainedOnward ==
  ASSUME NEW k \in Connection
  PROVE  Onward(k, wsconn_write_cb([k EXCEPT !.pending = FALSE]))
<1> DEFINE g == [k EXCEPT !.pending = FALSE]
           r == wsconn_write_cb(g)
<1>1. /\ g \in Connection /\ g.ws_state = k.ws_state
      /\ g.cm_state = k.cm_state /\ g.sent = k.sent /\ g.xmpp = k.xmpp
  BY DEF Connection
<1> HIDE DEF g
<1>2. /\ r.ws_state = g.ws_state /\ r.cm_state = g.cm_state
      /\ r.sent = g.sent /\ r.xmpp = g.xmpp
  BY <1>1 DEF Connection, wsconn_write_cb, wsconn_delete, cm_close, cm_delete,
              Deref
<1> HIDE DEF r
<1> QED
  BY <1>1, <1>2, SameOnward DEF r, g

\* A turn of the loop that goes on with the connection: a connection that is
\* closing already stays as it is, but for a Pong.
LEMMA TurnOnward ==
  ASSUME NEW k \in Connection, ConnInv(k), RunInv(k), NEW t \in Taken(k)
  PROVE  /\ Onward(k, t)
         /\ Onward(k, wsconn_initiate_close(t))
         /\ Onward(k, wsconn_write_frame(t, "pong"))
         /\ \A parse \in ParseResult, result \in ConnectResult :
               Onward(k, cm_onmessage(t, parse, result))
<1>1. PICK a \in Nat, m \in BOOLEAN : t = [k EXCEPT !.rcvd = a, !.more = m]
  BY TakenShape
<1>2. k.mem = "live" /\ k.ws_state \in {"RECEIVING", "CLOSING"}
  BY DEF RunInv
<1>3. t \in Connection /\ ConnInv(t)
  BY <1>1, <1>2, ItemInv, TakenType
<1>4. /\ t.mem = k.mem /\ t.ws_state = k.ws_state /\ t.cm_state = k.cm_state
      /\ t.sent = k.sent /\ t.xmpp = k.xmpp /\ t.state = k.state
      /\ t.fl_ws_closing = k.fl_ws_closing
  BY <1>1 DEF Connection
<1>5. RunInv(t)
  BY <1>4 DEF RunInv
<1>6. Onward(k, t)
  BY <1>2, <1>4, SameOnward
<1>7. Onward(k, wsconn_initiate_close(t))
  <2> DEFINE r == wsconn_initiate_close(t)
  <2>1. CASE k.ws_state = "CLOSING"
    <3>1. r = t
      BY <1>3, <1>4, <2>1 DEF ConnInv, WireInv, wsconn_initiate_close
    <3> QED
      BY <1>6, <3>1
  <2>2. CASE k.ws_state = "RECEIVING"
    <3>1. r \in Connection
      BY <1>3, InitiateCloseType
    <3> DEFINE s == Append(t.sent, "close")
    <3>2. r = [t EXCEPT !.sent = s, !.pending = TRUE,
                        !.ws_state = "CLOSING", !.fl_ws_closing = TRUE,
                        !.cm_state = "CLOSING", !.cm_open = FALSE,
                        !.link = "null", !.buffer = <<>>]
      BY ZenonT(40), <1>2, <1>3, <1>4, <2>2, ReceivingFacts, InitiateCloseShape
    <3> HIDE DEF s, r
    <3>3. r.ws_state = "CLOSING"
      BY <1>3, <3>2 DEF Connection
    <3> QED
      BY <1>2, <2>2, <3>1, <3>3, OpenOnward DEF r
  <2> QED
    BY <1>2, <2>1, <2>2
<1>8. Onward(k, wsconn_write_frame(t, "pong"))
  <2> DEFINE s == Append(t.sent, "pong")
             r == wsconn_write_frame(t, "pong")
  <2>1. r = [t EXCEPT !.sent = s, !.pending = TRUE]
    BY <1>2, <1>3, <1>4, WriteShape DEF Output
  <2> HIDE DEF s, r
  <2>2. r.ws_state = k.ws_state /\ r.cm_state = k.cm_state
    BY <1>3, <1>4, <2>1 DEF Connection
  <2> QED
    BY <1>2, <2>2, SameOnward DEF r
<1>9. ASSUME NEW parse \in ParseResult, NEW result \in ConnectResult
      PROVE  Onward(k, cm_onmessage(t, parse, result))
  <2> DEFINE r == cm_onmessage(t, parse, result)
  <2>1. CASE k.ws_state = "CLOSING"
    <3>1. t.state = "CONNECT"
      BY <1>4, <2>1 DEF RunInv
    <3>2. r = [t EXCEPT !.msgs = t.msgs + 1]
      BY <3>1 DEF cm_onmessage
    <3> HIDE DEF r
    <3>3. r.ws_state = k.ws_state /\ r.cm_state = k.cm_state
      BY <1>3, <1>4, <3>2 DEF Connection
    <3> QED
      BY <1>2, <2>1, <3>3, SameOnward DEF r
  <2>2. CASE k.ws_state = "RECEIVING"
    <3>1. RunInv(r) /\ r \in Connection
      BY <1>3, <1>5, OnMessageInv, OnMessageType
    <3>2. r.ws_state # "START"
      BY <3>1 DEF RunInv
    <3> HIDE DEF r
    <3> QED
      BY <1>2, <2>2, <3>1, <3>2, OpenOnward DEF r
  <2> QED
    BY <1>2, <2>1, <2>2
<1> QED
  BY <1>6, <1>7, <1>8, <1>9

\* Every step takes every connection onward.
LEMMA OnwardStep ==
  ASSUME TypeOK, Consistent, [Next]_vars, NEW d \in Conns
  PROVE  Onward(conn[d], conn'[d])
<1>0. conn[d] \in Connection
  BY DEF TypeOK
<1>1. ASSUME UNCHANGED conn
      PROVE  Onward(conn[d], conn'[d])
  BY <1>0, <1>1, SameOnward
<1>2. ASSUME NEW c \in Conns, NEW r, Set(c, r), Onward(conn[c], r)
      PROVE  Onward(conn[d], conn'[d])
  <2>1. conn'[d] = IF d = c THEN r ELSE conn[d]
    BY <1>2 DEF Set, TypeOK
  <2> QED
    BY <1>0, <1>2, <2>1, SameOnward
<1>3. ASSUME NEW c \in Conns,
             \/ Accept(c)           \/ RequestError(c)
             \/ HandshakeAccept(c)  \/ HandshakeReject(c)
             \/ ReadFrames(c)       \/ Loop(c)
             \/ WriteDrained(c)     \/ ClientReadEnd(c) \/ ClientWriteError(c)
             \/ XmppConnected(c)    \/ XmppError(c)
             \/ XmppEof(c)          \/ XmppRead(c)
      PROVE  Onward(conn[d], conn'[d])
  <2> DEFINE k == conn[c]
  <2>0. k \in Connection /\ ConnInv(k)
    BY DEF TypeOK, Consistent
  <2>a. k.link # "null" => k.mem = "live" /\ k.ws_state = "RECEIVING"
    BY <2>0 DEF ConnInv, LifeInv, LinkInv
  <2>1. CASE Accept(c)
    <3> DEFINE r == wsconn_create(k)
    <3>1. Set(c, r) /\ k.mem = "none"
      BY <2>1 DEF Accept, Callback
    <3>2. /\ r.ws_state = k.ws_state /\ r.cm_state = k.cm_state
          /\ r.sent = k.sent /\ r.xmpp = k.xmpp
      BY <2>0 DEF wsconn_create, cm_create, Connection
    <3> HIDE DEF r
    <3> QED
      BY <1>2, <2>0, <3>1, <3>2, SameOnward
  <2>2. CASE RequestError(c)
    BY <1>2, <2>0, <2>2, CloseOnward DEF RequestError, Callback
  <2>3. CASE HandshakeAccept(c)
    <3> DEFINE w == wsconn_write_frame(k, "accept")
               r == [w EXCEPT !.ws_state = "RECEIVING", !.fl_cm_closed = FALSE]
    <3>1. Set(c, r) /\ k.mem = "live" /\ k.ws_state = "START"
      BY <2>3 DEF HandshakeAccept, Callback, Idle
    <3>2. r \in Connection
      BY <2>0, WriteType, FlagTypes DEF Output
    <3> QED
      BY <1>2, <2>0, <3>1, <3>2, OpenOnward
  <2>4. CASE HandshakeReject(c)
    <3> DEFINE r == wsconn_close(wsconn_write_frame(k, "reject"))
    <3>1. Set(c, r) /\ k.mem = "live" /\ k.ws_state = "START"
      BY <2>4 DEF HandshakeReject, Callback, Idle
    <3>2. r \in Connection
      BY <2>0, WriteType, CloseType DEF Output
    <3> HIDE DEF r
    <3> QED
      BY <1>2, <2>0, <3>1, <3>2, OpenOnward
  <2>5. CASE ReadFrames(c)
    <3>1. PICK m \in BOOLEAN : Set(c, [k EXCEPT !.more = m])
      BY <2>5 DEF ReadFrames, More
    <3> DEFINE r == [k EXCEPT !.more = m]
    <3>2. /\ r.ws_state = k.ws_state /\ r.cm_state = k.cm_state
          /\ r.sent = k.sent /\ r.xmpp = k.xmpp
      BY <2>0 DEF Connection
    <3> HIDE DEF r
    <3>3. Onward(k, r)
      BY <2>0, <3>2, SameOnward
    <3> QED
      BY <1>2, <3>1, <3>3 DEF r
  <2>6. CASE Loop(c)
    <3>0. running = c
      BY <2>6 DEF Loop, LoopDone, LoopFail, LoopClose, LoopPing, LoopIgnore,
                  LoopText, Turn
    <3>1. RunInv(k)
      BY <3>0, NoneAssumption DEF Consistent
    <3>2. CASE LoopDone(c)
      BY <1>1, <3>2 DEF LoopDone
    <3>3. CASE LoopFail(c)
      <4>1. PICK t \in Taken(k) : Set(c, wsconn_close([t EXCEPT !.failed = TRUE]))
        BY <3>3 DEF LoopFail
      <4>2. PICK a \in Nat, m \in BOOLEAN : t = [k EXCEPT !.rcvd = a, !.more = m]
        BY <2>0, TakenShape
      <4> DEFINE g == [t EXCEPT !.failed = TRUE]
      <4>3. g \in Connection
        BY <2>0, TakenType, FlagTypes
      <4>4. /\ g.ws_state = k.ws_state /\ g.cm_state = k.cm_state
            /\ g.sent = k.sent /\ g.xmpp = k.xmpp
        BY <2>0, <4>2 DEF Connection
      <4> HIDE DEF g
      <4>5. Onward(k, wsconn_close(g))
        BY <2>0, <4>3, <4>4, CloseOnward
      <4> QED
        BY <1>2, <4>1, <4>5 DEF g
    <3>4. CASE LoopClose(c)
      BY <1>2, <2>0, <3>1, <3>4, TurnOnward DEF LoopClose
    <3>5. CASE LoopPing(c)
      BY <1>2, <2>0, <3>1, <3>5, TurnOnward DEF LoopPing
    <3>6. CASE LoopIgnore(c)
      BY <1>2, <2>0, <3>1, <3>6, TurnOnward DEF LoopIgnore
    <3>7. CASE LoopText(c)
      BY <1>2, <2>0, <3>1, <3>7, TurnOnward DEF LoopText
    <3> QED
      BY <3>2, <3>3, <3>4, <3>5, <3>6, <3>7, <2>6 DEF Loop
  <2>7. CASE WriteDrained(c)
    BY <1>2, <2>0, <2>7, DrainedOnward DEF WriteDrained, Callback
  <2>8. CASE ClientReadEnd(c) \/ ClientWriteError(c)
    <3> DEFINE f == [k EXCEPT !.rd = FALSE]
               g == [k EXCEPT !.wr = FALSE]
    <3>1. Set(c, wsconn_close(f)) \/ Set(c, wsconn_close(g))
      BY <2>8 DEF ClientReadEnd, ClientWriteError, Callback
    <3>2. f \in Connection /\ g \in Connection
      BY <2>0, FlagTypes
    <3>3. /\ f.ws_state = k.ws_state /\ f.cm_state = k.cm_state
          /\ f.sent = k.sent /\ f.xmpp = k.xmpp
          /\ g.ws_state = k.ws_state /\ g.cm_state = k.cm_state
          /\ g.sent = k.sent /\ g.xmpp = k.xmpp
      BY <2>0 DEF Connection
    <3> HIDE DEF f, g
    <3>4. Onward(k, wsconn_close(f)) /\ Onward(k, wsconn_close(g))
      BY <2>0, <3>2, <3>3, CloseOnward
    <3> QED
      BY <1>2, <3>1, <3>4
  <2>9. CASE XmppConnected(c)
    <3> DEFINE r == cm_eventcb_connected(k)
    <3>1. Set(c, r) /\ k.mem = "live" /\ k.ws_state = "RECEIVING"
      BY <2>a, <2>9 DEF XmppConnected, Callback
    <3>2. r \in Connection
      BY <2>0, XmppConnectedType
    <3>3. r.ws_state = k.ws_state
      BY <2>0 DEF cm_eventcb_connected, Deref, Connection
    <3> HIDE DEF r
    <3> QED
      BY <1>2, <2>0, <3>1, <3>2, <3>3, OpenOnward
  <2>10. CASE XmppError(c)
    <3> DEFINE r == cm_eventcb_error(k)
               s == Append(k.sent, "close")
    <3>1. Set(c, r) /\ k.mem = "live" /\ k.ws_state = "RECEIVING"
      BY <2>a, <2>10 DEF XmppError, Callback
    <3>2. r \in Connection
      BY <2>0, XmppErrorType
    <3>3. r = [k EXCEPT !.sent = s, !.pending = TRUE,
                        !.ws_state = "CLOSING", !.fl_ws_closing = TRUE,
                        !.cm_state = "CLOSED", !.fl_cm_closed = TRUE,
                        !.cm_open = FALSE, !.link = "null", !.buffer = <<>>]
      BY <2>0, <3>1, ReceivingFacts, XmppErrorShape
    <3> HIDE DEF r, s
    <3>4. r.ws_state = "CLOSING"
      BY <2>0, <3>3 DEF Connection
    <3> QED
      BY <1>2, <2>0, <3>1, <3>2, <3>4, OpenOnward
  <2>11. CASE XmppEof(c)
    <3> DEFINE r == [k EXCEPT !.link = "eof"]
    <3>1. Set(c, r)
      BY <2>11 DEF XmppEof, Callback
    <3>2. /\ r.ws_state = k.ws_state /\ r.cm_state = k.cm_state
          /\ r.sent = k.sent /\ r.xmpp = k.xmpp
      BY <2>0 DEF Connection
    <3> HIDE DEF r
    <3> QED
      BY <1>2, <2>0, <3>1, <3>2, SameOnward
  <2>12. CASE XmppRead(c)
    <3> DEFINE s == Append(k.sent, "text")
               r == wsconn_write_frame(k, "text")
    <3>1. Set(c, r) /\ k.mem = "live" /\ k.ws_state = "RECEIVING"
      BY <2>a, <2>12 DEF XmppRead, Callback
    <3>2. r = [k EXCEPT !.sent = s, !.pending = TRUE]
      BY <2>0, <3>1, WriteShape DEF Output
    <3> HIDE DEF r, s
    <3>3. r.ws_state = k.ws_state /\ r.cm_state = k.cm_state
      BY <2>0, <3>2 DEF Connection
    <3> QED
      BY <1>2, <2>0, <3>1, <3>3, SameOnward
  <2> QED
    BY <1>3, <2>1, <2>2, <2>3, <2>4, <2>5, <2>6, <2>7, <2>8, <2>9, <2>10,
       <2>11, <2>12
<1> QED
  BY <1>1, <1>3 DEF Next, vars

\* Whoever closes first, closing is never undone, and a closed or freed
\* connection is silent in both directions.
THEOREM ClosingIsFinal == Spec => NeverReopens
<1>1. TypeOK /\ Consistent /\ [Next]_vars
        => [\A c \in Conns :
              /\ Rank(conn[c].ws_state) <= Rank(conn'[c].ws_state)
              /\ Rank(conn[c].cm_state) <= Rank(conn'[c].cm_state)
              /\ conn[c].ws_state = "CLOSED" \/ conn[c].mem = "freed" =>
                    /\ conn'[c].sent = conn[c].sent
                    /\ conn'[c].xmpp = conn[c].xmpp]_vars
  BY OnwardStep DEF Onward
<1> QED
  BY <1>1, TypeCorrect, AlwaysConsistent, PTL DEF Spec, NeverReopens

=============================================================================
