------------------------------- MODULE Gateway -------------------------------
(***************************************************************************)
(* The life of a browser connection in jabsocket: the WebSocket side       *)
(* (wsserver.c, wsconn_t) and the XMPP side (cmanager.c, cmanager_t) that  *)
(* every connection owns.                                                  *)
(*                                                                         *)
(* jabsocket is single threaded: libevent runs one callback at a time, so  *)
(* a callback is one action, except that each turn of the loop in          *)
(* wsconn_process_frame is an action of its own; while that loop runs      *)
(* (`running') no other callback does.                                     *)
(*                                                                         *)
(* A C function that updates a wsconn_t and its cmanager_t is an operator  *)
(* of the same name on the record of the connection.  A use of memory that *)
(* is freed or NULL sets `fault'.  Memory allocation does not fail here.   *)
(***************************************************************************)
EXTENDS Naturals, Sequences

CONSTANTS
    Conns,      \* the connections the listener will accept, each used once
    None,       \* no connection: the event loop is in no wsconn_process_frame
    MaxItems,   \* bound: frames or messages a client sends after its handshake
    MaxFrames   \* bound: frames written to a client before stanzas are withheld

ASSUME NoneAssumption == None \notin Conns
ASSUME BoundsAssumption == MaxItems \in Nat /\ MaxFrames \in Nat

VARIABLES
    conn,       \* conn[c]: the wsconn_t c, its bufferevent and its cmanager_t
    running     \* the connection whose wsconn_process_frame loop is running

vars == <<conn, running>>

-----------------------------------------------------------------------------
(***************************************************************************)
(* State                                                                   *)
(***************************************************************************)

WsState == {"START", "RECEIVING", "CLOSING", "CLOSED"}   \* WS_ST_...
CmState == {"CREATED", "CLOSING", "CLOSED"}              \* CM_ST_...
State   == {"START", "CONNECT", "FORWARD"}               \* ST_... of cmanager.c
Memory  == {"none", "live", "freed"}

\* cm->bev: NULL, allocated but never connecting, connecting, connected, or
\* connected and closed for reading by the XMPP server.
Link == {"null", "idle", "connecting", "connected", "eof"}

\* What is written to the client: the response to the handshake, then frames.
Output == {"accept", "reject", "text", "pong", "close"}

Connection ==
    [mem           : Memory,      \* the wsconn_t and its bufferevent
     ws_state      : WsState,
     cm_state      : CmState,
     fl_ws_closing : BOOLEAN,
     fl_cm_closed  : BOOLEAN,
     rd            : BOOLEAN,     \* EV_READ: no read error and no EOF so far
     wr            : BOOLEAN,     \* EV_WRITE: no write error so far
     pending       : BOOLEAN,     \* the output evbuffer is not empty
     sent          : Seq(Output), \* everything added to the output evbuffer
     rcvd          : Nat,         \* items the decoder has handed out
     more          : BOOLEAN,     \* it has one more: a frame, message or error
     failed        : BOOLEAN,     \* the client broke the protocol
     cm_mem        : Memory,      \* the cmanager_t
     cm_open       : BOOLEAN,     \* its parser, buffer and framer are not NULL
     state         : State,
     link          : Link,
     error         : BOOLEAN,     \* cm->parser->error
     buffer        : Seq(Nat),    \* cm->buffer, as numbers of text messages
     msgs          : Nat,         \* text messages given to cm_onmessage
     xmpp          : Seq(Nat),    \* those written to the XMPP server
     fault         : BOOLEAN]     \* freed or NULL memory has been used

\* A connection that the listener has not accepted yet.
NoConnection ==
    [mem |-> "none", ws_state |-> "START", cm_state |-> "CREATED",
     fl_ws_closing |-> FALSE, fl_cm_closed |-> TRUE,
     rd |-> FALSE, wr |-> FALSE, pending |-> FALSE, sent |-> <<>>,
     rcvd |-> 0, more |-> FALSE, failed |-> FALSE,
     cm_mem |-> "none", cm_open |-> FALSE, state |-> "START",
     link |-> "null", error |-> FALSE, buffer |-> <<>>, msgs |-> 0,
     xmpp |-> <<>>, fault |-> FALSE]

-----------------------------------------------------------------------------
(***************************************************************************)
(* Operations on one connection k                                          *)
(***************************************************************************)

\* k after a use of memory that is valid only if ok.
Deref(k, ok) == [k EXCEPT !.fault = @ \/ ~ok]

cm_create(k) == [k EXCEPT !.cm_mem = "live", !.cm_open = TRUE]

wsconn_create(k) ==
    [cm_create(k) EXCEPT !.mem = "live", !.rd = TRUE, !.wr = TRUE]

cm_close(k) ==
    [Deref(k, k.cm_mem = "live") EXCEPT
        !.cm_open = FALSE, !.link = "null", !.buffer = <<>>]

cm_delete(k) == [cm_close(k) EXCEPT !.cm_mem = "freed"]

\* The output that is pending when the bufferevent is freed is lost.
wsconn_delete(k) ==
    [cm_delete(Deref(k, k.mem = "live")) EXCEPT !.mem = "freed", !.more = FALSE]

wsconn_write_frame(k, f) ==
    [Deref(k, k.mem = "live") EXCEPT
        !.sent = Append(@, f), !.pending = TRUE]

\* The test all the closing functions make before they tell the manager.
CloseManager(k) ==
    IF k.cm_state = "CREATED"
    THEN [cm_close(k) EXCEPT !.cm_state = "CLOSING"]
    ELSE k

\* Seeded fault: the connection is freed without waiting for its manager.
wsconn_close_Eager(k) ==
    LET c == [Deref(k, k.mem = "live") EXCEPT !.ws_state = "CLOSED"]
    IN  IF c.fl_cm_closed THEN wsconn_delete(c) ELSE CloseManager(c)

\* Seeded fault: fl_cm_closed is never looked at.
wsconn_close_NoFree(k) ==
    CloseManager([Deref(k, k.mem = "live") EXCEPT !.ws_state = "CLOSED"])

\* Seeded fault: cm_state is assigned outside the test.
wsconn_close_Reset(k) ==
    LET c == [Deref(k, k.mem = "live") EXCEPT !.ws_state = "CLOSED"]
        d == IF c.cm_state # "CREATED" /\ c.fl_cm_closed
             THEN wsconn_delete(c)
             ELSE CloseManager(c)
    IN  [d EXCEPT !.cm_state = "CLOSING"]

wsconn_close(k) ==
    LET c == [Deref(k, k.mem = "live") EXCEPT !.ws_state = "CLOSED"]
    IN  IF c.cm_state # "CREATED" /\ c.fl_cm_closed
        THEN wsconn_delete(c)
        ELSE CloseManager(c)

\* Seeded fault: the manager is not told.
wsconn_initiate_close_Alone(k) ==
    IF k.fl_ws_closing
    THEN k
    ELSE [wsconn_write_frame(k, "close") EXCEPT
             !.ws_state = "CLOSING", !.fl_ws_closing = TRUE]

\* Seeded fault: fl_ws_closing is not tested.
wsconn_initiate_close_Twice(k) ==
    [CloseManager([wsconn_write_frame(k, "close") EXCEPT
                      !.ws_state = "CLOSING"])
        EXCEPT !.fl_ws_closing = TRUE]

wsconn_initiate_close(k) ==
    IF k.fl_ws_closing
    THEN k
    ELSE [CloseManager([wsconn_write_frame(k, "close") EXCEPT
                           !.ws_state = "CLOSING"])
             EXCEPT !.fl_ws_closing = TRUE]

\* Seeded fault: fl_cm_closed is not set.
wsconn_onclosed_NoFlag(k) ==
    LET c == [k EXCEPT !.cm_state = "CLOSED"]
    IN  CASE c.ws_state = "RECEIVING" -> wsconn_initiate_close(c)
          [] c.ws_state = "CLOSED"    -> wsconn_delete(c)
          [] OTHER                    -> c

wsconn_onclosed(k) ==
    LET c == [k EXCEPT !.cm_state = "CLOSED", !.fl_cm_closed = TRUE]
    IN  CASE c.ws_state = "RECEIVING" -> wsconn_initiate_close(c)
          [] c.ws_state = "CLOSED"    -> wsconn_delete(c)
          [] OTHER                    -> c

\* Seeded fault: the buffer is emptied and not written.
cm_eventcb_connected_NoFlush(k) ==
    [Deref(k, k.cm_open) EXCEPT
        !.link = "connected", !.state = "FORWARD", !.buffer = <<>>]

\* cm_eventcb for BEV_EVENT_CONNECTED: what was buffered goes to the server.
cm_eventcb_connected(k) ==
    [Deref(k, k.cm_open) EXCEPT
        !.link = "connected", !.state = "FORWARD",
        !.xmpp = @ \o k.buffer, !.buffer = <<>>]

\* cm_eventcb for BEV_EVENT_ERROR.
cm_eventcb_error(k) == cm_close(wsconn_onclosed(k))

\* What cm_connect comes to: the connection is under way; it failed before
\* cm_connect returned, and libevent has called cm_eventcb from inside it; or
\* it was not started at all (no DNS base), which nobody is told.
ConnectResult == {"connecting", "error", "idle"}

\* Seeded fault: the result is stored and the failure not handled.
cm_connect_Ignored(k, result) == [k EXCEPT !.link = result]

cm_connect(k, result) ==
    IF result = "error"
    THEN cm_eventcb_error([k EXCEPT !.link = "connecting"])
    ELSE [k EXCEPT !.link = result]

\* What the stream parser makes of a message: not XML (the error stays), more
\* is needed, or the stream header is complete and names the server.
ParseResult == {"error", "more", "server"}

\* Seeded fault: cm->state advances only when cm_connect has not failed.
cm_onmessage_StaysInStart(k, parse, result) ==
    LET m == k.msgs + 1
        c == [k EXCEPT !.msgs = m]
        p == Deref(c, k.cm_open)
        b == [p EXCEPT !.buffer = Append(@, m)]
    IN  CASE k.state = "START" /\ (k.error \/ parse = "error") ->
                [p EXCEPT !.error = TRUE]
          [] k.state = "START" /\ ~k.error /\ parse = "more" -> b
          [] k.state = "START" /\ ~k.error /\ parse = "server" ->
                IF result = "error"
                THEN cm_connect(b, result)
                ELSE [cm_connect(b, result) EXCEPT !.state = "CONNECT"]
          [] k.state = "CONNECT" -> c
          [] k.state = "FORWARD" ->
                [Deref(c, k.link # "null") EXCEPT !.xmpp = Append(@, m)]

cm_onmessage(k, parse, result) ==
    LET m == k.msgs + 1
        c == [k EXCEPT !.msgs = m]
        p == Deref(c, k.cm_open)
        b == [p EXCEPT !.buffer = Append(@, m)]
    IN  CASE k.state = "START" /\ (k.error \/ parse = "error") ->
                [p EXCEPT !.error = TRUE]
          [] k.state = "START" /\ ~k.error /\ parse = "more" -> b
          [] k.state = "START" /\ ~k.error /\ parse = "server" ->
                [cm_connect(b, result) EXCEPT !.state = "CONNECT"]
          [] k.state = "CONNECT" -> c
          [] k.state = "FORWARD" ->
                [Deref(c, k.link # "null") EXCEPT !.xmpp = Append(@, m)]

-----------------------------------------------------------------------------
(***************************************************************************)
(* Actions: the callbacks libevent makes                                   *)
(***************************************************************************)

\* The event loop is free to call back for connection c.
Idle(c) == running = None /\ conn[c].mem = "live"

Set(c, k) == conn' = [conn EXCEPT ![c] = k]

\* A callback of connection c that runs to its end.
Callback(c, k) == Set(c, k) /\ UNCHANGED running

\* ws_accept_conn_cb.
Accept(c) ==
    /\ running = None
    /\ conn[c].mem = "none"
    /\ Callback(c, wsconn_create(conn[c]))

\* wsconn_read_cb in WS_ST_START is given a line that is not HTTP.
RequestError(c) ==
    /\ Idle(c)
    /\ conn[c].rd
    /\ conn[c].ws_state = "START"
    /\ Callback(c, wsconn_close(conn[c]))

\* wsconn_handshake when rq_analyze accepts the request.
HandshakeAccept(c) ==
    /\ Idle(c)
    /\ conn[c].rd
    /\ conn[c].ws_state = "START"
    /\ Callback(c, [wsconn_write_frame(conn[c], "accept") EXCEPT
                       !.ws_state = "RECEIVING", !.fl_cm_closed = FALSE])

\* wsconn_handshake when rq_analyze rejects it.
HandshakeReject(c) ==
    /\ Idle(c)
    /\ conn[c].rd
    /\ conn[c].ws_state = "START"
    /\ Callback(c, wsconn_close(wsconn_write_frame(conn[c], "reject")))

\* Whether the decoder may find an item in what has arrived so far.
More(k) == {m \in BOOLEAN : m => k.rcvd < MaxItems}

\* wsconn_process_frame takes the bytes that have arrived; the decoder finds a
\* control frame, a message or an error in them, or it does not; what it had
\* before stays.  In WS_ST_CLOSING and WS_ST_CLOSED wsconn_read_cb ignores its
\* input.
ReadFrames(c) ==
    /\ Idle(c)
    /\ conn[c].rd
    /\ conn[c].ws_state = "RECEIVING"
    /\ \E m \in More(conn[c]) :
        /\ conn[c].more => m
        /\ Set(c, [conn[c] EXCEPT !.more = m])
    /\ running' = c

-----------------------------------------------------------------------------
(***************************************************************************)
(* One turn of the loop in wsconn_process_frame                            *)
(***************************************************************************)

\* The loop is at its head and the decoder has one more item.
Turn(c) == running = c /\ conn[c].more

\* k once this turn of the loop has taken an item: the decoder goes on with
\* what has arrived and has another one, or not.
Taken(k) ==
    LET t == [k EXCEPT !.rcvd = @ + 1]
    IN  {[t EXCEPT !.more = m] : m \in More(t)}

Break == running' = None

Continue == UNCHANGED running

\* Seeded fault: the loop goes round with nothing to do.
LoopDone_NoBreak(c) ==
    /\ running = c
    /\ ~conn[c].more
    /\ UNCHANGED vars

\* Neither a frame nor a message: the loop ends.
LoopDone(c) ==
    /\ running = c
    /\ ~conn[c].more
    /\ Break
    /\ UNCHANGED conn

\* wsmsg_fail, or a binary message: the connection is closed.
LoopFail(c) ==
    /\ Turn(c)
    /\ \E k \in Taken(conn[c]) : Set(c, wsconn_close([k EXCEPT !.failed = TRUE]))
    /\ Break

\* Seeded fault: the loop goes on after a Close frame.
LoopClose_NoBreak(c) ==
    /\ Turn(c)
    /\ \E k \in Taken(conn[c]) : Set(c, wsconn_initiate_close(k))
    /\ Continue

\* A Close frame: the closing handshake is answered.
LoopClose(c) ==
    /\ Turn(c)
    /\ \E k \in Taken(conn[c]) : Set(c, wsconn_initiate_close(k))
    /\ Break

\* A Ping frame is answered; the rest waits for the next read event.
LoopPing(c) ==
    /\ Turn(c)
    /\ \E k \in Taken(conn[c]) : Set(c, wsconn_write_frame(k, "pong"))
    /\ Break

\* A Pong frame, or a message whose opcode is reserved, is ignored.
LoopIgnore(c) ==
    /\ Turn(c)
    /\ \E k \in Taken(conn[c]) : Set(c, k)
    /\ Continue

\* A text message goes to the connection manager.
LoopText(c) ==
    /\ Turn(c)
    /\ \E k \in Taken(conn[c]), parse \in ParseResult, result \in ConnectResult :
          Set(c, cm_onmessage(k, parse, result))
    /\ Continue

Loop(c) ==
    \/ LoopDone(c)  \/ LoopFail(c)   \/ LoopClose(c)
    \/ LoopPing(c)  \/ LoopIgnore(c) \/ LoopText(c)

-----------------------------------------------------------------------------
(***************************************************************************)
(* The other callbacks                                                     *)
(***************************************************************************)

\* Seeded fault: the connection also waits for wsconn_onclosed.
wsconn_write_cb_Waits(k) ==
    IF k.ws_state = "CLOSING" /\ k.fl_cm_closed THEN wsconn_delete(k) ELSE k

\* Seeded fault: ws_state is not looked at.
wsconn_write_cb_Any(k) == wsconn_delete(k)

wsconn_write_cb(k) == IF k.ws_state = "CLOSING" THEN wsconn_delete(k) ELSE k

\* The output evbuffer has been written to the socket.  libevent calls
\* wsconn_write_cb only then, so its test of the length is always true.
WriteDrained(c) ==
    /\ Idle(c)
    /\ conn[c].wr
    /\ conn[c].pending
    /\ Callback(c, wsconn_write_cb([conn[c] EXCEPT !.pending = FALSE]))

\* wsconn_event_cb for a read error or EOF; libevent stops reading first.
ClientReadEnd(c) ==
    /\ Idle(c)
    /\ conn[c].rd
    /\ Callback(c, wsconn_close([conn[c] EXCEPT !.rd = FALSE]))

\* wsconn_event_cb for a write error; libevent stops writing first.
ClientWriteError(c) ==
    /\ Idle(c)
    /\ conn[c].wr
    /\ conn[c].pending
    /\ Callback(c, wsconn_close([conn[c] EXCEPT !.wr = FALSE]))

XmppConnected(c) ==
    /\ running = None
    /\ conn[c].link = "connecting"
    /\ Callback(c, cm_eventcb_connected(conn[c]))

XmppError(c) ==
    /\ running = None
    /\ conn[c].link \in {"connecting", "connected", "eof"}
    /\ Callback(c, cm_eventcb_error(conn[c]))

\* cm_eventcb tests neither BEV_EVENT_EOF nor a timeout: libevent stops
\* reading and that is all.
XmppEof(c) ==
    /\ running = None
    /\ conn[c].link = "connected"
    /\ Callback(c, [conn[c] EXCEPT !.link = "eof"])

\* cm_readcb completes a stanza and sends it; a read that completes several
\* is several of these steps, one that completes none changes nothing here.
XmppRead(c) ==
    /\ running = None
    /\ conn[c].link = "connected"
    /\ Len(conn[c].sent) < MaxFrames
    /\ Callback(c, wsconn_write_frame(conn[c], "text"))

-----------------------------------------------------------------------------
(***************************************************************************)
(* Specification                                                           *)
(***************************************************************************)

Init ==
    /\ conn = [c \in Conns |-> NoConnection]
    /\ running = None

Next ==
    \E c \in Conns :
        \/ Accept(c)           \/ RequestError(c)
        \/ HandshakeAccept(c)  \/ HandshakeReject(c)
        \/ ReadFrames(c)       \/ Loop(c)
        \/ WriteDrained(c)     \/ ClientReadEnd(c) \/ ClientWriteError(c)
        \/ XmppConnected(c)    \/ XmppError(c)
        \/ XmppEof(c)          \/ XmppRead(c)

(***************************************************************************)
(* A loop that runs takes its next turn: it is straight-line C code.       *)
(* Output that stays pending is written or fails: libevent serves every    *)
(* ready socket again and again (strong, because other callbacks come in   *)
(* between), and a client is assumed to go on reading or to go away.       *)
(* Nothing is assumed of what else it sends, or of the XMPP server.        *)
(***************************************************************************)
Fairness ==
    \A c \in Conns :
        /\ WF_vars(Loop(c))
        /\ SF_vars(WriteDrained(c) \/ ClientWriteError(c))

Spec == Init /\ [][Next]_vars /\ Fairness

-----------------------------------------------------------------------------
(***************************************************************************)
(* Properties                                                              *)
(***************************************************************************)

\* Every connection record, and the loop's owner, has its type.
TypeOK ==
    /\ conn \in [Conns -> Connection]
    /\ running \in Conns \cup {None}

\* No callback uses a wsconn_t, a cmanager_t, a bufferevent or a parser that
\* is freed or NULL, and nothing is freed twice, in whatever order closings
\* from the client, from the XMPP server and from a failed cm_connect meet.
\* (Logging is not modelled: the line wsconn_delete logs after free(conn) is
\* not counted.)
NoFault == \A c \in Conns : ~conn[c].fault

\* A connection to the XMPP server is open only for a client that is connected,
\* accepted, and not being closed: wsconn_close, wsconn_initiate_close and
\* cm_eventcb all release it, so no stanza is sent for a client that left.
LinkOwned ==
    \A c \in Conns :
        conn[c].link # "null" =>
            /\ conn[c].mem = "live"
            /\ conn[c].ws_state = "RECEIVING"
            /\ conn[c].rd /\ conn[c].wr /\ ~conn[c].failed

\* What a client reads: the handshake response, once and first, nothing after
\* a rejection; frames; and after a Close frame no frame but the answers to
\* Pings that were in the same read (wsconn_process_frame, cm_readcb).
WireOrder ==
    \A c \in Conns :
        LET s == conn[c].sent
        IN  /\ \A i \in 1 .. Len(s) :
                  IF i = 1 THEN s[i] \in {"accept", "reject"}
                           ELSE s[1] = "accept" /\ s[i] \notin {"accept", "reject"}
            /\ \A i, j \in 1 .. Len(s) :
                  i < j /\ s[i] = "close" => s[j] = "pong"

\* What the XMPP server reads: the stream header first, then messages of the
\* client in the order it sent them, none of them twice; messages that arrive
\* in ST_CONNECT are dropped (cm_onmessage, cm_eventcb).
ForwardOrder ==
    \A c \in Conns :
        LET x == conn[c].xmpp
        IN  \A i \in 1 .. Len(x) :
                /\ x[i] <= conn[c].msgs
                /\ IF i = 1 THEN x[i] = 1 ELSE x[i - 1] < x[i]

\* wsconn_delete never discards output of a client that is still there and
\* kept to the protocol: the Close frame is on the wire before the socket is
\* closed (wsconn_write_cb, wsconn_onclosed).
FlushedBeforeFree ==
    \A c \in Conns :
        conn[c].mem = "freed" /\ conn[c].pending =>
            ~conn[c].rd \/ ~conn[c].wr \/ conn[c].failed

\* A rejected connection that is still allocated is one whose client has not
\* gone: the second wsconn_close, at its EOF or error, finds fl_cm_closed and
\* frees it.
RejectedFreedAtEof ==
    \A c \in Conns :
        conn[c].mem = "live" /\ conn[c].sent = <<"reject">> =>
            conn[c].rd /\ conn[c].wr

Rank(s) == CASE s \in {"START", "CREATED"} -> 0 [] s = "RECEIVING" -> 1
             [] s = "CLOSING" -> 2 [] s = "CLOSED" -> 3

\* Closing is never undone: neither state of a connection goes back, whoever
\* closes first, and a closed or freed connection is silent in both directions.
NeverReopens ==
    [][\A c \in Conns :
          /\ Rank(conn[c].ws_state) <= Rank(conn'[c].ws_state)
          /\ Rank(conn[c].cm_state) <= Rank(conn'[c].cm_state)
          /\ conn[c].ws_state = "CLOSED" \/ conn[c].mem = "freed" =>
                /\ conn'[c].sent = conn[c].sent
                /\ conn'[c].xmpp = conn[c].xmpp]_vars

\* When the XMPP connection fails and wsconn_onclosed is called, the browser
\* connection is freed in the end.
ServerLossFrees ==
    \A c \in Conns : conn[c].cm_state = "CLOSED" ~> conn[c].mem = "freed"

\* A connection in WS_ST_CLOSING is freed once its Close frame is written,
\* unless the client is the first to go.
ClosingCompletes ==
    \A c \in Conns :
        conn[c].ws_state = "CLOSING" ~>
            conn[c].mem = "freed" \/ ~conn[c].rd \/ ~conn[c].wr

\* The loop of wsconn_process_frame ends and gives the event loop back.
LoopEnds == \A c \in Conns : running = c ~> running = None

-----------------------------------------------------------------------------
(***************************************************************************)
(* The refinement: what a connection is to its browser and to its server   *)
(***************************************************************************)

\* The phase that Relay sees in connection k.
Phase(k) ==
    CASE k.mem = "none"  -> "new"
      [] k.mem = "freed" -> "over"
      [] k.mem = "live" /\ k.ws_state = "START"     -> "waiting"
      [] k.mem = "live" /\ k.ws_state = "RECEIVING" -> "open"
      [] OTHER -> "ending"

R == INSTANCE Relay WITH
        phase <- [c \in Conns |-> Phase(conn[c])],
        out   <- [c \in Conns |-> conn[c].sent],
        fwd   <- [c \in Conns |-> conn[c].xmpp]

\* Callbacks in any order, failures inside callbacks and two-sided closing come
\* to what Relay promises: in particular no path frees an open session before
\* wsconn_close or wsconn_initiate_close has ended it.
KeepsPromise == R!Spec

-----------------------------------------------------------------------------
(***************************************************************************)
(* The inductive invariant: what is true of each connection between two    *)
(* callbacks, in parts, and of the one whose loop is running.              *)
(***************************************************************************)

\* A wsconn_t and its cmanager_t live and die together, and the manager holds
\* its resources exactly until one of the closing functions releases them.
LifeInv(k) ==
    /\ ~k.fault
    /\ k.cm_mem = k.mem
    /\ k.mem = "none" => k = NoConnection
    /\ k.cm_open <=> k.mem = "live" /\ k.cm_state = "CREATED"
    /\ k.mem = "live" =>
        /\ k.cm_state = "CREATED" <=> k.ws_state \in {"START", "RECEIVING"}
        /\ ~k.rd \/ ~k.wr \/ k.failed => k.ws_state = "CLOSED"
    /\ k.mem = "freed" /\ k.pending => ~k.rd \/ ~k.wr \/ k.failed

\* cm->bev exists only for an accepted connection, and agrees with cm->state.
LinkInv(k) ==
    /\ k.link # "null" => k.cm_open /\ k.ws_state = "RECEIVING"
    /\ k.link \in {"idle", "connecting"} => k.state = "CONNECT"
    /\ k.link \in {"connected", "eof"} => k.state = "FORWARD"
    /\ k.cm_open /\ k.state # "START" => k.link # "null"

\* The output agrees with ws_state and with fl_ws_closing.
WireInv(k) ==
    /\ k.ws_state = "START" => k.sent = <<>> /\ k.fl_cm_closed
    /\ k.ws_state \in {"RECEIVING", "CLOSING"} =>
        Len(k.sent) > 0 /\ k.sent[1] = "accept"
    /\ k.ws_state = "CLOSING" => k.fl_ws_closing
    /\ k.ws_state \in {"START", "RECEIVING"} => ~k.fl_ws_closing
    /\ \A i \in 1 .. Len(k.sent) :
        /\ IF i = 1 THEN k.sent[i] \in {"accept", "reject"}
           ELSE k.sent[1] = "accept" /\ k.sent[i] \notin {"accept", "reject"}
        /\ k.sent[i] = "close" => k.fl_ws_closing
        /\ \A j \in 1 .. Len(k.sent) :
              i < j /\ k.sent[i] = "close" => k.sent[j] = "pong"
    /\ k.mem = "live" /\ k.sent = <<"reject">> =>
        k.rd /\ k.wr /\ k.ws_state = "CLOSED" /\ k.fl_cm_closed

\* The messages buffered for the server, and those written to it.
ForwardInv(k) ==
    /\ \A i \in 1 .. Len(k.buffer) : k.buffer[i] = i
    /\ Len(k.buffer) <= k.msgs
    /\ k.cm_open /\ k.state = "START" /\ ~k.error => Len(k.buffer) = k.msgs
    /\ k.cm_open /\ k.state = "CONNECT" => Len(k.buffer) > 0
    /\ IF k.state = "FORWARD" THEN Len(k.xmpp) > 0 ELSE k.xmpp = <<>>
    /\ \A i \in 1 .. Len(k.xmpp) :
        /\ k.xmpp[i] <= k.msgs
        /\ IF i = 1 THEN k.xmpp[i] = 1 ELSE k.xmpp[i - 1] < k.xmpp[i]

\* In the loop a connection is live; if it is closing already, that is because
\* cm_connect failed in an earlier turn, and cm->state is ST_CONNECT by now.
RunInv(k) ==
    /\ k.mem = "live"
    /\ k.ws_state \in {"RECEIVING", "CLOSING"}
    /\ k.ws_state = "CLOSING" => k.state = "CONNECT"

ConnInv(k) == LifeInv(k) /\ LinkInv(k) /\ WireInv(k) /\ ForwardInv(k)

\* Each connection is consistent whatever the order of the callbacks so far,
\* and so is the one in wsconn_process_frame.
Consistent ==
    /\ \A c \in Conns : ConnInv(conn[c])
    /\ running # None => RunInv(conn[running])

-----------------------------------------------------------------------------
(***************************************************************************)
(* What comments of the source say and the code does not do                *)
(***************************************************************************)

\* wsserver.h: wsconn_onclosed "is called from CM when the connection is
\* closed".  Said of a connection that the XMPP server closes: the manager
\* tells the wsconn_t, unless the client closes it first.
EofReported ==
    \A c \in Conns :
        conn[c].link = "eof" ~> conn[c].cm_state # "CREATED"

\* The same comment, said of a connection that the manager closes because
\* wsconn_close asked for it: the wsconn_t waits for the call to be freed.
CloseReported ==
    \A c \in Conns :
        conn[c].ws_state = "CLOSED" /\ conn[c].state = "FORWARD" ~>
            conn[c].cm_state = "CLOSED" \/ conn[c].mem = "freed"

=============================================================================
