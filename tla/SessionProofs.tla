---------------------------- MODULE SessionProofs ----------------------------
(***************************************************************************)
(* Proofs about Session: every step of it is a step of Gateway and a step  *)
(* of WsMessage, or none, so what is proved of each holds of the two       *)
(* together; and they stay in step.                                        *)
(***************************************************************************)
EXTENDS Session, RelayProofs

\* WsMessage with its proofs.  M and P are the same.
P == INSTANCE WsMessageProofs

-----------------------------------------------------------------------------
(***************************************************************************)
(* The steps of the decoder                                                *)
(***************************************************************************)

\* Frames are the same for both.
LEMMA SameFrames ==
  /\ M!Frame = P!Frame /\ M!Control = P!Control /\ M!Starting = P!Starting
  BY DEF M!Frame, P!Frame, M!Control, P!Control, M!Starting, P!Starting

\* So is wsmsg_create.
LEMMA SameInit == M!Init => P!Init
  BY DEF M!Init, P!Init, M!wsmsg_create, P!wsmsg_create

\* So is one read.
LEMMA SameRead == M!Read => P!Read
  BY SameFrames DEF M!Read, P!Read, M!Process, P!Process

\* So is each way through _wsmsg_process.
LEMMA SameProcess ==
  /\ M!ProcessBuilding => P!ProcessBuilding
  /\ M!ProcessRsv => P!ProcessRsv
  /\ M!ProcessControl => P!ProcessControl
  /\ M!ProcessData => P!ProcessData
<1> USE SameFrames DEF M!Ready, P!Ready, M!Current, P!Current, M!Fail, P!Fail,
                       M!Take, P!Take
<1>1. M!ProcessBuilding => P!ProcessBuilding
  BY DEF M!ProcessBuilding, P!ProcessBuilding
<1>2. M!ProcessRsv => P!ProcessRsv
  BY DEF M!ProcessRsv, P!ProcessRsv
<1>3. M!ProcessControl => P!ProcessControl
  BY DEF M!ProcessControl, P!ProcessControl
<1>4. M!ProcessData => P!ProcessData
  BY DEF M!ProcessData, P!ProcessData, M!OutOfPlace, P!OutOfPlace,
         M!AppendFrame, P!AppendFrame
<1> QED
  BY <1>1, <1>2, <1>3, <1>4

\* So is each turn of the loop of wsconn_process_frame.
LEMMA SameLoop ==
  /\ M!LoopFail => P!LoopFail
  /\ M!LoopFrame => P!LoopFrame
  /\ M!LoopMessage => P!LoopMessage
  /\ M!LoopDone => P!LoopDone
<1>1. M!LoopFail => P!LoopFail
  BY DEF M!LoopFail, P!LoopFail
<1>2. M!LoopFrame => P!LoopFrame
  BY DEF M!LoopFrame, P!LoopFrame, M!Process, P!Process, M!wsmsg_get_frame,
         P!wsmsg_get_frame, M!AfterControl, P!AfterControl
<1>3. M!LoopMessage => P!LoopMessage
  BY DEF M!LoopMessage, P!LoopMessage, M!Process, P!Process,
         M!wsmsg_get_message, P!wsmsg_get_message
<1>4. M!LoopDone => P!LoopDone
  BY DEF M!LoopDone, P!LoopDone
<1> QED
  BY <1>1, <1>2, <1>3, <1>4

\* What each step of the two together is to the decoder and to the gateway.
LEMMA SessionSteps ==
  ASSUME SessionNext
  PROVE  \E c \in Conns :
            \/ Read(c)
            \/ Process
            \/ Failed(c) \/ Closing(c) \/ Ping(c) \/ Pong(c)
            \/ Text(c) \/ Binary(c) \/ Other(c) \/ Done(c)
            \/ Handshake(c) \/ Written(c) \/ Others(c)
  BY DEF SessionNext, Code

\* A step of a session is a step of the decoder, or leaves it alone.
LEMMA DecoderStep ==
  ASSUME [SessionNext]_sessionVars
  PROVE  [M!Next]_(M!vars)
<1>1. ASSUME NEW c \in Conns,
             \/ Failed(c) \/ Closing(c) \/ Ping(c) \/ Pong(c)
             \/ Text(c) \/ Binary(c) \/ Other(c) \/ Done(c)
      PROVE  M!Next
  BY <1>1 DEF Failed, Closing, Ping, Pong, Text, Binary, Other, Done, Turns, M!Next
<1>2. ASSUME NEW c \in Conns, Read(c)
      PROVE  M!Next
  BY <1>2 DEF Read, M!Next
<1>3. CASE Process
  BY <1>3 DEF Process, M!Next
<1>4. ASSUME NEW c \in Conns, Handshake(c) \/ Written(c) \/ Others(c)
      PROVE  UNCHANGED M!vars
  BY <1>4 DEF Handshake, Written, Others, Elsewhere, decoder, M!vars
<1>5. CASE UNCHANGED sessionVars
  BY <1>5 DEF sessionVars, decoder, M!vars
<1> QED
  BY <1>1, <1>2, <1>3, <1>4, <1>5, SessionSteps

\* It is one that the proofs about WsMessage are about.
LEMMA ProvedStep ==
  ASSUME [M!Next]_(M!vars)
  PROVE  [P!Next]_(P!vars)
<1>1. M!Next => P!Next
  BY SameRead, SameProcess, SameLoop DEF M!Next, P!Next
<1>2. UNCHANGED M!vars => UNCHANGED P!vars
  BY DEF M!vars, P!vars
<1> QED
  BY <1>1, <1>2

\* A step of a session is a step of the gateway, or leaves it alone.
LEMMA GatewayStep ==
  ASSUME [SessionNext]_sessionVars
  PROVE  [Next]_vars
<1>1. ASSUME NEW c \in Conns,
             \/ Failed(c) \/ Closing(c) \/ Ping(c) \/ Pong(c)
             \/ Text(c) \/ Binary(c) \/ Other(c) \/ Done(c)
      PROVE  Next
  <2>1. Loop(c)
    BY <1>1 DEF Failed, Closing, Ping, Pong, Text, Binary, Other, Done, Turns, Loop
  <2> QED
    BY <2>1 DEF Next
<1>2. ASSUME NEW c \in Conns, Read(c)
      PROVE  Next
  BY <1>2 DEF Read, Next
<1>3. CASE Process
  BY <1>3 DEF Process, vars
<1>4. ASSUME NEW c \in Conns, Handshake(c) \/ Written(c) \/ Others(c)
      PROVE  Next
  BY <1>4 DEF Handshake, Written, Others, Elsewhere, Next
<1>5. CASE UNCHANGED sessionVars
  BY <1>5 DEF sessionVars, vars
<1> QED
  BY <1>1, <1>2, <1>3, <1>4, <1>5, SessionSteps

-----------------------------------------------------------------------------
(***************************************************************************)
(* What holds of each holds of the two together                            *)
(***************************************************************************)

GatewaySound == TypeOK /\ Consistent /\ CloseWritten

DecoderSound == P!TypeOK /\ P!Flow /\ P!Handed /\ P!Stalls /\ P!Sound

\* Both start well.
LEMMA SoundStart == SessionInit => GatewaySound /\ DecoderSound
<1> SUFFICES ASSUME SessionInit PROVE GatewaySound /\ DecoderSound
  OBVIOUS
<1>1. Init /\ P!Init
  BY SameInit DEF SessionInit
<1>2. GatewaySound
  BY <1>1, NoConnectionType, CreateInv
     DEF Init, TypeOK, Consistent, CloseWritten, CloseSent, NoConnection,
         GatewaySound
<1>3. DecoderSound
  BY <1>1, DecoderBounds, P!FlowInit, P!HandedInit, P!StallsInit, P!SoundInit
     DEF DecoderSound
<1> QED
  BY <1>2, <1>3

\* Every step keeps both well.
LEMMA SoundKept ==
  ASSUME GatewaySound, DecoderSound, [SessionNext]_sessionVars
  PROVE  GatewaySound' /\ DecoderSound'
<1>1. [Next]_vars /\ [P!Next]_(P!vars)
  BY GatewayStep, DecoderStep, ProvedStep
<1>2. GatewaySound'
  BY <1>1, TypeStep, ConsistentStep, RelayStep DEF GatewaySound
<1>3. P!TypeOK' /\ P!Flow'
  BY <1>1, DecoderBounds, P!FlowStep DEF DecoderSound
<1>4. P!Handed'
  BY <1>1, DecoderBounds, P!HandedStep DEF DecoderSound
<1>5. P!Stalls'
  BY <1>1, DecoderBounds, P!StallsStep DEF DecoderSound
<1>6. P!Sound'
  BY <1>1, DecoderBounds, P!SoundStep DEF DecoderSound
<1> QED
  BY <1>2, <1>3, <1>4, <1>5, <1>6 DEF DecoderSound

\* So both stay well.
LEMMA AlwaysSound == SessionSpec => [](GatewaySound /\ DecoderSound)
  BY SoundStart, SoundKept, PTL DEF SessionSpec

\* A connection with its decoder keeps what Relay promises.
THEOREM SessionRefinement == SessionSpec => KeepsPromise
<1>1. SessionInit => R!Init
  BY DEF SessionInit, Init, NoConnection, R!Init, Phase
<1>2. GatewaySound /\ [SessionNext]_sessionVars => [R!Next]_(R!vars)
  BY GatewayStep, RelayStep DEF GatewaySound
<1> QED
  BY <1>1, <1>2, AlwaysSound, PTL DEF SessionSpec, KeepsPromise, R!Spec

\* The decoder of a connection is WsMessage: what is proved of it is true here.
THEOREM SessionDecodes == SessionSpec => M!Spec
<1>1. SessionInit => M!Init
  BY DEF SessionInit
<1>2. [SessionNext]_sessionVars => [M!Next]_(M!vars)
  BY DecoderStep
<1> QED
  BY <1>1, <1>2, PTL DEF SessionSpec, M!Spec

-----------------------------------------------------------------------------
(***************************************************************************)
(* The gateway and the decoder in step                                     *)
(***************************************************************************)

\* wsconn_process_frame would go on with connection k.
Alive(k) == k.mem = "live" /\ k.ws_state \in {"RECEIVING", "CLOSING"}

InLoop == pc = "loop" \/ (pc = "process" /\ after = "loop")

\* The wsmsg_t has nothing to hand out and is not looking for it.
Resting == pc = "idle" /\ ~wsmsg.frame /\ ~wsmsg.message /\ ~wsmsg.error

AnsweredPing == sent[controls[Len(controls)]].op = "PING"

\* InStep, of connection c; and before the handshake the decoder rests, and a
\* connection that has just answered a Ping is still alive.
Joint(c) ==
    /\ running = c <=> InLoop
    /\ Alive(conn[c]) => (conn[c].more <=> HasItem)
    /\ running = None /\ pc = "idle" /\ conn[c].more => AnsweredPing
    /\ conn[c].ws_state = "START" => Resting /\ ~conn[c].more
    /\ pc = "process" /\ after = "idle" => Alive(conn[c])

\* What a callback that leaves the decoder alone does to `more'.
KeepsItem(k, r) ==
    /\ r.more => k.more
    /\ r.mem = "live" => k.mem # "freed"
    /\ r.mem = "live" /\ r.ws_state # "CLOSED" => r.more = k.more

\* wsconn_close may free the connection, and forgets its items then.
LEMMA CloseKeepsItem ==
  ASSUME NEW k \in Connection, NEW g \in Connection, g.more = k.more,
         k.mem = "live"
  PROVE  KeepsItem(k, wsconn_close(g))
<1> DEFINE r == wsconn_close(g)
<1>1. r.ws_state = "CLOSED" /\ (r.more => g.more)
  BY DEF Connection, WsState, wsconn_close, wsconn_delete, CloseManager,
         cm_close, cm_delete, Deref
<1> HIDE DEF r
<1> QED
  BY <1>1 DEF KeepsItem, r

\* Written output may free it as well.
LEMMA DrainedKeepsItem ==
  ASSUME NEW k \in Connection, k.mem = "live"
  PROVE  KeepsItem(k, wsconn_write_cb([k EXCEPT !.pending = FALSE]))
<1> DEFINE g == [k EXCEPT !.pending = FALSE]
           r == wsconn_write_cb(g)
<1>1. g \in Connection /\ g.more = k.more /\ g.mem = k.mem
  BY DEF Connection
<1> HIDE DEF g
<1>2. r.more = g.more \/ (r.mem = "freed" /\ ~r.more)
  BY <1>1 DEF Connection, wsconn_write_cb, wsconn_delete, cm_close, cm_delete,
              Deref
<1> HIDE DEF r
<1> QED
  BY <1>1, <1>2 DEF KeepsItem, r, g

\* The callbacks between two reads.
Between(c) ==
    \/ Accept(c) \/ RequestError(c) \/ HandshakeAccept(c) \/ HandshakeReject(c)
    \/ WriteDrained(c) \/ ClientReadEnd(c) \/ ClientWriteError(c)
    \/ XmppConnected(c) \/ XmppError(c) \/ XmppEof(c) \/ XmppRead(c)

\* None of those callbacks touches what the loop looks at.
LEMMA BetweenKeepsItem ==
  ASSUME TypeOK, Consistent, NEW c \in Conns, Between(c)
  PROVE  running' = running /\ KeepsItem(conn[c], conn'[c])
<1> DEFINE k == conn[c]
<1>0. k \in Connection /\ ConnInv(k)
  BY DEF TypeOK, Consistent
<1>1. ASSUME NEW r, Callback(c, r), KeepsItem(k, r)
      PROVE  running' = running /\ KeepsItem(conn[c], conn'[c])
  BY <1>1 DEF Callback, Set, TypeOK
<1>2. ASSUME NEW r, r.more = k.more, k.mem # "freed"
      PROVE  KeepsItem(k, r)
  BY <1>2 DEF KeepsItem
<1>3. k.link # "null" => k.mem = "live" /\ k.ws_state = "RECEIVING"
  BY <1>0 DEF ConnInv, LifeInv, LinkInv
<1>4. CASE Accept(c)
  <2> DEFINE r == wsconn_create(k)
  <2>1. Callback(c, r) /\ k.mem = "none"
    BY <1>4 DEF Accept
  <2>2. r.more = k.more
    BY <1>0 DEF wsconn_create, cm_create, Connection
  <2> HIDE DEF r
  <2> QED
    BY <1>1, <1>2, <2>1, <2>2
<1>5. CASE RequestError(c)
  BY <1>0, <1>1, <1>5, CloseKeepsItem DEF RequestError, Idle
<1>6. CASE HandshakeAccept(c)
  <2> DEFINE s == Append(k.sent, "accept")
             w == [k EXCEPT !.sent = s, !.pending = TRUE]
             r == [w EXCEPT !.ws_state = "RECEIVING", !.fl_cm_closed = FALSE]
  <2>1. k.mem = "live"
    BY <1>6 DEF HandshakeAccept, Idle
  <2>2. wsconn_write_frame(k, "accept") = w
    BY <1>0, <2>1, WriteShape DEF Output
  <2>3. Callback(c, r)
    BY <1>6, <2>2 DEF HandshakeAccept
  <2> HIDE DEF s
  <2>4. r.more = k.more
    BY <1>0 DEF Connection
  <2> HIDE DEF r
  <2> QED
    BY <1>1, <1>2, <2>1, <2>3, <2>4
<1>7. CASE HandshakeReject(c)
  <2> DEFINE s == Append(k.sent, "reject")
             w == wsconn_write_frame(k, "reject")
  <2>1. k.mem = "live" /\ Callback(c, wsconn_close(w))
    BY <1>7 DEF HandshakeReject, Idle
  <2>2. w = [k EXCEPT !.sent = s, !.pending = TRUE]
    BY <1>0, <2>1, WriteShape DEF Output
  <2>3. w \in Connection
    BY <1>0, WriteType DEF Output
  <2> HIDE DEF s, w
  <2>4. w.more = k.more
    BY <1>0, <2>2 DEF Connection
  <2> QED
    BY <1>0, <1>1, <2>1, <2>3, <2>4, CloseKeepsItem
<1>8. CASE WriteDrained(c)
  BY <1>0, <1>1, <1>8, DrainedKeepsItem DEF WriteDrained, Idle
<1>9. CASE ClientReadEnd(c) \/ ClientWriteError(c)
  <2> DEFINE f == [k EXCEPT !.rd = FALSE]
             g == [k EXCEPT !.wr = FALSE]
  <2>1. k.mem = "live"
        /\ (Callback(c, wsconn_close(f)) \/ Callback(c, wsconn_close(g)))
    BY <1>9 DEF ClientReadEnd, ClientWriteError, Idle
  <2>2. f \in Connection /\ g \in Connection
    BY <1>0, FlagTypes
  <2>3. f.more = k.more /\ g.more = k.more
    BY <1>0 DEF Connection
  <2> HIDE DEF f, g
  <2> QED
    BY <1>0, <1>1, <2>1, <2>2, <2>3, CloseKeepsItem
<1>10. CASE XmppConnected(c)
  <2> DEFINE r == cm_eventcb_connected(k)
  <2>1. Callback(c, r) /\ k.mem = "live"
    BY <1>3, <1>10 DEF XmppConnected
  <2>2. r.more = k.more
    BY <1>0 DEF cm_eventcb_connected, Deref, Connection
  <2> HIDE DEF r
  <2> QED
    BY <1>1, <1>2, <2>1, <2>2
<1>11. CASE XmppError(c)
  <2> DEFINE r == cm_eventcb_error(k)
             s == Append(k.sent, "close")
  <2>1. Callback(c, r) /\ k.mem = "live" /\ k.ws_state = "RECEIVING"
    BY <1>3, <1>11 DEF XmppError
  <2>2. r = [k EXCEPT !.sent = s, !.pending = TRUE,
                      !.ws_state = "CLOSING", !.fl_ws_closing = TRUE,
                      !.cm_state = "CLOSED", !.fl_cm_closed = TRUE,
                      !.cm_open = FALSE, !.link = "null", !.buffer = <<>>]
    BY <1>0, <2>1, ReceivingFacts, XmppErrorShape
  <2> HIDE DEF r, s
  <2>3. r.more = k.more
    BY <1>0, <2>2 DEF Connection
  <2> QED
    BY <1>1, <1>2, <2>1, <2>3
<1>12. CASE XmppEof(c)
  <2> DEFINE r == [k EXCEPT !.link = "eof"]
  <2>1. Callback(c, r) /\ k.mem = "live"
    BY <1>3, <1>12 DEF XmppEof
  <2>2. r.more = k.more
    BY <1>0 DEF Connection
  <2> HIDE DEF r
  <2> QED
    BY <1>1, <1>2, <2>1, <2>2
<1>13. CASE XmppRead(c)
  <2> DEFINE s == Append(k.sent, "text")
             r == wsconn_write_frame(k, "text")
  <2>1. Callback(c, r) /\ k.mem = "live"
    BY <1>3, <1>13 DEF XmppRead
  <2>2. r = [k EXCEPT !.sent = s, !.pending = TRUE]
    BY <1>0, <2>1, WriteShape DEF Output
  <2> HIDE DEF r, s
  <2>3. r.more = k.more
    BY <1>0, <2>2 DEF Connection
  <2> QED
    BY <1>1, <1>2, <2>1, <2>3
<1> QED
  BY <1>4, <1>5, <1>6, <1>7, <1>8, <1>9, <1>10, <1>11, <1>12, <1>13 DEF Between

\* _wsmsg_process finds an item exactly when HasItem said that it would.
LEMMA ItemForeseen ==
  ASSUME P!TypeOK, P!Flow,
         P!ProcessBuilding \/ P!ProcessRsv \/ P!ProcessControl \/ P!ProcessData
  PROVE  HasItem' <=> HasItem
<1> DEFINE Tells(i, t, started) ==
              \/ sent[i].op \in P!Control \cup {"RSV"}
              \/ sent[i].fin
              \/ (sent[i].op = "CONT") <=> (i = t + 1 /\ ~started)
<1>0. /\ wsmsg \in P!WsMsg /\ taken \in 0 .. Len(sent) /\ Len(sent) \in Nat
      /\ ~wsmsg.frame /\ ~wsmsg.error /\ pc = "process" /\ sent' = sent
      /\ after \in {"idle", "loop", "closed"}
  BY DEF P!TypeOK, P!Flow, P!ProcessBuilding, P!ProcessRsv, P!ProcessControl,
         P!ProcessData, P!Ready, P!Take
<1>1. HasItem <=> \/ wsmsg.message
                  \/ \E i \in taken + 1 .. Len(sent) :
                        Tells(i, taken, wsmsg.message_started)
  BY <1>0, SameFrames DEF HasItem
<1>2. taken < Len(sent) => taken + 1 \in taken + 1 .. Len(sent)
  BY <1>0
<1>3. CASE P!ProcessBuilding
  <2>1. /\ taken = Len(sent) /\ pc' # "process"
        /\ UNCHANGED <<taken, wsmsg>>
    BY <1>0, <1>3 DEF P!ProcessBuilding
  <2>2. ~ \E i \in taken + 1 .. Len(sent) : TRUE
    BY <1>0, <2>1
  <2> QED
    BY <1>0, <1>1, <2>1, <2>2 DEF HasItem
<1>4. CASE P!ProcessRsv
  <2>1. taken < Len(sent) /\ sent[taken + 1].op = "RSV" /\ wsmsg'.error
    BY <1>0, <1>4, DecoderBounds, P!FailShape
       DEF P!ProcessRsv, P!Ready, P!Current, P!Fail
  <2>2. Tells(taken + 1, taken, wsmsg.message_started)
    BY <2>1
  <2> QED
    BY <1>1, <1>2, <2>1, <2>2 DEF HasItem
<1>5. CASE P!ProcessControl
  <2>1. taken < Len(sent) /\ sent[taken + 1].op \in P!Control
    BY <1>5 DEF P!ProcessControl, P!Ready, P!Current
  <2>2. wsmsg'.error \/ wsmsg'.frame
    <3>1. taken + 1 \in Nat
      BY <1>0
    <3>2. CASE P!Fail
      BY <1>0, <3>2, DecoderBounds, P!FailShape DEF P!Fail
    <3>3. CASE wsmsg' = [wsmsg EXCEPT !.frame = TRUE, !.frame_data = taken + 1]
      BY <1>0, <3>1, <3>3, DecoderBounds, P!ControlShape
    <3> QED
      BY <1>5, <3>2, <3>3 DEF P!ProcessControl
  <2>3. Tells(taken + 1, taken, wsmsg.message_started)
    BY <2>1
  <2> QED
    BY <1>1, <1>2, <2>1, <2>2, <2>3 DEF HasItem
<1>6. CASE P!ProcessData
  <2>1. taken < Len(sent) /\ taken' = taken + 1 /\ P!Current = sent[taken + 1]
        /\ sent[taken + 1].op \in P!Starting \cup {"CONT"}
    BY <1>6 DEF P!ProcessData, P!Ready, P!Current, P!Take
  <2>2. wsmsg.message_started \in BOOLEAN /\ wsmsg.message \in BOOLEAN
    BY <1>0 DEF P!WsMsg
  <2>3. CASE P!OutOfPlace
    <3>1. wsmsg'.error
      BY <1>0, <1>6, <2>3, DecoderBounds, P!FailShape DEF P!ProcessData, P!Fail
    <3>2. (sent[taken + 1].op = "CONT") <=> ~wsmsg.message_started
      BY <2>1, <2>2, <2>3 DEF P!OutOfPlace
    <3>3. Tells(taken + 1, taken, wsmsg.message_started)
      BY <3>2
    <3> QED
      BY <1>1, <1>2, <2>1, <3>1, <3>3 DEF HasItem
  <2>4. CASE ~P!OutOfPlace
    <3>1. pc' = pc /\ wsmsg' = P!AppendFrame(wsmsg)
      BY <1>6, <2>4 DEF P!ProcessData
    <3>2. /\ ~wsmsg'.error /\ ~wsmsg'.frame /\ wsmsg'.message_started
          /\ wsmsg'.message = (wsmsg.message \/ sent[taken + 1].fin)
      BY <1>0, <2>1, <2>4, <3>1, DecoderBounds, P!AppendShape
    <3>3. (sent[taken + 1].op = "CONT") <=> wsmsg.message_started
      BY <2>1, <2>2, <2>4 DEF P!OutOfPlace
    <3>4. Tells(taken + 1, taken, wsmsg.message_started) <=> sent[taken + 1].fin
      BY <2>1, <3>3 DEF P!Starting, P!Control
    <3>5. \A i \in taken + 2 .. Len(sent) :
             Tells(i, taken, wsmsg.message_started) <=> Tells(i, taken + 1, TRUE)
      BY <1>0
    <3>6. HasItem' <=> \/ wsmsg'.message
                       \/ \E i \in taken + 2 .. Len(sent) : Tells(i, taken + 1, TRUE)
      <4>1. (taken + 1) + 1 = taken + 2
        BY <1>0
      <4> QED
        BY <1>0, <2>1, <3>1, <3>2, <4>1, SameFrames DEF HasItem
    <3>7. \A i : i \in taken + 1 .. Len(sent) <=>
                    i = taken + 1 \/ i \in taken + 2 .. Len(sent)
      BY <1>0, <2>1
    <3> HIDE DEF Tells
    <3> QED
      BY <1>1, <3>2, <3>4, <3>5, <3>6, <3>7
  <2> QED
    BY <2>3, <2>4
<1> QED
  BY <1>3, <1>4, <1>5, <1>6

\* Where _wsmsg_process goes when it is called.
LEMMA ProcessGoes ==
  ASSUME NEW w, NEW to, M!Process(w, to)
  PROVE  after' = to /\ pc' \in {to, "process"}
  BY DEF M!Process

\* A turn of the loop leaves it or not, and the decoder knows.
LEMMA TurnFacts ==
  ASSUME NEW c \in Conns,
         \/ Failed(c) \/ Closing(c) \/ Ping(c) \/ Pong(c)
         \/ Text(c) \/ Binary(c) \/ Other(c) \/ Done(c)
  PROVE  /\ running = c /\ Agree(c)
         /\ running' = c <=> InLoop'
         /\ pc' = "process" /\ after' = "idle" => Ping(c)
<1>0. None # c
  BY NoneAssumption
<1>1. CASE Failed(c)
  BY <1>0, <1>1 DEF Failed, Turns, LoopFail, Turn, Break, M!LoopFail, InLoop
<1>2. ASSUME NEW op, M!LoopFrame, Gives(op)
      PROVE  after' = M!AfterControl(op) /\ pc' \in {M!AfterControl(op), "process"}
  BY <1>2, ProcessGoes DEF M!LoopFrame, Gives
<1>3. CASE Closing(c)
  <2>1. after' = "closed" /\ pc' \in {"closed", "process"}
    BY <1>2, <1>3 DEF Closing, Turns, M!AfterControl
  <2> QED
    BY <1>0, <1>3, <2>1 DEF Closing, Turns, LoopClose, Turn, Break, InLoop
<1>4. CASE Ping(c)
  <2>1. after' = "idle" /\ pc' \in {"idle", "process"}
    BY <1>2, <1>4 DEF Ping, Turns, M!AfterControl
  <2> QED
    BY <1>0, <1>4, <2>1 DEF Ping, Turns, LoopPing, Turn, Break, InLoop
<1>5. CASE Pong(c)
  <2>1. after' = "loop" /\ pc' \in {"loop", "process"}
    BY <1>2, <1>5 DEF Pong, Turns, M!AfterControl
  <2> QED
    BY <1>5, <2>1 DEF Pong, Turns, LoopIgnore, Turn, Continue, InLoop
<1>6. ASSUME NEW op, M!LoopMessage, wsmsg.message_opcode = op
      PROVE  LET to == IF op = "BINARY" THEN "closed" ELSE "loop"
             IN  after' = to /\ pc' \in {to, "process"}
  BY <1>6, ProcessGoes DEF M!LoopMessage
<1>7. CASE Text(c)
  <2>1. after' = "loop" /\ pc' \in {"loop", "process"}
    BY <1>6, <1>7 DEF Text, Turns
  <2> QED
    BY <1>7, <2>1 DEF Text, Turns, LoopText, Turn, Continue, InLoop
<1>8. CASE Binary(c)
  <2>1. after' = "closed" /\ pc' \in {"closed", "process"}
    BY <1>6, <1>8 DEF Binary, Turns
  <2> QED
    BY <1>0, <1>8, <2>1 DEF Binary, Turns, LoopFail, Turn, Break, InLoop
<1>9. CASE Other(c)
  <2>1. after' = "loop" /\ pc' \in {"loop", "process"}
    BY <1>6, <1>9 DEF Other, Turns
  <2> QED
    BY <1>9, <2>1 DEF Other, Turns, LoopIgnore, Turn, Continue, InLoop
<1>10. CASE Done(c)
  BY <1>0, <1>10 DEF Done, Turns, LoopDone, Break, M!LoopDone, InLoop
<1> QED
  BY <1>1, <1>3, <1>4, <1>5, <1>7, <1>8, <1>9, <1>10

\* The answer to a Ping closes nothing.
LEMMA PingAlive ==
  ASSUME TypeOK, Consistent, NEW c \in Conns, LoopPing(c)
  PROVE  Alive(conn'[c])
<1> DEFINE k == conn[c]
<1>1. running = c
  BY DEF LoopPing, Turn
<1>2. k \in Connection /\ RunInv(k)
  BY <1>1, NoneAssumption DEF TypeOK, Consistent
<1>3. PICK t \in Taken(k) : Set(c, wsconn_write_frame(t, "pong"))
  BY DEF LoopPing
<1>4. PICK a \in Nat, m \in BOOLEAN : t = [k EXCEPT !.rcvd = a, !.more = m]
  BY <1>2, TakenShape
<1>5. t \in Connection
  BY <1>2, TakenType
<1>6. t.mem = k.mem /\ t.ws_state = k.ws_state
  BY <1>2, <1>4 DEF Connection
<1> DEFINE s == Append(t.sent, "pong")
           r == wsconn_write_frame(t, "pong")
<1>7. r = [t EXCEPT !.sent = s, !.pending = TRUE]
  BY <1>2, <1>5, <1>6, WriteShape DEF Output, RunInv
<1> HIDE DEF r, s
<1>8. r.mem = t.mem /\ r.ws_state = t.ws_state
  BY <1>5, <1>7 DEF Connection
<1>9. conn'[c] = r
  BY <1>3 DEF Set, TypeOK, r
<1> QED
  BY <1>2, <1>6, <1>8, <1>9 DEF Alive, RunInv

\* When a connection that has its items agree is idle, a Ping has been answered.
LEMMA AgreeJoint ==
  ASSUME TypeOK', P!Stalls', NEW c \in Conns, Agree(c),
         conn'[c].ws_state # "START", running' = c <=> InLoop',
         pc' = "process" /\ after' = "idle" => Alive(conn'[c])
  PROVE  Joint(c)'
<1> DEFINE r == conn'[c]
<1>1. r \in Connection
  BY DEF TypeOK
<1>2. r.more \in BOOLEAN /\ r.ws_state \in WsState
  BY <1>1 DEF Connection
<1>3. Alive(r) => (r.more <=> HasItem')
  BY <1>2 DEF Agree, Alive
<1>4. r.more => HasItem'
  BY <1>2 DEF Agree
<1>5. ASSUME pc' = "idle", r.more
      PROVE  AnsweredPing'
  <2>1. wsmsg'.frame \/ wsmsg'.message \/ wsmsg'.error
    BY <1>4, <1>5 DEF HasItem
  <2> QED
    BY <1>5, <2>1 DEF P!Stalls, P!StallsOnlyAfterPing, AnsweredPing
<1> QED
  BY <1>3, <1>5 DEF Joint

\* Every step keeps the two in step.
LEMMA JointStep ==
  ASSUME GatewaySound, DecoderSound, GatewaySound', DecoderSound',
         NEW c \in Conns, Joint(c), [SessionNext]_sessionVars
  PROVE  Joint(c)'
<1> DEFINE k == conn[c]
           r == conn'[c]
<1>0. k \in Connection /\ r \in Connection /\ ConnInv(k)
  BY DEF GatewaySound, TypeOK, Consistent
<1>1. Onward(k, r)
  BY GatewayStep, OnwardStep DEF GatewaySound
<1>2. r.ws_state = "START" => k.ws_state = "START"
  BY <1>0, <1>1 DEF Onward, Rank, Connection, WsState
<1>3. r.ws_state \in {"RECEIVING", "CLOSING"} =>
         k.ws_state \in {"START", "RECEIVING", "CLOSING"}
  BY SMTT(30), <1>0, <1>1 DEF Onward, Rank, Connection, WsState
<1>4. ASSUME Read(c)
      PROVE  Joint(c)'
  <2>1. /\ k.ws_state = "RECEIVING" /\ running' = c /\ Agree(c)
    BY <1>4 DEF Read, ReadFrames
  <2>2. after' = "loop" /\ pc' \in {"loop", "process"}
    BY <1>4, ProcessGoes DEF Read, M!Read
  <2>3. InLoop'
    BY <2>2 DEF InLoop
  <2> QED
    BY <1>2, <2>1, <2>2, <2>3, AgreeJoint DEF GatewaySound, DecoderSound
<1>5. ASSUME \/ Failed(c) \/ Closing(c) \/ Ping(c) \/ Pong(c)
             \/ Text(c) \/ Binary(c) \/ Other(c) \/ Done(c)
      PROVE  Joint(c)'
  <2>1. /\ running = c /\ Agree(c)
        /\ running' = c <=> InLoop'
        /\ pc' = "process" /\ after' = "idle" => Ping(c)
    BY <1>5, TurnFacts
  <2>2. k.ws_state # "START"
    BY <2>1, NoneAssumption DEF GatewaySound, Consistent, RunInv
  <2>3. Ping(c) => Alive(r)
    BY PingAlive DEF Ping, Turns, GatewaySound
  <2> QED
    BY <1>2, <2>1, <2>2, <2>3, AgreeJoint DEF GatewaySound, DecoderSound
<1>6. ASSUME Process
      PROVE  Joint(c)'
  <2>1. /\ P!ProcessBuilding \/ P!ProcessRsv \/ P!ProcessControl \/ P!ProcessData
        /\ conn' = conn /\ running' = running
    BY <1>6, SameProcess DEF Process
  <2>2. HasItem' <=> HasItem
    BY <2>1, ItemForeseen DEF DecoderSound
  <2>3. pc = "process" /\ after' = after /\ pc' \in {after, "process"}
    BY <2>1 DEF P!ProcessBuilding, P!ProcessRsv, P!ProcessControl,
                P!ProcessData, P!Ready, P!Take, P!Fail
  <2>4. after \in {"idle", "loop", "closed"}
    BY DEF DecoderSound, P!TypeOK
  <2>5. running' = c <=> InLoop'
    BY <2>1, <2>3, <2>4 DEF Joint, InLoop
  <2>6. Alive(r) => (r.more <=> HasItem')
    BY <2>1, <2>2 DEF Joint
  <2>7. r.ws_state # "START"
    BY <2>1, <2>3 DEF Joint, Resting
  <2>8. pc' = "process" /\ after' = "idle" => Alive(r)
    BY <2>1, <2>3 DEF Joint
  <2>9. ASSUME pc' = "idle", r.more
        PROVE  AnsweredPing'
    <3>1. Alive(r)
      BY <2>1, <2>3, <2>9 DEF Joint
    <3>2. wsmsg'.frame \/ wsmsg'.message \/ wsmsg'.error
      BY <2>6, <2>9, <3>1 DEF HasItem
    <3> QED
      BY <2>9, <3>2 DEF DecoderSound, P!Stalls, P!StallsOnlyAfterPing, AnsweredPing
  <2> QED
    BY <2>5, <2>6, <2>7, <2>8, <2>9 DEF Joint
<1>7. ASSUME Handshake(c) \/ Written(c) \/ Others(c)
      PROVE  Joint(c)'
  <2>1. Between(c) /\ UNCHANGED decoder /\ pc # "process"
    BY <1>7 DEF Handshake, Written, Others, Elsewhere, Between
  <2>2. running' = running /\ KeepsItem(k, r)
    BY <2>1, BetweenKeepsItem DEF GatewaySound
  <2>3. (HasItem' <=> HasItem) /\ (InLoop' <=> InLoop) /\ (Resting' <=> Resting)
        /\ (AnsweredPing' <=> AnsweredPing) /\ pc' = pc
    BY <2>1 DEF decoder, HasItem, InLoop, Resting, AnsweredPing
  <2>4. ASSUME Alive(r)
        PROVE  r.more <=> HasItem'
    <3>1. r.more = k.more /\ k.mem # "freed"
          /\ k.ws_state \in {"START", "RECEIVING", "CLOSING"}
      BY <1>3, <2>2, <2>4 DEF Alive, KeepsItem
    <3>2. CASE k.ws_state = "START"
      BY <2>1, <2>3, <3>1, <3>2 DEF Joint, Resting, HasItem
    <3>3. CASE k.ws_state # "START"
      <4>1. k.mem # "none"
        BY <1>0, <3>3 DEF ConnInv, LifeInv, NoConnection
      <4>2. Alive(k)
        BY <1>0, <3>1, <3>3, <4>1 DEF Alive, Connection, Memory
      <4> QED
        BY <2>3, <3>1, <4>2 DEF Joint
    <3> QED
      BY <3>2, <3>3
  <2>5. r.more => k.more
    BY <2>2 DEF KeepsItem
  <2> QED
    BY <1>2, <2>1, <2>2, <2>3, <2>4, <2>5 DEF Joint
<1>8. CASE UNCHANGED sessionVars
  BY <1>8 DEF sessionVars, decoder, Joint, HasItem, InLoop, Resting, AnsweredPing
<1>9. \A d \in Conns : d = c
  BY OneConnection
<1> QED
  BY <1>4, <1>5, <1>6, <1>7, <1>8, <1>9, SessionSteps

\* The event loop and the decoder stay in step: each callback runs to its end
\* before another one comes, and `more' is what the wsmsg_t holds.
THEOREM StayInStep == SessionSpec => []InStep
<1>1. ASSUME SessionInit, NEW c \in Conns
      PROVE  Joint(c)
  <2>1. conn[c] = NoConnection /\ running # c
    BY <1>1, NoneAssumption DEF SessionInit, Init
  <2>2. ~conn[c].more /\ ~Alive(conn[c])
    BY <2>1 DEF NoConnection, Alive
  <2>3. pc = "idle" /\ Resting
    BY <1>1 DEF SessionInit, M!Init, M!wsmsg_create, Resting
  <2> QED
    BY <2>1, <2>2, <2>3 DEF Joint, InLoop
<1>2. SessionInit => \A c \in Conns : Joint(c)
  BY <1>1
<1>3. GatewaySound /\ DecoderSound /\ (GatewaySound /\ DecoderSound)'
        /\ (\A c \in Conns : Joint(c)) /\ [SessionNext]_sessionVars
        => (\A c \in Conns : Joint(c))'
  BY JointStep
<1>4. (\A c \in Conns : Joint(c)) => InStep
  BY DEF Joint, InStep, InLoop, Alive, AnsweredPing
<1> QED
  BY <1>2, <1>3, <1>4, AlwaysSound, PTL DEF SessionSpec

-----------------------------------------------------------------------------
(***************************************************************************)
(* What a Close frame overtakes                                            *)
(***************************************************************************)

\* Frame i ends a message.
Ends(i) == P!Data(sent, i) /\ sent[i].fin

\* Every message that ends in the first n frames has been handed out.
AllGiven(n) == \A i \in 1 .. n : Ends(i) => Given(i)

\* Of the messages before control frame c, all have been handed out but the one
\* right before it, unless a read has begun between the two.
Overtook(c) ==
    \A i \in 1 .. c - 1 : Ends(i) => (Given(i) <=> i # c - 1 \/ i \in cuts)

\* Where the messages delivered so far end.
End == P!Before(delivered, Len(delivered) + 1)

\* No message is handed out before its turn.
Turned ==
    ~merged /\ ~wsmsg.error =>
        /\ AllGiven(End)
        /\ \A m \in 1 .. Len(delivered) : P!LastOf(delivered[m].parts) \in 0 .. End

\* A message that is complete stops _wsmsg_process when it is called, so one
\* that is complete while it runs was completed by the last frame it took.
Fresh ==
    pc = "process" /\ wsmsg.message /\ ~merged =>
        P!LastOf(wsmsg.message_buffer) = taken /\ taken \notin cuts

\* _wsmsg_process goes on behind a message that it completes, as long as there
\* are frames: otherwise a read begins before the next is taken.
GoesOn ==
    (/\ ~merged /\ ~wsmsg.error
     /\ taken > 0 /\ Ends(taken) /\ taken \notin cuts)
    => (pc = "process" /\ wsmsg.message) \/ taken = Len(sent)

\* A control frame that waits is the last one taken.
Waits == ~merged /\ wsmsg.frame => wsmsg.frame_data = taken /\ Overtook(taken)

\* Nothing is handed out behind a Close.
Closed ==
    \A n \in 1 .. Len(controls) :
        sent[controls[n]].op = "CLOSE" =>
            /\ pc \in {"process", "closed"} /\ after = "closed"
            /\ ~merged => Overtook(controls[n])

CutInv == cuts \subseteq 0 .. taken /\ Turned /\ Fresh /\ GoesOn /\ Waits /\ Closed

\* While frames are taken, only the last message can be waiting.
LEMMA ProcessGiven ==
  ASSUME DecoderSound, CutInv, pc = "process", ~merged, NEW i \in 1 .. taken, Ends(i)
  PROVE  Given(i) <=> ~(wsmsg.message /\ i = taken)
<1>1. ~wsmsg.error /\ taken \in Nat /\ wsmsg \in P!WsMsg
  BY DEF DecoderSound, P!Flow, P!TypeOK
<1>2. P!Assembled(sent, taken, wsmsg, End)
  BY <1>1 DEF DecoderSound, P!Sound, End
<1>3. /\ End \in 0 .. taken /\ AllGiven(End)
      /\ \A m \in 1 .. Len(delivered) : P!LastOf(delivered[m].parts) \in 0 .. End
  BY <1>1, <1>2 DEF P!Assembled, CutInv, Turned
<1>4. wsmsg.message => P!LastOf(wsmsg.message_buffer) = taken
  BY DEF CutInv, Fresh
<1>5. wsmsg.message => End < taken
  <2> SUFFICES ASSUME wsmsg.message PROVE End < taken
    OBVIOUS
  <2>1. wsmsg.message_buffer \in Seq(Nat) /\ Len(wsmsg.message_buffer) > 0
    BY <1>1, <1>2 DEF P!Assembled, P!WsMsg
  <2>2. Len(wsmsg.message_buffer) \in 1 .. Len(wsmsg.message_buffer)
    BY <2>1
  <2>3. P!LastOf(wsmsg.message_buffer) \in End + 1 .. taken
    BY <1>2, <2>2 DEF P!Assembled, P!Collects, P!LastOf
  <2> QED
    BY <1>1, <1>3, <2>3
<1>6. CASE i <= End
  <2>1. i \in 1 .. End
    BY <1>1, <1>3, <1>6
  <2>2. Given(i)
    BY <1>3, <2>1 DEF AllGiven
  <2> QED
    BY <1>1, <1>3, <1>5, <1>6, <2>2
<1>7. CASE i > End
  <2>1. i \in End + 1 .. taken
    BY <1>1, <1>3, <1>7
  <2>2. wsmsg.message /\ i = P!LastOf(wsmsg.message_buffer)
    BY <1>2, <2>1 DEF P!Assembled, Ends
  <2>3. ~Given(i)
    <3> SUFFICES ASSUME NEW m \in 1 .. Len(delivered), P!LastOf(delivered[m].parts) = i
                 PROVE  FALSE
      BY DEF Given, P!LastOf
    <3> QED
      BY <1>1, <1>3, <1>7
  <2> QED
    BY <1>4, <2>2, <2>3
<1> QED
  BY <1>1, <1>3, <1>6, <1>7

\* A control frame is taken: what it finds waiting is what it overtakes.
LEMMA ControlOvertakes ==
  ASSUME DecoderSound, CutInv, pc = "process", ~merged, taken < Len(sent)
  PROVE  Overtook(taken + 1)
<1>1. ~wsmsg.error /\ taken \in Nat /\ Len(sent) \in Nat
  BY DEF DecoderSound, P!Flow, P!TypeOK
<1> SUFFICES ASSUME NEW i \in 1 .. taken, Ends(i)
             PROVE  Given(i) <=> i # taken \/ i \in cuts
  <2>1. (taken + 1) - 1 = taken
    BY <1>1
  <2> QED
    BY <2>1 DEF Overtook
<1>2. Given(i) <=> ~(wsmsg.message /\ i = taken)
  BY ProcessGiven
<1>3. CASE i # taken
  BY <1>2, <1>3
<1>4. CASE i = taken
  <2>1. wsmsg.message => taken \notin cuts
    BY DEF CutInv, Fresh
  <2>2. ~wsmsg.message => taken \in cuts
    BY <1>1, <1>4 DEF CutInv, GoesOn
  <2> QED
    BY <1>2, <1>4, <2>1, <2>2
<1> QED
  BY <1>3, <1>4

\* A step that leaves the stream, the cuts and what is handed out alone.
LEMMA Unmoved ==
  ASSUME sent' = sent, delivered' = delivered, cuts' = cuts
  PROVE  /\ \A i : Given(i)' <=> Given(i)
         /\ \A i : Ends(i)' <=> Ends(i)
         /\ \A n : AllGiven(n)' <=> AllGiven(n)
         /\ \A c : Overtook(c)' <=> Overtook(c)
         /\ End' = End
<1>1. \A i : (Given(i)' <=> Given(i)) /\ (Ends(i)' <=> Ends(i))
  BY DEF Given, Ends
<1>2. \A n : AllGiven(n)' <=> AllGiven(n)
  BY <1>1 DEF AllGiven
<1>3. \A c : Overtook(c)' <=> Overtook(c)
  BY <1>1 DEF Overtook
<1> QED
  BY <1>1, <1>2, <1>3 DEF End

\* The loop hands out a message: the last of those in its turn.
LEMMA MessageTurns ==
  ASSUME DecoderSound, CutInv, DecoderSound', P!LoopMessage
  PROVE  Turned'
<1> DEFINE d == [op |-> wsmsg.message_opcode, parts |-> wsmsg.message_buffer]
<1>0. wsmsg \in P!WsMsg /\ taken \in Nat /\ delivered \in Seq(P!Message)
  BY DEF DecoderSound, P!TypeOK
<1>1. /\ sent' = sent /\ taken' = taken /\ merged' = merged /\ ~wsmsg.error
      /\ wsmsg.message /\ delivered' = Append(delivered, d)
  BY DEF P!LoopMessage
<1>2. d \in P!Message /\ d.parts = wsmsg.message_buffer
  BY <1>0 DEF P!WsMsg, P!Message
<1> HIDE DEF d
<1>3. /\ Len(delivered) \in Nat /\ Len(delivered') = Len(delivered) + 1
      /\ delivered'[Len(delivered) + 1] = d
      /\ \A m \in 1 .. Len(delivered) : delivered'[m] = delivered[m]
  BY <1>0, <1>1, <1>2
<1>4. \A i : Given(i) => Given(i)'
  BY <1>3 DEF Given
<1>5. PICK e : End' = e /\ P!LastOf(d.parts) = e
  BY <1>0, <1>1, <1>2, DecoderBounds, P!BeforeAppend DEF End
<1>6. Given(e)'
  <2>1. Len(delivered') \in 1 .. Len(delivered')
    BY <1>3
  <2> QED
    BY <1>3, <1>5, <2>1 DEF Given, P!LastOf
<1> SUFFICES ASSUME ~merged', ~wsmsg'.error
             PROVE  /\ AllGiven(End)'
                    /\ \A m \in 1 .. Len(delivered') :
                          P!LastOf(delivered'[m].parts) \in 0 .. End'
  BY DEF Turned
<1>7. /\ P!Assembled(sent, taken, wsmsg, End) /\ AllGiven(End)
      /\ \A m \in 1 .. Len(delivered) : P!LastOf(delivered[m].parts) \in 0 .. End
  BY <1>1 DEF DecoderSound, P!Sound, End, CutInv, Turned
<1>8. /\ End \in 0 .. taken
      /\ \A i \in End + 1 .. taken : Ends(i) => i = End'
  BY <1>2, <1>5, <1>7 DEF P!Assembled, Ends
<1>9. End' \in End + 1 .. taken
  <2>1. wsmsg.message_buffer \in Seq(Nat) /\ Len(wsmsg.message_buffer) > 0
    BY <1>0, <1>1, <1>7 DEF P!Assembled, P!WsMsg
  <2>2. Len(wsmsg.message_buffer) \in 1 .. Len(wsmsg.message_buffer)
    BY <2>1
  <2> QED
    BY <1>2, <1>5, <1>7, <2>2 DEF P!Assembled, P!Collects, P!LastOf
<1>10. AllGiven(End)'
  <2> SUFFICES ASSUME NEW i \in 1 .. e, Ends(i)
               PROVE  Given(i)'
    BY <1>1, <1>5 DEF AllGiven, Ends
  <2>1. CASE i <= End
    <3>1. i \in 1 .. End
      BY <1>0, <1>5, <1>8, <1>9, <2>1
    <3> QED
      BY <1>4, <1>7, <3>1 DEF AllGiven
  <2>2. CASE i > End
    <3>1. i \in End + 1 .. taken
      BY <1>0, <1>5, <1>8, <1>9, <2>2
    <3>2. i = End'
      BY <1>8, <3>1
    <3> QED
      BY <1>5, <1>6, <3>2
  <2> QED
    BY <1>0, <1>5, <1>8, <1>9, <2>1, <2>2
<1>11. ASSUME NEW m \in 1 .. Len(delivered')
       PROVE  P!LastOf(delivered'[m].parts) \in 0 .. End'
  <2>1. CASE m = Len(delivered) + 1
    <3>1. P!LastOf(delivered'[m].parts) = End'
      BY <1>3, <1>5, <2>1
    <3> QED
      BY <1>0, <1>8, <1>9, <3>1
  <2>2. CASE m # Len(delivered) + 1
    <3>1. m \in 1 .. Len(delivered)
      BY <1>3, <2>2
    <3>2. P!LastOf(delivered'[m].parts) = P!LastOf(delivered[m].parts)
          /\ P!LastOf(delivered[m].parts) \in 0 .. End
      BY <1>3, <1>7, <3>1
    <3> QED
      BY <1>0, <1>8, <1>9, <3>2
  <2> QED
    BY <2>1, <2>2
<1> QED
  BY <1>10, <1>11

\* A step of the decoder other than a read.
LEMMA CutStep ==
  ASSUME DecoderSound, CutInv, DecoderSound', cuts' = cuts,
         \/ P!ProcessBuilding \/ P!ProcessRsv \/ P!ProcessControl \/ P!ProcessData
         \/ P!LoopFail \/ P!LoopFrame \/ P!LoopMessage \/ P!LoopDone
         \/ UNCHANGED P!vars
  PROVE  CutInv'
<1>0. /\ wsmsg \in P!WsMsg /\ taken \in Nat /\ delivered \in Seq(P!Message)
      /\ sent \in Seq(P!Frame) /\ Len(sent) \in Nat
      /\ controls \in Seq(Nat) /\ Len(controls) \in Nat
      /\ after \in {"idle", "loop", "closed"}
  BY DEF DecoderSound, P!TypeOK
<1>p. pc = "process" => ~wsmsg.frame /\ ~wsmsg.error
  BY DEF DecoderSound, P!Flow
<1>q. pc \notin {"process", "closed"} =>
         \A n \in 1 .. Len(controls) : sent[controls[n]].op # "CLOSE"
  BY DEF CutInv, Closed
<1>1. ASSUME sent' = sent, taken' = taken, delivered' = delivered,
             merged' = merged, wsmsg.error => wsmsg'.error,
             pc' = "process" => ~wsmsg'.message,
             pc = "process" => taken = Len(sent) \/ wsmsg'.error
      PROVE  cuts' \subseteq 0 .. taken' /\ Turned' /\ Fresh' /\ GoesOn'
  <2>1. /\ \A n : AllGiven(n)' <=> AllGiven(n)
        /\ \A i : Ends(i)' <=> Ends(i)
        /\ End' = End
    BY <1>1, Unmoved
  <2>2. cuts' \subseteq 0 .. taken'
    BY <1>1 DEF CutInv
  <2>3. Turned'
    BY <1>1, <2>1 DEF CutInv, Turned
  <2>4. Fresh'
    BY <1>1 DEF Fresh
  <2>5. GoesOn'
    BY <1>1, <2>1 DEF CutInv, GoesOn
  <2> QED
    BY <2>2, <2>3, <2>4, <2>5
<1>2. ASSUME sent' = sent, delivered' = delivered, controls' = controls,
             after' = after, pc = "process" \/ pc = "closed",
             pc' = after \/ pc' = pc, merged => merged'
      PROVE  Closed'
  <2>1. \A c : Overtook(c)' <=> Overtook(c)
    BY <1>2, Unmoved
  <2> QED
    BY <1>2, <2>1 DEF CutInv, Closed
<1>3. CASE P!ProcessBuilding
  <2>1. /\ UNCHANGED <<sent, taken, wsmsg, after, delivered, controls, merged>>
        /\ pc = "process" /\ pc' = after /\ taken = Len(sent)
    BY <1>3 DEF P!ProcessBuilding
  <2>2. Waits'
    BY <1>p, <2>1 DEF Waits
  <2> QED
    BY <1>0, <1>1, <1>2, <2>1, <2>2 DEF CutInv
<1>4. CASE P!ProcessRsv
  <2>1. /\ UNCHANGED <<sent, taken, after, delivered, controls, merged>>
        /\ pc = "process" /\ pc' = after /\ wsmsg' = [wsmsg EXCEPT !.error = TRUE]
    BY <1>4 DEF P!ProcessRsv, P!Fail, P!Ready
  <2>2. wsmsg'.error /\ wsmsg'.frame = wsmsg.frame
    BY <1>0, <2>1, DecoderBounds, P!FailShape
  <2>3. Waits'
    BY <1>p, <2>1, <2>2 DEF Waits
  <2> QED
    BY <1>0, <1>1, <1>2, <2>1, <2>2, <2>3 DEF CutInv
<1>5. ASSUME sent' = sent, delivered' = delivered, taken' = taken + 1,
             controls' = controls, after' = after, pc = "process",
             pc' = after \/ pc' = pc, merged => merged',
             pc' = "process" /\ wsmsg'.message /\ ~merged' =>
                P!LastOf(wsmsg'.message_buffer) = taken + 1,
             ~merged' /\ ~wsmsg'.error /\ Ends(taken + 1) =>
                pc' = "process" /\ wsmsg'.message,
             ~merged' /\ wsmsg'.frame =>
                wsmsg'.frame_data = taken + 1 /\ Overtook(taken + 1)
      PROVE  CutInv'
  <2>1. /\ \A n : AllGiven(n)' <=> AllGiven(n)
        /\ \A i : Ends(i)' <=> Ends(i)
        /\ \A c : Overtook(c)' <=> Overtook(c)
        /\ End' = End
    BY <1>5, Unmoved
  <2>2. cuts' \subseteq 0 .. taken' /\ taken' \notin cuts'
    BY <1>0, <1>5 DEF CutInv
  <2>3. Turned'
    BY <1>p, <1>5, <2>1 DEF CutInv, Turned
  <2>4. Fresh'
    BY <1>5, <2>2 DEF Fresh
  <2>5. GoesOn'
    BY <1>5, <2>1 DEF GoesOn
  <2>6. Waits'
    BY <1>5, <2>1 DEF Waits
  <2>7. Closed'
    BY <1>2, <1>5
  <2> QED
    BY <2>2, <2>3, <2>4, <2>5, <2>6, <2>7 DEF CutInv
<1>6. CASE P!ProcessControl
  <2>1. /\ sent' = sent /\ delivered' = delivered /\ taken' = taken + 1
        /\ controls' = controls /\ after' = after /\ merged' = merged
        /\ pc = "process" /\ pc' = after /\ taken < Len(sent)
        /\ sent[taken + 1].op \in P!Control
    BY <1>6 DEF P!ProcessControl, P!Ready, P!Take, P!Current, P!Fail
  <2>2. pc' # "process"
    BY <1>0, <2>1
  <2>3. ~Ends(taken + 1)
    BY <2>1 DEF Ends, P!Data, P!Control, P!Starting
  <2>4. wsmsg'.frame => wsmsg'.frame_data = taken + 1
    <3>1. CASE P!Current.fin
      <4>1. wsmsg' = [wsmsg EXCEPT !.frame = TRUE, !.frame_data = taken + 1]
        BY <1>6, <3>1 DEF P!ProcessControl
      <4>2. taken + 1 \in Nat
        BY <1>0
      <4> QED
        BY <1>0, <4>1, <4>2, DecoderBounds, P!ControlShape
    <3>2. CASE ~P!Current.fin
      <4>1. wsmsg' = [wsmsg EXCEPT !.error = TRUE]
        BY <1>6, <3>2 DEF P!ProcessControl, P!Fail
      <4>2. wsmsg'.frame = wsmsg.frame
        BY <1>0, <4>1, DecoderBounds, P!FailShape
      <4> QED
        BY <1>p, <2>1, <4>2
    <3> QED
      BY <3>1, <3>2
  <2>5. ~merged => Overtook(taken + 1)
    BY <2>1, ControlOvertakes
  <2> QED
    BY <1>5, <2>1, <2>2, <2>3, <2>4, <2>5
<1>7. CASE P!ProcessData
  <2>1. /\ sent' = sent /\ delivered' = delivered /\ taken' = taken + 1
        /\ controls' = controls /\ after' = after
        /\ pc = "process" /\ merged' = (merged \/ wsmsg.message)
        /\ taken < Len(sent) /\ P!Current.op \in P!Starting \cup {"CONT"}
    BY <1>7 DEF P!ProcessData, P!Ready, P!Take
  <2>2. CASE P!OutOfPlace
    <3>1. wsmsg' = [wsmsg EXCEPT !.error = TRUE] /\ pc' = after
      BY <1>7, <2>2 DEF P!ProcessData, P!Fail
    <3>2. wsmsg'.error /\ ~wsmsg'.frame
      BY <1>0, <1>p, <2>1, <3>1, DecoderBounds, P!FailShape
    <3> QED
      BY <1>0, <1>5, <2>1, <3>1, <3>2
  <2>3. CASE ~P!OutOfPlace
    <3>1. wsmsg' = P!AppendFrame(wsmsg) /\ pc' = pc
      BY <1>7, <2>3 DEF P!ProcessData
    <3>2. /\ wsmsg'.message_buffer = Append(wsmsg.message_buffer, taken + 1)
          /\ wsmsg'.frame = wsmsg.frame
          /\ wsmsg'.message = (wsmsg.message \/ P!Current.fin)
      BY <2>1, <2>3, <3>1, DecoderBounds, P!AppendShape DEF DecoderSound
    <3>3. wsmsg.message_buffer \in Seq(Nat)
      BY <1>0 DEF P!WsMsg
    <3>4. P!LastOf(wsmsg'.message_buffer) = taken + 1
      BY <1>0, <3>2, <3>3 DEF P!LastOf
    <3>5. Ends(taken + 1) => wsmsg'.message
      BY <3>2 DEF Ends, P!Current
    <3> QED
      BY <1>5, <1>p, <2>1, <3>1, <3>2, <3>4, <3>5
  <2> QED
    BY <2>2, <2>3
<1>8. CASE P!LoopFail
  <2>1. /\ UNCHANGED <<sent, taken, wsmsg, after, delivered, controls, merged>>
        /\ pc = "loop" /\ pc' = "closed"
    BY <1>8 DEF P!LoopFail
  <2>2. Waits'
    BY <2>1, Unmoved DEF CutInv, Waits
  <2>3. Closed'
    BY <1>q, <2>1 DEF Closed
  <2> QED
    BY <1>1, <2>1, <2>2, <2>3 DEF CutInv
<1>9. CASE P!LoopFrame
  <2>0. PICK f \in Nat : f = wsmsg.frame_data
    BY <1>0 DEF P!WsMsg
  <2> DEFINE w == P!wsmsg_get_frame(wsmsg)
  <2>1. /\ UNCHANGED <<sent, taken, delivered, merged>>
        /\ pc = "loop" /\ wsmsg.frame /\ ~wsmsg.error
        /\ controls' = Append(controls, f) /\ wsmsg' = w
        /\ pc' = IF w.message \/ w.frame \/ w.error
                 THEN P!AfterControl(sent[f].op) ELSE "process"
        /\ after' = P!AfterControl(sent[f].op)
    BY <1>9, <2>0 DEF P!LoopFrame, P!Process
  <2>2. ~w.frame /\ w.error = wsmsg.error
    BY <1>0, DecoderBounds, P!GetFrameShape
  <2>3. after' # "process" /\ (sent[f].op = "CLOSE" => after' = "closed")
    BY <2>1 DEF DecoderSound, P!TypeOK, P!AfterControl
  <2>4. pc' = "process" => ~wsmsg'.message
    BY <2>1, <2>3
  <2>5. Waits'
    BY <2>1, <2>2 DEF Waits
  <2>6. /\ Len(controls') = Len(controls) + 1 /\ controls'[Len(controls) + 1] = f
        /\ \A n \in 1 .. Len(controls) : controls'[n] = controls[n]
    BY <1>0, <2>1, <2>2
  <2>7. ~merged => f = taken /\ Overtook(f)'
    <3>1. ~merged => f = taken /\ Overtook(taken)
      BY <2>0, <2>1 DEF CutInv, Waits
    <3>2. \A c : Overtook(c)' <=> Overtook(c)
      BY <2>1, Unmoved
    <3> QED
      BY <3>1, <3>2
  <2> HIDE DEF w
  <2>8. ASSUME NEW n \in 1 .. Len(controls'), NEW k, k = controls'[n],
               sent'[k].op = "CLOSE"
        PROVE  /\ pc' \in {"process", "closed"} /\ after' = "closed"
               /\ ~merged' => Overtook(k)'
    <3>1. n = Len(controls) + 1
      <4>1. n \in 1 .. Len(controls) => FALSE
        BY <1>q, <2>1, <2>6, <2>8
      <4> QED
        BY <1>0, <2>6, <4>1
    <3>2. k = f
      BY <2>6, <2>8, <3>1
    <3> QED
      BY <2>1, <2>3, <2>7, <2>8, <3>2
  <2>9. Closed'
    BY <2>8 DEF Closed
  <2> QED
    BY <1>1, <2>1, <2>4, <2>5, <2>9, <2>2 DEF CutInv
<1>10. CASE P!LoopMessage
  <2>1. /\ sent' = sent /\ taken' = taken /\ merged' = merged /\ ~wsmsg.error
        /\ ~wsmsg.frame /\ controls' = controls /\ pc = "loop"
    BY <1>10 DEF P!LoopMessage
  <2>2. /\ wsmsg'.frame = wsmsg.frame /\ ~wsmsg'.message
    BY <1>0, <1>10, DecoderBounds, P!GetMessageShape DEF P!LoopMessage, P!Process
  <2>3. Turned'
    BY <1>10, MessageTurns
  <2>4. Fresh'
    BY <2>2 DEF Fresh
  <2>5. GoesOn'
    BY <2>1 DEF CutInv, GoesOn, Ends
  <2>6. Waits' /\ Closed'
    BY <1>q, <2>1, <2>2 DEF Waits, Closed
  <2> QED
    BY <2>1, <2>3, <2>4, <2>5, <2>6 DEF CutInv
<1>11. CASE P!LoopDone
  <2>1. /\ UNCHANGED <<sent, taken, wsmsg, after, delivered, controls, merged>>
        /\ pc = "loop" /\ pc' = "idle" /\ ~wsmsg.frame
    BY <1>11 DEF P!LoopDone
  <2>2. Waits' /\ Closed'
    BY <1>q, <2>1 DEF Waits, Closed
  <2> QED
    BY <1>1, <2>1, <2>2 DEF CutInv
<1>12. CASE UNCHANGED P!vars
  <2>1. UNCHANGED <<sent, taken, wsmsg, pc, after, delivered, controls, merged>>
    BY <1>12 DEF P!vars
  <2>2. /\ \A n : AllGiven(n)' <=> AllGiven(n)
        /\ \A i : Ends(i)' <=> Ends(i)
        /\ \A c : Overtook(c)' <=> Overtook(c)
        /\ End' = End
    BY <2>1, Unmoved
  <2>3. cuts' \subseteq 0 .. taken' /\ Turned' /\ Fresh'
    BY <2>1, <2>2 DEF CutInv, Turned, Fresh
  <2>4. GoesOn' /\ Waits' /\ Closed'
    BY <2>1, <2>2 DEF CutInv, GoesOn, Waits, Closed
  <2> QED
    BY <2>3, <2>4 DEF CutInv
<1> QED
  BY <1>3, <1>4, <1>6, <1>7, <1>8, <1>9, <1>10, <1>11, <1>12

\* A read.
LEMMA CutRead ==
  ASSUME DecoderSound, CutInv, DecoderSound', P!Read, cuts' = cuts \cup {taken}
  PROVE  CutInv'
<1>1. /\ taken' = taken /\ delivered' = delivered /\ merged' = merged
      /\ wsmsg' = wsmsg /\ controls' = controls /\ pc = "idle"
      /\ pc' = "process" => ~wsmsg'.message
  BY DEF P!Read, P!Process
<1>2. /\ taken \in Nat /\ taken <= Len(sent) /\ Len(sent) \in Nat
      /\ P!TypeOK
  BY DEF DecoderSound, P!Flow, P!TypeOK
<1>3. \A i \in 1 .. taken : sent'[i] = sent[i]
  BY <1>2, DecoderBounds, P!ReadShape
<1>4. /\ \A i \in 1 .. taken : Ends(i)' <=> Ends(i)
      /\ \A i : Given(i)' <=> Given(i)
      /\ End' = End
  BY <1>1, <1>3 DEF Given, Ends, End, P!Data
<1>5. cuts' \subseteq 0 .. taken' /\ taken' \in cuts'
  BY <1>1, <1>2 DEF CutInv
<1>6. Turned'
  <2> SUFFICES ASSUME ~merged, ~wsmsg.error
               PROVE  AllGiven(End)' /\ \A m \in 1 .. Len(delivered) :
                         P!LastOf(delivered[m].parts) \in 0 .. End
    BY <1>1, <1>4 DEF Turned
  <2>1. End \in 0 .. taken
    BY DEF DecoderSound, P!Sound, P!Assembled, End
  <2>2. AllGiven(End) /\ \A m \in 1 .. Len(delivered) :
           P!LastOf(delivered[m].parts) \in 0 .. End
    BY DEF CutInv, Turned
  <2>3. \A i \in 1 .. End : i \in 1 .. taken
    BY <1>2, <2>1
  <2> QED
    BY <1>4, <2>2, <2>3 DEF AllGiven
<1>7. Fresh' /\ GoesOn'
  BY <1>1, <1>5 DEF Fresh, GoesOn
<1>8. Waits'
  <2> SUFFICES ASSUME ~merged, wsmsg.frame
               PROVE  wsmsg.frame_data = taken /\ Overtook(taken)'
    BY <1>1 DEF Waits
  <2>1. wsmsg.frame_data = taken /\ Overtook(taken)
    BY DEF CutInv, Waits
  <2>2. \A i \in 1 .. taken - 1 : i \in 1 .. taken /\ (i \in cuts' <=> i \in cuts)
    BY <1>2
  <2> QED
    BY <1>1, <1>4, <2>1, <2>2 DEF Overtook
<1>9. Closed'
  <2>1. \A n \in 1 .. Len(controls) : controls[n] \in 1 .. taken
    BY <1>2 DEF DecoderSound, P!TypeOK, P!Handed, P!ControlsInOrder
  <2>2. \A n \in 1 .. Len(controls) : sent'[controls[n]].op # "CLOSE"
    BY <1>1, <1>3, <2>1 DEF CutInv, Closed
  <2> QED
    BY <1>1, <2>2 DEF Closed
<1> QED
  BY <1>5, <1>6, <1>7, <1>8, <1>9 DEF CutInv

\* Every step of a session.
LEMMA CutKept ==
  ASSUME DecoderSound, CutInv, DecoderSound', [SessionNext]_sessionVars
  PROVE  CutInv'
<1>1. ASSUME NEW c \in Conns, Read(c)
      PROVE  CutInv'
  BY <1>1, CutRead, SameRead DEF Read
<1>2. CASE Process
  BY <1>2, CutStep, SameProcess DEF Process
<1>3. ASSUME NEW c \in Conns,
             \/ Failed(c) \/ Closing(c) \/ Ping(c) \/ Pong(c)
             \/ Text(c) \/ Binary(c) \/ Other(c) \/ Done(c)
      PROVE  CutInv'
  <2>1. /\ M!LoopFail \/ M!LoopFrame \/ M!LoopMessage \/ M!LoopDone
        /\ cuts' = cuts
    BY <1>3 DEF Failed, Closing, Ping, Pong, Text, Binary, Other, Done, Turns
  <2> QED
    BY <2>1, CutStep, SameLoop
<1>4. ASSUME NEW c \in Conns, Handshake(c) \/ Written(c) \/ Others(c)
      PROVE  CutInv'
  <2>1. UNCHANGED P!vars /\ cuts' = cuts
    BY <1>4 DEF Handshake, Written, Others, Elsewhere, decoder, P!vars
  <2> QED
    BY <2>1, CutStep
<1>5. CASE UNCHANGED sessionVars
  <2>1. UNCHANGED P!vars /\ cuts' = cuts
    BY <1>5 DEF sessionVars, decoder, P!vars
  <2> QED
    BY <2>1, CutStep
<1> QED
  BY <1>1, <1>2, <1>3, <1>4, <1>5, SessionSteps

\* A Close overtakes exactly the message that was decoded in the same call.
THEOREM OvertakesExactly == SessionSpec => []CloseOvertakesExactly
<1>1. SessionInit => CutInv
  <2> SUFFICES ASSUME SessionInit PROVE CutInv
    OBVIOUS
  <2>1. /\ cuts = {} /\ taken = 0 /\ delivered = <<>> /\ pc = "idle"
        /\ controls = <<>> /\ wsmsg = M!wsmsg_create
    BY DEF SessionInit, M!Init
  <2>2. End = 0 /\ Len(delivered) = 0 /\ Len(controls) = 0
    BY <2>1 DEF End, P!Before
  <2>3. ~wsmsg.frame
    BY <2>1 DEF M!wsmsg_create
  <2>4. cuts \subseteq 0 .. taken /\ Turned
    BY <2>1, <2>2 DEF Turned, AllGiven
  <2>5. Fresh /\ GoesOn /\ Waits /\ Closed
    BY <2>1, <2>2, <2>3 DEF Fresh, GoesOn, Waits, Closed
  <2> QED
    BY <2>4, <2>5 DEF CutInv
<1>2. (GatewaySound /\ DecoderSound) /\ (GatewaySound /\ DecoderSound)' /\ CutInv
        /\ [SessionNext]_sessionVars => CutInv'
  BY CutKept
<1>3. CutInv => CloseOvertakesExactly
  <2>1. \A i : M!IsData(i) <=> P!Data(sent, i)
    BY SameFrames DEF M!IsData, P!Data
  <2> QED
    BY <2>1 DEF CutInv, Closed, Overtook, Ends, CloseOvertakesExactly
<1> QED
  BY <1>1, <1>2, <1>3, AlwaysSound, PTL DEF SessionSpec

=============================================================================
