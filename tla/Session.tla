------------------------------- MODULE Session -------------------------------
(***************************************************************************)
(* One connection with its decoder: Gateway says what the callbacks do     *)
(* with an item, WsMessage which item wsmsg_t hands out next.  They meet   *)
(* in the loop of wsconn_process_frame, where each turn is a step of both, *)
(* and in `more', which Gateway leaves open and which is here what the     *)
(* wsmsg_t holds.                                                          *)
(*                                                                         *)
(* A browser may also send frames right behind its handshake request:      *)
(* wsconn_read_cb stops at the blank line, and they stay in the input      *)
(* evbuffer until the next read event.                                     *)
(***************************************************************************)
EXTENDS Gateway

CONSTANTS
    MaxSent,    \* bound: frames the browser sends
    MaxChunk,   \* bound: frames one read completes
    MaxEarly    \* bound: frames that come with the request

ASSUME OneConnection == \A c, d \in Conns : c = d

ASSUME DecoderBounds == MaxSent \in Nat /\ MaxChunk \in Nat /\ MaxEarly \in Nat

VARIABLES
    sent, taken, wsmsg, pc, after, delivered, controls, merged,  \* WsMessage
    early,      \* frames that came with the request and are not read yet
    cuts        \* how many frames had been taken when each read began

M == INSTANCE WsMessage

decoder == <<sent, taken, wsmsg, pc, after, delivered, controls, merged>>

sessionVars == <<conn, running, decoder, early, cuts>>

-----------------------------------------------------------------------------
(***************************************************************************)
(* Where the two meet                                                      *)
(***************************************************************************)

\* The wsmsg_t holds an item, or _wsmsg_process is about to find one: a frame
\* that ends a message, a control frame or one that is out of place.
HasItem ==
    \/ wsmsg.frame \/ wsmsg.message \/ wsmsg.error
    \/ /\ pc = "process"
       /\ \E i \in taken + 1 .. Len(sent) :
             \/ sent[i].op \in M!Control \cup {"RSV"}
             \/ sent[i].fin
             \/ (sent[i].op = "CONT") <=> (i = taken + 1 /\ ~wsmsg.message_started)

\* A closed connection is not asked any more.
Agree(c) ==
    conn'[c].more <=>
        HasItem' /\ conn'[c].mem = "live" /\ conn'[c].ws_state # "CLOSED"

\* A turn of the loop, taken by both.
Turns(c, gateway, wsmessage) ==
    /\ gateway /\ wsmessage
    /\ Agree(c)
    /\ UNCHANGED <<early, cuts>>

\* A callback that does not touch the wsmsg_t, made when no code is running.
Elsewhere(gateway) ==
    /\ pc # "process"
    /\ gateway
    /\ UNCHANGED <<decoder, cuts>>

-----------------------------------------------------------------------------
(***************************************************************************)
(* Steps                                                                   *)
(***************************************************************************)

\* wsconn_handshake accepts; frames may stand behind the blank line.
Handshake(c) ==
    /\ Elsewhere(HandshakeAccept(c))
    /\ \E n \in 0 .. MaxEarly : early' \in [1 .. n -> M!Frame]

\* Seeded fault: with something in the evbuffer already, events are ignored.
Read_Blocked(c) ==
    /\ pc # "process"
    /\ early = <<>>
    /\ M!Read
    /\ ReadFrames(c)
    /\ Agree(c)
    /\ cuts' = cuts \cup {taken}
    /\ UNCHANGED early

\* wsconn_process_frame takes all that is in the evbuffer.
Read(c) ==
    /\ pc # "process"
    /\ M!Read
    /\ Len(sent') >= Len(sent) + Len(early)
    /\ \A i \in 1 .. Len(early) : sent'[Len(sent) + i] = early[i]
    /\ ReadFrames(c)
    /\ Agree(c)
    /\ early' = <<>>
    /\ cuts' = cuts \cup {taken}

\* One frame in _wsmsg_process.
Process ==
    /\ M!ProcessBuilding \/ M!ProcessRsv \/ M!ProcessControl \/ M!ProcessData
    /\ UNCHANGED <<conn, running, early, cuts>>

Gives(op) == wsmsg.frame /\ sent[wsmsg.frame_data].op = op

Failed(c)  == Turns(c, LoopFail(c), M!LoopFail)
Closing(c) == Turns(c, LoopClose(c), M!LoopFrame /\ Gives("CLOSE"))
Ping(c)    == Turns(c, LoopPing(c), M!LoopFrame /\ Gives("PING"))
Pong(c)    == Turns(c, LoopIgnore(c), M!LoopFrame /\ Gives("PONG"))

Text(c) ==
    Turns(c, LoopText(c), M!LoopMessage /\ wsmsg.message_opcode = "TEXT")
Binary(c) ==
    Turns(c, LoopFail(c), M!LoopMessage /\ wsmsg.message_opcode = "BINARY")
Other(c) ==
    Turns(c, LoopIgnore(c), M!LoopMessage /\ wsmsg.message_opcode = "OTHER")

Done(c) == Turns(c, LoopDone(c), M!LoopDone)

\* The code between a read and the return to the event loop.
Code(c) ==
    \/ Process
    \/ Failed(c) \/ Closing(c) \/ Ping(c) \/ Pong(c)
    \/ Text(c) \/ Binary(c) \/ Other(c) \/ Done(c)

Written(c) ==
    /\ Elsewhere(WriteDrained(c) \/ ClientWriteError(c))
    /\ UNCHANGED early

Others(c) ==
    /\ Elsewhere(\/ Accept(c) \/ RequestError(c) \/ HandshakeReject(c)
                 \/ ClientReadEnd(c) \/ XmppConnected(c) \/ XmppError(c)
                 \/ XmppEof(c) \/ XmppRead(c))
    /\ UNCHANGED early

SessionInit == Init /\ M!Init /\ early = <<>> /\ cuts = {}

SessionNext ==
    \E c \in Conns :
        Handshake(c) \/ Read(c) \/ Code(c) \/ Written(c) \/ Others(c)

(***************************************************************************)
(* As in Gateway, code that runs goes on and pending output is written or  *)
(* fails.  In addition the browser goes on sending, if only a byte of a    *)
(* frame that never ends: what is left in the buffers is looked at only    *)
(* when something arrives.                                                 *)
(***************************************************************************)
SessionFairness ==
    \A c \in Conns :
        /\ WF_sessionVars(Code(c))
        /\ SF_sessionVars(Written(c))
        /\ SF_sessionVars(Read(c))

SessionSpec == SessionInit /\ [][SessionNext]_sessionVars /\ SessionFairness

-----------------------------------------------------------------------------
(***************************************************************************)
(* Properties                                                              *)
(***************************************************************************)

\* The event loop and the decoder are in step: wsconn_process_frame is in its
\* loop exactly when the connection's callback is running, no other callback
\* comes while _wsmsg_process runs, and an open session whose callback has
\* returned keeps an item only behind a Ping it has just answered.
InStep ==
    \A c \in Conns :
        /\ running = c <=>
              pc = "loop" \/ (pc = "process" /\ after = "loop")
        /\ conn[c].ws_state \in {"RECEIVING", "CLOSING"} /\ conn[c].mem = "live" =>
              (conn[c].more <=> HasItem)
        /\ running = None /\ pc = "idle" /\ conn[c].more =>
              sent[controls[Len(controls)]].op = "PING"

\* The message that ends with frame i has been handed out.
Given(i) ==
    \E m \in 1 .. Len(delivered) :
        delivered[m].parts[Len(delivered[m].parts)] = i

\* A Close frame overtakes the message right before it, which is then lost,
\* exactly when _wsmsg_process has decoded both in one call: it does not return
\* when a message is complete, and wsmsg_has_frame is asked before
\* wsmsg_has_message.  It does so also when the two have to wait behind a Ping
\* for another read.  Every other complete message has been handed out before
\* the Close: one with any frame in between, and one that was decoded when a
\* read began, the Close not being decoded then.
CloseOvertakesExactly ==
    \A n \in 1 .. Len(controls) :
        LET close == controls[n]
        IN  sent[close].op = "CLOSE" /\ ~merged =>
                \A i \in 1 .. close - 1 :
                    M!IsData(i) /\ sent[i].fin =>
                        (Given(i) <=> i # close - 1 \/ i \in cuts)

\* Something that has arrived is not handled yet.
Unhandled(c) == early # <<>> \/ taken < Len(sent) \/ conn[c].more

\* As long as the browser goes on sending, what has arrived is handled or the
\* session ends: neither frames sent behind the handshake request nor items
\* left behind a Ping are forgotten.
ArrivedIsHandled ==
    \A c \in Conns :
        Unhandled(c) /\ conn[c].ws_state = "RECEIVING" ~>
            ~Unhandled(c) \/ conn[c].ws_state # "RECEIVING"

=============================================================================
