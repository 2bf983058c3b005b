------------------------------ MODULE WsMessage ------------------------------
(***************************************************************************)
(* From frames to messages: wsmsg_t (wsmessage.c) and the loop of          *)
(* wsconn_process_frame (wsserver.c) that empties it.                      *)
(*                                                                         *)
(* A frame is its opcode and its FIN bit; its payload is its number in the *)
(* order it was sent.  One read completes any number of frames, because    *)
(* TCP cuts the stream where it likes; FrameCodec is about bytes.          *)
(* _wsmsg_process takes one frame in each step; `after' is where in the    *)
(* caller's loop it returns to.  Buffers have no limit here                *)
(* (max_frame_size and max_message_size are 0).                            *)
(***************************************************************************)
EXTENDS Naturals, Sequences

CONSTANTS
    MaxSent,    \* bound: frames the browser sends
    MaxChunk    \* bound: frames one read completes

ASSUME BoundsAssumption == MaxSent \in Nat /\ MaxChunk \in Nat

VARIABLES
    sent,       \* the frames that have arrived, all of them
    taken,      \* how many of them get_frame has taken from frame_buffer
    wsmsg,      \* the wsmsg_t
    pc,         \* where wsconn_process_frame is
    after,      \* where _wsmsg_process returns to
    delivered,  \* the messages handed out by wsmsg_get_message
    controls,   \* the control frames handed out by wsmsg_get_frame
    merged      \* a data frame has met a message not yet handed out

vars == <<sent, taken, wsmsg, pc, after, delivered, controls, merged>>

-----------------------------------------------------------------------------
(***************************************************************************)
(* State                                                                   *)
(***************************************************************************)

Control == {"CLOSE", "PING", "PONG"}

\* OTHER is any reserved opcode: the code does not tell them from data.
Starting == {"TEXT", "BINARY", "OTHER"}

\* RSV is a header with a reserved bit, which get_frame answers with FS_ERROR.
Frame == [op : Control \cup Starting \cup {"CONT", "RSV"}, fin : BOOLEAN]

\* The opcode of a message, and the numbers of the frames it is made of.
Message == [op : Starting, parts : Seq(Nat)]

WsMsg ==
    [frame           : BOOLEAN,     \* a control frame is in frame_data
     message         : BOOLEAN,     \* a message is in message_buffer
     error           : BOOLEAN,
     frame_data      : Nat,         \* that control frame, 0 if none
     message_buffer  : Seq(Nat),
     message_opcode  : Starting,
     message_started : BOOLEAN]

wsmsg_create ==
    [frame |-> FALSE, message |-> FALSE, error |-> FALSE, frame_data |-> 0,
     message_buffer |-> <<>>, message_opcode |-> "OTHER",
     message_started |-> FALSE]

-----------------------------------------------------------------------------
(***************************************************************************)
(* _wsmsg_process                                                          *)
(***************************************************************************)

\* Seeded fault: the flags are not tested.
Process_Greedy(w, to) ==
    /\ wsmsg' = w
    /\ pc' = "process"
    /\ after' = to

\* _wsmsg_process is called with w and will return to `to': it does nothing
\* while a frame, a message or an error waits to be collected.
Process(w, to) ==
    /\ wsmsg' = w
    /\ pc' = IF w.message \/ w.frame \/ w.error THEN to ELSE "process"
    /\ after' = to

\* get_frame finds a frame in frame_buffer.
Ready == pc = "process" /\ taken < Len(sent)

\* The frame it finds.
Current == sent[taken + 1]

Take == taken' = taken + 1 /\ UNCHANGED <<sent, after, delivered, controls>>

\* FS_BUILDING.
ProcessBuilding ==
    /\ pc = "process"
    /\ taken = Len(sent)
    /\ pc' = after
    /\ UNCHANGED <<sent, taken, wsmsg, after, delivered, controls, merged>>

Fail == wsmsg' = [wsmsg EXCEPT !.error = TRUE] /\ pc' = after

\* FS_ERROR: the frame stays in frame_buffer.
ProcessRsv ==
    /\ Ready
    /\ Current.op = "RSV"
    /\ Fail
    /\ UNCHANGED <<sent, taken, after, delivered, controls, merged>>

\* A control frame ends the call; it must not be fragmented.
ProcessControl ==
    /\ Ready
    /\ Current.op \in Control
    /\ IF Current.fin
       THEN /\ wsmsg' = [wsmsg EXCEPT !.frame = TRUE, !.frame_data = taken + 1]
            /\ pc' = after
       ELSE Fail
    /\ Take
    /\ UNCHANGED merged

\* The opcode does not fit the message that has or has not started.
OutOfPlace == wsmsg.message_started # (Current.op = "CONT")

\* Seeded fault: the opcode is taken from every frame of a message.
AppendFrame_Opcode(w) ==
    [w EXCEPT !.message_buffer = Append(@, taken + 1),
              !.message_started = TRUE,
              !.message_opcode = Current.op,
              !.message = @ \/ Current.fin]

\* w with the frame appended.
AppendFrame(w) ==
    [w EXCEPT !.message_buffer = Append(@, taken + 1),
              !.message_started = TRUE,
              !.message_opcode = IF w.message_started THEN @ ELSE Current.op,
              !.message = @ \/ Current.fin]

\* A data frame: the loop goes on even when the message is complete.
ProcessData ==
    /\ Ready
    /\ Current.op \in Starting \cup {"CONT"}
    /\ IF OutOfPlace
       THEN Fail
       ELSE wsmsg' = AppendFrame(wsmsg) /\ UNCHANGED pc
    /\ Take
    /\ merged' = (merged \/ wsmsg.message)

-----------------------------------------------------------------------------
(***************************************************************************)
(* Handing out                                                             *)
(***************************************************************************)

\* Seeded fault: message_buffer is copied and not emptied.
wsmsg_get_message_Copied(w) ==
    [w EXCEPT !.message = FALSE, !.message_started = FALSE]

\* Seeded fault: the next message starts as a continuation.
wsmsg_get_message_Started(w) ==
    [w EXCEPT !.message = FALSE, !.message_buffer = <<>>]

\* w once its message has been moved out, before _wsmsg_process is called.
wsmsg_get_message(w) ==
    [w EXCEPT !.message = FALSE, !.message_started = FALSE,
              !.message_buffer = <<>>]

\* Seeded fault: the frame is handed out again.
wsmsg_get_frame_Kept(w) == w

\* w once its control frame has been moved out.
wsmsg_get_frame(w) == [w EXCEPT !.frame = FALSE, !.frame_data = 0]

-----------------------------------------------------------------------------
(***************************************************************************)
(* wsconn_process_frame                                                    *)
(***************************************************************************)

\* One read: wsmsg_add, with the frames that it completes.
Read ==
    /\ pc = "idle"
    /\ \E n \in 0 .. MaxChunk :
          /\ Len(sent) + n <= MaxSent
          /\ \E chunk \in [1 .. n -> Frame] : sent' = sent \o chunk
    /\ Process(wsmsg, "loop")
    /\ UNCHANGED <<taken, delivered, controls, merged>>

\* wsmsg_fail: wsconn_close.
LoopFail ==
    /\ pc = "loop"
    /\ wsmsg.error
    /\ pc' = "closed"
    /\ UNCHANGED <<sent, taken, wsmsg, after, delivered, controls, merged>>

\* Seeded fault: a Pong ends the loop as well.
AfterControl_Break(op) == IF op = "CLOSE" THEN "closed" ELSE "idle"

\* What the loop does with a control frame: it closes the connection, it
\* answers a Ping and breaks, it ignores a Pong and continues.
AfterControl(op) ==
    CASE op = "CLOSE" -> "closed" [] op = "PING" -> "idle" [] op = "PONG" -> "loop"

\* wsmsg_has_frame comes before wsmsg_has_message: control frames overtake.
LoopFrame ==
    /\ pc = "loop"
    /\ ~wsmsg.error
    /\ wsmsg.frame
    /\ controls' = Append(controls, wsmsg.frame_data)
    /\ Process(wsmsg_get_frame(wsmsg), AfterControl(sent[wsmsg.frame_data].op))
    /\ UNCHANGED <<sent, taken, delivered, merged>>

\* A text message is given to the manager, a binary one closes the connection.
LoopMessage ==
    /\ pc = "loop"
    /\ ~wsmsg.error /\ ~wsmsg.frame
    /\ wsmsg.message
    /\ delivered' = Append(delivered, [op    |-> wsmsg.message_opcode,
                                       parts |-> wsmsg.message_buffer])
    /\ Process(wsmsg_get_message(wsmsg),
               IF wsmsg.message_opcode = "BINARY" THEN "closed" ELSE "loop")
    /\ UNCHANGED <<sent, taken, controls, merged>>

LoopDone ==
    /\ pc = "loop"
    /\ ~wsmsg.error /\ ~wsmsg.frame /\ ~wsmsg.message
    /\ pc' = "idle"
    /\ UNCHANGED <<sent, taken, wsmsg, after, delivered, controls, merged>>

Init ==
    /\ sent = <<>>
    /\ taken = 0
    /\ wsmsg = wsmsg_create
    /\ pc = "idle"
    /\ after = "idle"
    /\ delivered = <<>>
    /\ controls = <<>>
    /\ merged = FALSE

Next ==
    \/ Read
    \/ ProcessBuilding \/ ProcessRsv \/ ProcessControl \/ ProcessData
    \/ LoopFail \/ LoopFrame \/ LoopMessage \/ LoopDone

Spec == Init /\ [][Next]_vars

-----------------------------------------------------------------------------
(***************************************************************************)
(* The stream as the browser means it                                      *)
(***************************************************************************)

IsData(i) == sent[i].op \in Starting \cup {"CONT"}

\* A message is open when frame i is sent: the data frame before it, if there
\* is one, did not end its message.
OpenAt(i) ==
    \E j \in 1 .. i - 1 :
        /\ IsData(j) /\ ~sent[j].fin
        /\ \A k \in j + 1 .. i - 1 : ~IsData(k)

\* The first n frames keep to RFC 6455 as far as wsmessage.c enforces it.
WellFormed(n) ==
    \A i \in 1 .. n :
        /\ sent[i].op # "RSV"
        /\ sent[i].op \in Control => sent[i].fin
        /\ IsData(i) => (OpenAt(i) <=> sent[i].op = "CONT")

-----------------------------------------------------------------------------
(***************************************************************************)
(* Properties                                                              *)
(***************************************************************************)

\* Types, and two bounds: get_frame takes no frame that has not arrived, and
\* message_opcode is that of a first frame.
TypeOK ==
    /\ sent \in Seq(Frame)
    /\ taken \in 0 .. Len(sent)
    /\ wsmsg \in WsMsg
    /\ pc \in {"idle", "process", "loop", "closed"}
    /\ after \in {"idle", "loop", "closed"}
    /\ delivered \in Seq(Message)
    /\ controls \in Seq(Nat)
    /\ merged \in BOOLEAN

\* Whatever the reads, as long as no data frame follows a complete message in
\* the same read: _wsmsg_process fails on the first frame that is malformed
\* and on no other, whatever was delivered before it.  (The frame that fails
\* is taken from frame_buffer, unless it has a reserved bit.)
FailsExactlyOnMalformed ==
    ~merged =>
        IF wsmsg.error
        THEN \/ ~WellFormed(taken)
             \/ taken < Len(sent) /\ Current.op = "RSV"
        ELSE WellFormed(taken)

\* Of a well-formed stream, whatever the reads: the messages delivered so far
\* are its first ones, in order, each made of all its frames and no others,
\* with the opcode of its first frame, however control frames are injected.
DeliveredInOrder ==
    WellFormed(Len(sent)) =>
        \A m \in 1 .. Len(delivered) :
            LET parts == delivered[m].parts
                first == parts[1]
                last  == parts[Len(parts)]
                before == IF m = 1 THEN 0
                          ELSE delivered[m - 1].parts[Len(delivered[m - 1].parts)]
            IN  /\ Len(parts) > 0
                /\ delivered[m].op = sent[first].op
                /\ sent[last].fin
                /\ \A i, j \in 1 .. Len(parts) : i < j => parts[i] < parts[j]
                /\ \A i \in before + 1 .. last :
                      IsData(i) <=> \E j \in 1 .. Len(parts) : parts[j] = i
                /\ \A i \in first .. last - 1 : IsData(i) => ~sent[i].fin

\* Of any stream, whatever the reads: each control frame is handed out once
\* and in order, none is passed over, and at most one waits in frame_data.
ControlsInOrder ==
    /\ \A i \in 1 .. Len(controls) :
          /\ controls[i] <= taken
          /\ sent[controls[i]].op \in Control
          /\ i > 1 => controls[i - 1] < controls[i]
    /\ ~wsmsg.error =>
          \A f \in 1 .. taken :
              sent[f].op \in Control =>
                  \/ \E i \in 1 .. Len(controls) : controls[i] = f
                  \/ wsmsg.frame /\ wsmsg.frame_data = f

\* wsconn_process_frame leaves a frame or a message that has arrived for the
\* next read event only when it has just answered a Ping.
StallsOnlyAfterPing ==
    pc = "idle" /\ (taken < Len(sent) \/ wsmsg.frame \/ wsmsg.message
                      \/ wsmsg.error) =>
        /\ controls # <<>>
        /\ sent[controls[Len(controls)]].op = "PING"

-----------------------------------------------------------------------------
(***************************************************************************)
(* What a test of the source says and the code does not do                 *)
(***************************************************************************)

\* wsmessage_test.c, TestTwoMessages: a second message that arrives "before we
\* read the first one" is delivered after it.  Said of the reads TCP makes: a
\* well-formed stream never fails.
WellFormedNeverFails == WellFormed(Len(sent)) => ~wsmsg.error

=============================================================================
