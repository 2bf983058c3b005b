--------------------------- MODULE WsMessageProofs ---------------------------
(***************************************************************************)
(* Proofs about WsMessage, for streams and reads of every length.          *)
(***************************************************************************)
EXTENDS WsMessage, TLAPS

-----------------------------------------------------------------------------
(***************************************************************************)
(* The operations on a wsmsg_t                                             *)
(***************************************************************************)

\* An error leaves what the wsmsg_t holds.
LEMMA FailShape ==
  ASSUME NEW w \in WsMsg
  PROVE  LET r == [w EXCEPT !.error = TRUE]
         IN  /\ r \in WsMsg
             /\ r.error
             /\ r.frame = w.frame /\ r.frame_data = w.frame_data
             /\ r.message = w.message
  BY DEF WsMsg

\* A control frame goes to frame_data.
LEMMA ControlShape ==
  ASSUME NEW w \in WsMsg, NEW f \in Nat
  PROVE  LET r == [w EXCEPT !.frame = TRUE, !.frame_data = f]
         IN  /\ r \in WsMsg
             /\ r.error = w.error
             /\ r.frame /\ r.frame_data = f
             /\ r.message = w.message
             /\ r.message_buffer = w.message_buffer
             /\ r.message_opcode = w.message_opcode
             /\ r.message_started = w.message_started
  BY DEF WsMsg

\* A data frame goes to message_buffer.
LEMMA AppendShape ==
  ASSUME TypeOK, taken < Len(sent), Current.op \in Starting \cup {"CONT"},
         ~OutOfPlace
  PROVE  LET r == AppendFrame(wsmsg)
         IN  /\ r \in WsMsg
             /\ r.error = wsmsg.error
             /\ r.frame = wsmsg.frame /\ r.frame_data = wsmsg.frame_data
             /\ r.message = (wsmsg.message \/ Current.fin)
             /\ r.message_buffer = Append(wsmsg.message_buffer, taken + 1)
             /\ r.message_opcode = IF wsmsg.message_started
                                   THEN wsmsg.message_opcode ELSE Current.op
             /\ r.message_started
<1> DEFINE w == wsmsg
           b == Append(w.message_buffer, taken + 1)
           o == IF w.message_started THEN w.message_opcode ELSE Current.op
           m == w.message \/ Current.fin
<1>1. w \in WsMsg /\ Current \in Frame
  BY DEF TypeOK, Current
<1>2. b \in Seq(Nat)
  BY <1>1 DEF TypeOK, WsMsg
<1>3. o \in Starting
  BY <1>1 DEF OutOfPlace, WsMsg
<1>4. m \in BOOLEAN
  BY <1>1 DEF WsMsg, Frame
<1>5. AppendFrame(w) = [w EXCEPT !.message_buffer = b, !.message_started = TRUE,
                                 !.message_opcode = o, !.message = m]
  BY <1>1 DEF AppendFrame, WsMsg
<1> HIDE DEF b, o, m
<1> DEFINE r == [w EXCEPT !.message_buffer = b, !.message_started = TRUE,
                          !.message_opcode = o, !.message = m]
<1>6. /\ r \in WsMsg
      /\ r.error = w.error
      /\ r.frame = w.frame /\ r.frame_data = w.frame_data
      /\ r.message = m /\ r.message_buffer = b
      /\ r.message_opcode = o /\ r.message_started
  BY <1>1, <1>2, <1>3, <1>4 DEF WsMsg
<1> QED
  BY <1>5, <1>6 DEF b, o, m

\* What is left when the message has been handed out.
LEMMA GetMessageShape ==
  ASSUME NEW w \in WsMsg
  PROVE  LET r == wsmsg_get_message(w)
         IN  /\ r \in WsMsg
             /\ r.error = w.error
             /\ r.frame = w.frame /\ r.frame_data = w.frame_data
             /\ ~r.message /\ ~r.message_started
             /\ r.message_buffer = <<>>
<1> DEFINE e == <<>>
           r == [w EXCEPT !.message = FALSE, !.message_started = FALSE,
                          !.message_buffer = e]
<1>1. e \in Seq(Nat)
  OBVIOUS
<1> HIDE DEF e
<1>2. /\ r \in WsMsg
      /\ r.error = w.error
      /\ r.frame = w.frame /\ r.frame_data = w.frame_data
      /\ ~r.message /\ ~r.message_started
      /\ r.message_buffer = e
  BY <1>1 DEF WsMsg
<1> QED
  BY <1>2 DEF wsmsg_get_message, e

\* What is left when the control frame has been handed out.
LEMMA GetFrameShape ==
  ASSUME NEW w \in WsMsg
  PROVE  LET r == wsmsg_get_frame(w)
         IN  /\ r \in WsMsg
             /\ r.error = w.error
             /\ ~r.frame
             /\ r.message = w.message
             /\ r.message_buffer = w.message_buffer
             /\ r.message_opcode = w.message_opcode
             /\ r.message_started = w.message_started
  BY DEF wsmsg_get_frame, WsMsg

\* A read adds frames behind those that have arrived.
LEMMA ReadShape ==
  ASSUME TypeOK, Read
  PROVE  /\ sent' \in Seq(Frame)
         /\ Len(sent) <= Len(sent')
         /\ \A i \in 1 .. Len(sent) : sent'[i] = sent[i]
<1>1. PICK n \in 0 .. MaxChunk :
         \E chunk \in [1 .. n -> Frame] : sent' = sent \o chunk
  BY DEF Read
<1>2. PICK chunk \in [1 .. n -> Frame] : sent' = sent \o chunk
  BY <1>1
<1>3. n \in Nat
  BY BoundsAssumption
<1>4. chunk \in Seq(Frame) /\ Len(chunk) = n
  BY <1>2, <1>3
<1> QED
  BY <1>2, <1>4 DEF TypeOK

-----------------------------------------------------------------------------
(***************************************************************************)
(* Type correctness, with the control frame that waits                     *)
(***************************************************************************)

\* _wsmsg_process runs with no frame and no error, and what is in frame_data
\* is a control frame that has been taken.
Flow ==
    /\ pc = "process" => ~wsmsg.frame /\ ~wsmsg.error
    /\ wsmsg.frame =>
          wsmsg.frame_data \in 1 .. taken /\ sent[wsmsg.frame_data].op \in Control

\* Flow holds at the start and in every step.
LEMMA FlowInit == Init => TypeOK /\ Flow
<1> SUFFICES ASSUME Init PROVE TypeOK /\ Flow
  OBVIOUS
<1>1. <<>> \in Seq(Nat) /\ <<>> \in Seq(Frame) /\ <<>> \in Seq(Message)
  OBVIOUS
<1>2. wsmsg_create \in WsMsg /\ ~wsmsg_create.frame
  <2> DEFINE e == <<>>
  <2> HIDE DEF e
  <2>1. ASSUME e \in Seq(Nat)
        PROVE  [frame |-> FALSE, message |-> FALSE, error |-> FALSE,
                frame_data |-> 0, message_buffer |-> e,
                message_opcode |-> "OTHER", message_started |-> FALSE] \in WsMsg
    BY <2>1 DEF WsMsg, Starting
  <2> QED
    BY <1>1, <2>1 DEF wsmsg_create, e
<1>3. sent \in Seq(Frame) /\ delivered \in Seq(Message) /\ controls \in Seq(Nat)
  BY <1>1, Zenon DEF Init
<1>4. taken \in 0 .. Len(sent)
  BY <1>3 DEF Init
<1>5. wsmsg \in WsMsg /\ ~wsmsg.frame
  BY <1>2 DEF Init
<1> QED
  BY <1>3, <1>4, <1>5 DEF Init, TypeOK, Flow

\* Every step keeps the types and Flow.
LEMMA FlowStep ==
  ASSUME TypeOK, Flow, [Next]_vars
  PROVE  TypeOK' /\ Flow'
<1> USE DEF TypeOK, Flow
<1>w. wsmsg \in WsMsg
  OBVIOUS
<1>p. ASSUME NEW w \in WsMsg, NEW to \in {"idle", "loop", "closed"}, Process(w, to)
      PROVE  /\ wsmsg' = w /\ after' = to
             /\ pc' \in {to, "process"}
             /\ pc' = "process" => ~w.frame /\ ~w.error
  BY <1>p DEF Process
<1>f. ASSUME Fail
      PROVE  /\ wsmsg' \in WsMsg /\ wsmsg'.frame = wsmsg.frame
             /\ wsmsg'.frame_data = wsmsg.frame_data /\ pc' = after
  BY <1>w, <1>f, FailShape DEF Fail
<1>1. CASE Read
  <2>1. Process(wsmsg, "loop")
    BY <1>1 DEF Read
  <2>2. wsmsg' = wsmsg /\ after' = "loop" /\ pc' \in {"loop", "process"}
        /\ (pc' = "process" => ~wsmsg.frame /\ ~wsmsg.error)
    BY <1>p, <2>1
  <2>3. UNCHANGED <<taken, delivered, controls, merged>>
    BY <1>1 DEF Read
  <2>4. /\ sent' \in Seq(Frame) /\ Len(sent) <= Len(sent')
        /\ \A i \in 1 .. Len(sent) : sent'[i] = sent[i]
    BY <1>1, ReadShape
  <2>5. TypeOK'
    BY <2>2, <2>3, <2>4
  <2>6. ASSUME wsmsg.frame
        PROVE  /\ wsmsg.frame_data \in 1 .. taken
               /\ sent'[wsmsg.frame_data].op \in Control
    <3>1. /\ wsmsg.frame_data \in 1 .. taken
          /\ sent[wsmsg.frame_data].op \in Control
      BY <2>6
    <3>2. wsmsg.frame_data \in 1 .. Len(sent)
      BY <3>1
    <3> QED
      BY <2>4, <3>1, <3>2
  <2>7. Flow'
    BY <2>2, <2>3, <2>6
  <2> QED
    BY <2>5, <2>7
<1>2. CASE ProcessBuilding
  BY <1>2 DEF ProcessBuilding
<1>3. CASE ProcessRsv
  BY <1>3, <1>f DEF ProcessRsv, Ready
<1>4. CASE ProcessControl
  <2>0. /\ pc = "process" /\ taken < Len(sent) /\ Current.op \in Control
        /\ taken' = taken + 1
        /\ UNCHANGED <<sent, after, delivered, controls, merged>>
    BY <1>4 DEF ProcessControl, Ready, Take
  <2>1. CASE Fail
    BY <1>f, <2>0, <2>1
  <2>2. CASE /\ wsmsg' = [wsmsg EXCEPT !.frame = TRUE, !.frame_data = taken + 1]
             /\ pc' = after
    <3>0. taken + 1 \in Nat
      OBVIOUS
    <3>1. wsmsg' \in WsMsg /\ wsmsg'.frame_data = taken + 1
      BY <2>2, <3>0, <1>w, ControlShape
    <3> QED
      BY <2>0, <2>2, <3>1 DEF Current
  <2> QED
    BY <1>4, <2>1, <2>2 DEF ProcessControl
<1>5. CASE ProcessData
  <2>0. /\ pc = "process" /\ taken < Len(sent)
        /\ Current.op \in Starting \cup {"CONT"}
        /\ taken' = taken + 1
        /\ UNCHANGED <<sent, after, delivered, controls>>
        /\ merged' \in BOOLEAN
    BY <1>5 DEF ProcessData, Ready, Take
  <2>1. CASE OutOfPlace
    <3>1. Fail
      BY <1>5, <2>1 DEF ProcessData
    <3> QED
      BY <1>f, <2>0, <3>1
  <2>2. CASE ~OutOfPlace
    <3>1. wsmsg' = AppendFrame(wsmsg) /\ pc' = pc
      BY <1>5, <2>2 DEF ProcessData
    <3>2. /\ wsmsg' \in WsMsg /\ wsmsg'.error = wsmsg.error
          /\ wsmsg'.frame = wsmsg.frame
      BY <2>0, <2>2, <3>1, AppendShape
    <3> QED
      BY <2>0, <3>1, <3>2
  <2> QED
    BY <2>1, <2>2
<1>6. CASE LoopFail
  BY <1>6 DEF LoopFail
<1>7. CASE LoopFrame
  <2> DEFINE w == wsmsg_get_frame(wsmsg)
             to == AfterControl(sent[wsmsg.frame_data].op)
  <2>0. /\ wsmsg.frame /\ Process(w, to)
        /\ UNCHANGED <<sent, taken, delivered, merged>>
        /\ controls' = Append(controls, wsmsg.frame_data)
    BY <1>7 DEF LoopFrame
  <2>1. to \in {"idle", "loop", "closed"}
    BY <2>0 DEF AfterControl, Control
  <2>2. w \in WsMsg /\ ~w.frame
    BY <1>w, GetFrameShape
  <2>3. controls' \in Seq(Nat)
    BY <1>w, <2>0 DEF WsMsg
  <2> HIDE DEF w, to
  <2> QED
    BY <1>p, <2>0, <2>1, <2>2, <2>3
<1>8. CASE LoopMessage
  <2> DEFINE w == wsmsg_get_message(wsmsg)
             to == IF wsmsg.message_opcode = "BINARY" THEN "closed" ELSE "loop"
             d == [op |-> wsmsg.message_opcode, parts |-> wsmsg.message_buffer]
  <2>0. /\ ~wsmsg.frame /\ Process(w, to)
        /\ UNCHANGED <<sent, taken, controls, merged>>
        /\ delivered' = Append(delivered, d)
    BY <1>8 DEF LoopMessage
  <2>1. to \in {"idle", "loop", "closed"}
    OBVIOUS
  <2>2. w \in WsMsg /\ ~w.frame
    BY <1>w, <2>0, GetMessageShape
  <2>3. d \in Message
    BY <1>w DEF WsMsg, Message
  <2> HIDE DEF w, to, d
  <2>4. delivered' \in Seq(Message)
    BY <2>0, <2>3
  <2> QED
    BY <1>p, <2>0, <2>1, <2>2, <2>4
<1>9. CASE LoopDone
  BY <1>9 DEF LoopDone
<1>10. CASE UNCHANGED vars
  BY <1>10 DEF vars
<1> QED
  BY <1>1, <1>2, <1>3, <1>4, <1>5, <1>6, <1>7, <1>8, <1>9, <1>10 DEF Next

\* So they always hold.
LEMMA FlowCorrect == Spec => [](TypeOK /\ Flow)
  BY FlowInit, FlowStep, PTL DEF Spec

\* The reassembly of messages keeps its types: no frame is taken before it has
\* arrived, and message_opcode is never CONT.
THEOREM TypeCorrect == Spec => []TypeOK
  BY FlowCorrect, PTL

-----------------------------------------------------------------------------
(***************************************************************************)
(* Control frames                                                          *)
(***************************************************************************)

\* With ControlsInOrder: the frame in frame_data comes behind those that have
\* been handed out.
Handed ==
    /\ ControlsInOrder
    /\ \A i \in 1 .. Len(controls) :
          /\ controls[i] > 0
          /\ wsmsg.frame => controls[i] < wsmsg.frame_data

\* No step passes over a control frame or hands it out twice.
LEMMA HandedStep ==
  ASSUME TypeOK, Flow, Handed, [Next]_vars
  PROVE  Handed'
<1> USE DEF TypeOK, Flow, Handed, ControlsInOrder
<1>w. wsmsg \in WsMsg
  OBVIOUS
<1>1. CASE Read
  <2>1. wsmsg' = wsmsg /\ UNCHANGED <<taken, controls>>
    BY <1>1 DEF Read, Process
  <2>2. \A i \in 1 .. taken : sent'[i] = sent[i]
    BY <1>1, ReadShape
  <2>3. \A i \in 1 .. Len(controls) : controls[i] \in 1 .. taken
    OBVIOUS
  <2>4. \A i \in 1 .. Len(controls) : sent'[controls[i]] = sent[controls[i]]
    BY <2>2, <2>3
  <2> QED
    BY <2>1, <2>2, <2>4
<1>2. CASE ProcessBuilding
  BY <1>2 DEF ProcessBuilding
<1>3. CASE ProcessRsv
  <2>1. /\ UNCHANGED <<sent, taken, controls>>
        /\ wsmsg'.error /\ wsmsg'.frame = wsmsg.frame
        /\ wsmsg'.frame_data = wsmsg.frame_data
    BY <1>3, <1>w, FailShape DEF ProcessRsv, Fail
  <2> QED
    BY <2>1
<1>4. CASE ProcessControl
  <2>0. /\ ~wsmsg.frame /\ ~wsmsg.error /\ taken < Len(sent)
        /\ taken' = taken + 1 /\ UNCHANGED <<sent, controls>>
    BY <1>4 DEF ProcessControl, Ready, Take
  <2>1. CASE Fail
    BY <1>w, <2>0, <2>1, FailShape DEF Fail
  <2>2. CASE wsmsg' = [wsmsg EXCEPT !.frame = TRUE, !.frame_data = taken + 1]
    <3>0. taken + 1 \in Nat
      OBVIOUS
    <3>1. ~wsmsg'.error /\ wsmsg'.frame /\ wsmsg'.frame_data = taken + 1
      BY <1>w, <2>0, <2>2, <3>0, ControlShape
    <3> QED
      BY SMTT(30), <2>0, <3>1
  <2> QED
    BY <1>4, <2>1, <2>2 DEF ProcessControl
<1>5. CASE ProcessData
  <2>0. /\ ~wsmsg.frame /\ ~wsmsg.error /\ taken < Len(sent)
        /\ Current.op \in Starting \cup {"CONT"}
        /\ taken' = taken + 1 /\ UNCHANGED <<sent, controls>>
    BY <1>5 DEF ProcessData, Ready, Take
  <2>1. ~wsmsg'.frame
    BY <1>5, <1>w, <2>0, FailShape, AppendShape DEF ProcessData, Fail
  <2>2. sent[taken + 1].op \notin Control
    BY <2>0 DEF Current, Starting, Control
  <2> QED
    BY SMTT(30), <2>0, <2>1, <2>2
<1>6. CASE LoopFail
  BY <1>6 DEF LoopFail
<1>7. CASE LoopFrame
  <2> DEFINE n == Len(controls)
  <2>0. /\ wsmsg.frame /\ ~wsmsg.error /\ UNCHANGED <<sent, taken>>
        /\ controls' = Append(controls, wsmsg.frame_data)
    BY <1>7 DEF LoopFrame
  <2>1. ~wsmsg'.frame
    BY <1>7, <1>w, GetFrameShape DEF LoopFrame, Process
  <2>2. wsmsg.frame_data \in 1 .. taken /\ sent[wsmsg.frame_data].op \in Control
    BY <2>0
  <2>3. /\ Len(controls') = n + 1 /\ controls'[n + 1] = wsmsg.frame_data
        /\ \A i \in 1 .. n : controls'[i] = controls[i]
    BY <2>0, <2>2
  <2> HIDE DEF n
  <2>4. n \in Nat /\ n = Len(controls) /\ wsmsg.frame_data \in Nat
    BY <1>w DEF n, WsMsg
  <2>5. ASSUME NEW i \in 1 .. n + 1
        PROVE  /\ controls'[i] <= taken /\ controls'[i] > 0
               /\ sent[controls'[i]].op \in Control
               /\ i > 1 => controls'[i - 1] < controls'[i]
    <3>1. CASE i = n + 1
      <4>1. i > 1 => n \in 1 .. n /\ i - 1 = n
        BY <2>4, <3>1
      <4> QED
        BY <2>0, <2>2, <2>3, <2>4, <3>1, <4>1
    <3>2. CASE i \in 1 .. n
      <4>1. i > 1 => i - 1 \in 1 .. n
        BY <2>4
      <4> QED
        BY <2>3, <2>4, <3>2, <4>1
    <3> QED
      BY SMTT(30), <2>4, <3>1, <3>2
  <2>6. \A i \in 1 .. Len(controls') :
           /\ controls'[i] <= taken' /\ controls'[i] > 0
           /\ sent'[controls'[i]].op \in Control
           /\ i > 1 => controls'[i - 1] < controls'[i]
    BY <2>0, <2>3, <2>5
  <2>7. \A f \in 1 .. taken' : sent'[f].op \in Control =>
           \E i \in 1 .. Len(controls') : controls'[i] = f
    <3>1. ASSUME NEW f \in 1 .. taken, sent[f].op \in Control
          PROVE  \E i \in 1 .. n + 1 : controls'[i] = f
      <4>1. CASE f = wsmsg.frame_data
        <5>1. n + 1 \in 1 .. n + 1
          BY <2>4
        <5> QED
          BY <2>3, <4>1, <5>1
      <4>2. CASE \E i \in 1 .. n : controls[i] = f
        BY <2>3, <2>4, <4>2
      <4> QED
        BY <2>0, <2>4, <3>1, <4>1, <4>2
    <3> QED
      BY <2>0, <2>3, <3>1
  <2> QED
    BY <2>1, <2>6, <2>7
<1>8. CASE LoopMessage
  <2>0. UNCHANGED <<sent, taken, controls>> /\ ~wsmsg.error /\ ~wsmsg.frame
    BY <1>8 DEF LoopMessage
  <2>1. ~wsmsg'.frame
    BY <1>8, <1>w, <2>0, GetMessageShape DEF LoopMessage, Process
  <2> QED
    BY <2>0, <2>1
<1>9. CASE LoopDone
  BY <1>9 DEF LoopDone
<1>10. CASE UNCHANGED vars
  BY <1>10 DEF vars
<1> QED
  BY <1>1, <1>2, <1>3, <1>4, <1>5, <1>6, <1>7, <1>8, <1>9, <1>10 DEF Next

\* At the start no control frame has been handed out.
LEMMA HandedInit == Init => Handed
  BY DEF Init, Handed, ControlsInOrder

\* Each control frame of any stream is handed out once and in order.
THEOREM ControlsHandedOut == Spec => []ControlsInOrder
<1>1. Handed => ControlsInOrder
  BY DEF Handed
<1> QED
  BY <1>1, HandedInit, FlowCorrect, HandedStep, PTL DEF Spec

-----------------------------------------------------------------------------
(***************************************************************************)
(* What is left for the next read event                                    *)
(***************************************************************************)

Waiting(w) == w.frame \/ w.message \/ w.error

AnsweredPing == controls # <<>> /\ sent[controls[Len(controls)]].op = "PING"

\* With StallsOnlyAfterPing: _wsmsg_process is told to leave the loop only for
\* a Ping or a connection that closes, and the loop sees all that has arrived.
Stalls ==
    /\ StallsOnlyAfterPing
    /\ pc = "process" /\ after = "idle" => AnsweredPing
    /\ pc = "loop" => Waiting(wsmsg) \/ taken = Len(sent)

\* No step leaves the loop with something in hand, but the answer to a Ping.
LEMMA StallsStep ==
  ASSUME TypeOK, Flow, Handed, Stalls, [Next]_vars
  PROVE  Stalls'
<1> USE DEF TypeOK, Stalls, StallsOnlyAfterPing, AnsweredPing, Waiting
<1>w. wsmsg \in WsMsg
  OBVIOUS
<1>1. CASE Read
  BY <1>1 DEF Read, Process
<1>2. CASE ProcessBuilding
  BY <1>2 DEF ProcessBuilding
<1>f. ASSUME Fail, UNCHANGED <<sent, controls, after>>, pc = "process"
      PROVE  Stalls'
  <2>1. wsmsg'.error /\ pc' = after
    BY <1>f, <1>w, FailShape DEF Fail
  <2> QED
    BY <1>f, <2>1
<1>3. CASE ProcessRsv
  BY <1>3, <1>f DEF ProcessRsv, Ready
<1>4. CASE ProcessControl
  <2>0. pc = "process" /\ UNCHANGED <<sent, after, controls>>
    BY <1>4 DEF ProcessControl, Ready, Take
  <2>1. CASE /\ wsmsg' = [wsmsg EXCEPT !.frame = TRUE, !.frame_data = taken + 1]
             /\ pc' = after
    <3>0. taken + 1 \in Nat
      OBVIOUS
    <3>1. wsmsg'.frame
      BY <1>w, <2>1, <3>0, ControlShape
    <3> QED
      BY <2>0, <2>1, <3>1
  <2> QED
    BY <1>4, <1>f, <2>0, <2>1 DEF ProcessControl
<1>5. CASE ProcessData
  <2>0. pc = "process" /\ UNCHANGED <<sent, after, controls>>
    BY <1>5 DEF ProcessData, Ready, Take
  <2>1. CASE pc' = pc
    BY <2>0, <2>1
  <2> QED
    BY <1>5, <1>f, <2>0, <2>1 DEF ProcessData
<1>6. CASE LoopFail
  BY <1>6 DEF LoopFail
<1>7. CASE LoopFrame
  <2> DEFINE w == wsmsg_get_frame(wsmsg)
             op == sent[wsmsg.frame_data].op
             n == Len(controls)
  <2>0. /\ wsmsg.frame /\ Process(w, AfterControl(op)) /\ UNCHANGED <<sent, taken>>
        /\ controls' = Append(controls, wsmsg.frame_data)
    BY <1>7 DEF LoopFrame
  <2>1. Len(controls') = n + 1 /\ controls'[n + 1] = wsmsg.frame_data
    BY <1>w, <2>0 DEF WsMsg
  <2>2. controls' # <<>> /\ sent'[controls'[Len(controls')]].op = op
    BY <2>0, <2>1
  <2>3. op \in Control
    BY <2>0 DEF Flow
  <2>4. AfterControl(op) = "idle" => op = "PING"
    BY <2>3 DEF AfterControl, Control
  <2>5. AfterControl(op) # "process"
    BY <2>3 DEF AfterControl, Control
  <2> HIDE DEF w, op, n
  <2>6. /\ wsmsg' = w /\ after' = AfterControl(op)
        /\ pc' = IF Waiting(w) THEN AfterControl(op) ELSE "process"
    BY <2>0 DEF Process
  <2> QED
    BY <2>2, <2>4, <2>5, <2>6
<1>8. CASE LoopMessage
  <2> DEFINE w == wsmsg_get_message(wsmsg)
             to == IF wsmsg.message_opcode = "BINARY" THEN "closed" ELSE "loop"
  <2>1. Process(w, to)
    BY <1>8 DEF LoopMessage
  <2> HIDE DEF w
  <2>2. /\ wsmsg' = w /\ after' = to
        /\ pc' = IF Waiting(w) THEN to ELSE "process"
    BY <2>1 DEF Process
  <2> QED
    BY <2>2
<1>9. CASE LoopDone
  BY <1>9 DEF LoopDone
<1>10. CASE UNCHANGED vars
  BY <1>10 DEF vars
<1> QED
  BY <1>1, <1>2, <1>3, <1>4, <1>5, <1>6, <1>7, <1>8, <1>9, <1>10 DEF Next

\* At the start nothing waits.
LEMMA StallsInit == Init => Stalls
  BY DEF Init, Stalls, StallsOnlyAfterPing, wsmsg_create

\* What has arrived waits for another read event only behind a Ping.
THEOREM WaitsOnlyBehindPing == Spec => []StallsOnlyAfterPing
<1>1. Stalls => StallsOnlyAfterPing
  BY DEF Stalls
<1> QED
  BY <1>1, HandedInit, StallsInit, FlowCorrect, HandedStep, StallsStep, PTL DEF Spec

-----------------------------------------------------------------------------
(***************************************************************************)
(* Streams and the messages they are made of.  IsData, OpenAt and          *)
(* WellFormed are about `sent'; here they are about any stream s.          *)
(***************************************************************************)

Data(s, i) == s[i].op \in Starting \cup {"CONT"}

Open(s, i) ==
    \E j \in 1 .. i - 1 :
        /\ Data(s, j) /\ ~s[j].fin
        /\ \A k \in j + 1 .. i - 1 : ~Data(s, k)

\* Frame i keeps to the protocol.
Proper(s, i) ==
    /\ s[i].op # "RSV"
    /\ s[i].op \in Control => s[i].fin
    /\ Data(s, i) => (Open(s, i) <=> s[i].op = "CONT")

Well(s, n) == \A i \in 1 .. n : Proper(s, i)

LastOf(b) == b[Len(b)]

\* b lists the data frames of s behind lo and up to hi.
Collects(s, b, lo, hi) ==
    /\ \A j \in 1 .. Len(b) : b[j] \in lo + 1 .. hi
    /\ \A i, j \in 1 .. Len(b) : i < j => b[i] < b[j]
    /\ \A i \in lo + 1 .. hi : Data(s, i) <=> \E j \in 1 .. Len(b) : b[j] = i

\* m is the message of s that starts behind lo.
Whole(s, m, lo) ==
    /\ Len(m.parts) > 0
    /\ m.op = s[m.parts[1]].op
    /\ s[LastOf(m.parts)].fin
    /\ Collects(s, m.parts, lo, LastOf(m.parts))
    /\ \A i \in lo + 1 .. LastOf(m.parts) - 1 : Data(s, i) => ~s[i].fin

\* Where the messages before number m end.
Before(d, m) == IF m = 1 THEN 0 ELSE LastOf(d[m - 1].parts)

\* w holds what t frames of s have brought of the message behind lo.
Assembled(s, t, w, lo) ==
    /\ lo \in 0 .. t
    /\ lo > 0 => Data(s, lo) /\ s[lo].fin
    /\ Collects(s, w.message_buffer, lo, t)
    /\ w.message_started <=> Len(w.message_buffer) > 0
    /\ w.message_started => w.message_opcode = s[w.message_buffer[1]].op
    /\ w.message => w.message_started /\ s[LastOf(w.message_buffer)].fin
    /\ \A i \in lo + 1 .. t :
          Data(s, i) /\ s[i].fin => w.message /\ i = LastOf(w.message_buffer)

\* The two vocabularies agree.
LEMMA SameWords ==
  ASSUME NEW n
  PROVE  WellFormed(n) <=> Well(sent, n)
  BY DEF WellFormed, Well, Proper, IsData, Data, OpenAt, Open

\* Whether a frame is proper depends on the frames before it only.
LEMMA ProperKept ==
  ASSUME NEW s, NEW r, NEW n \in Nat, \A i \in 1 .. n : r[i] = s[i],
         NEW i \in 1 .. n
  PROVE  Proper(r, i) <=> Proper(s, i)
<1>1. \A j \in 1 .. n : Data(r, j) <=> Data(s, j)
  BY DEF Data
<1>2. Open(r, i) <=> Open(s, i)
  BY <1>1 DEF Open
<1> QED
  BY <1>1, <1>2 DEF Proper

\* So whatever arrives later leaves a stream as well-formed as it was.
LEMMA WellKept ==
  ASSUME NEW s, NEW r, NEW n \in Nat, \A i \in 1 .. n : r[i] = s[i]
  PROVE  Well(r, n) <=> Well(s, n)
  BY ProperKept DEF Well

\* A prefix of a well-formed stream is well-formed.
LEMMA WellNext ==
  ASSUME NEW s, NEW n \in Nat
  PROVE  Well(s, n + 1) <=> Well(s, n) /\ Proper(s, n + 1)
  BY DEF Well

\* What is well-formed is so up to every earlier frame.
LEMMA WellPrefix ==
  ASSUME NEW s, NEW n \in Nat, NEW t \in 0 .. n, Well(s, n)
  PROVE  Well(s, t)
  BY DEF Well

\* The list of data frames depends on the frames it covers only.
LEMMA CollectsKept ==
  ASSUME NEW s, NEW r, NEW b \in Seq(Nat), NEW lo \in Nat, NEW hi \in Nat,
         \A i \in 1 .. hi : r[i] = s[i], Collects(s, b, lo, hi)
  PROVE  Collects(r, b, lo, hi)
<1>1. \A i \in lo + 1 .. hi : Data(r, i) <=> Data(s, i)
  BY DEF Data
<1> QED
  BY <1>1 DEF Collects

\* The last frame of the list is the greatest.
LEMMA LastIsGreatest ==
  ASSUME NEW s, NEW b \in Seq(Nat), NEW lo, NEW hi, Collects(s, b, lo, hi),
         NEW j \in 1 .. Len(b)
  PROVE  b[j] <= b[Len(b)]
<1>1. Len(b) \in 1 .. Len(b) /\ b[j] \in Nat
  OBVIOUS
<1>2. CASE j = Len(b)
  BY <1>1, <1>2
<1>3. CASE j < Len(b)
  BY <1>1, <1>3 DEF Collects
<1> QED
  BY <1>2, <1>3

\* A whole message stays whole when frames arrive behind it.
LEMMA WholeKept ==
  ASSUME NEW s, NEW r, NEW m \in Message, NEW lo \in Nat, NEW t \in Nat,
         \A i \in 1 .. t : r[i] = s[i], LastOf(m.parts) <= t, Whole(s, m, lo)
  PROVE  Whole(r, m, lo)
<1> DEFINE b == m.parts
           n == LastOf(b)
<1>1. b \in Seq(Nat) /\ Len(b) \in Nat \ {0}
  BY DEF Message, Whole
<1>2. b[1] \in lo + 1 .. n /\ n \in lo + 1 .. n
  BY <1>1 DEF Whole, Collects, LastOf
<1>3. n \in Nat /\ \A i \in 1 .. n : r[i] = s[i]
  BY <1>1, <1>2
<1>4. Collects(r, b, lo, n)
  BY <1>1, <1>3, CollectsKept DEF Whole
<1>5. r[b[1]] = s[b[1]] /\ r[n] = s[n]
  BY <1>2, <1>3
<1>6. \A i \in lo + 1 .. n - 1 : r[i] = s[i]
  BY <1>3
<1> QED
  BY <1>4, <1>5, <1>6 DEF Whole, Data

\* So does what has been assembled of the next one.
LEMMA AssembledKept ==
  ASSUME NEW s, NEW r, NEW w \in WsMsg, NEW lo, NEW t \in Nat,
         \A i \in 1 .. t : r[i] = s[i], Assembled(s, t, w, lo)
  PROVE  Assembled(r, t, w, lo)
<1> DEFINE b == w.message_buffer
<1>1. b \in Seq(Nat) /\ lo \in 0 .. t
  BY DEF WsMsg, Assembled
<1>2. Collects(r, b, lo, t)
  BY <1>1, CollectsKept DEF Assembled
<1>3. \A j \in 1 .. Len(b) : b[j] \in 1 .. t
  BY <1>1, <1>2 DEF Collects
<1>4. Len(b) > 0 => r[b[1]] = s[b[1]] /\ r[LastOf(b)] = s[LastOf(b)]
  BY <1>1, <1>3 DEF LastOf
<1>5. w.message_started => Len(b) > 0
  BY DEF Assembled
<1>6. w.message => w.message_started
  BY DEF Assembled
<1>7. \A i \in lo + 1 .. t : r[i] = s[i]
  BY <1>1
<1> QED
  BY <1>1, <1>2, <1>4, <1>5, <1>6, <1>7 DEF Assembled, Data

\* message_started says whether a message is open, once a complete message has
\* been handed out.
LEMMA OpenWhenStarted ==
  ASSUME NEW s, NEW w \in WsMsg, NEW lo, NEW t \in Nat, Assembled(s, t, w, lo)
  PROVE  Open(s, t + 1) <=> w.message_started /\ ~w.message
<1> DEFINE b == w.message_buffer
           n == Len(b)
<1>1. b \in Seq(Nat) /\ lo \in 0 .. t /\ n \in Nat
  BY DEF WsMsg, Assembled
<1>2. ASSUME n > 0
      PROVE  /\ b[n] \in lo + 1 .. t
             /\ \A k \in b[n] + 1 .. t : ~Data(s, k)
             /\ Data(s, b[n])
    <2>1. n \in 1 .. n
      BY <1>1, <1>2
    <2>2. b[n] \in lo + 1 .. t /\ Data(s, b[n])
      BY <2>1 DEF Assembled, Collects
    <2>3. \A j \in 1 .. n : b[j] <= b[n]
      BY <1>1, LastIsGreatest DEF Assembled
    <2>4. \A k \in b[n] + 1 .. t : k \in lo + 1 .. t
      BY <1>1, <2>2
    <2>5. \A k \in b[n] + 1 .. t : ~ \E j \in 1 .. n : b[j] = k
      BY SMTT(30), <1>1, <2>2, <2>3
    <2>6. \A k \in b[n] + 1 .. t : ~Data(s, k)
      BY <2>4, <2>5 DEF Assembled, Collects
    <2> QED
      BY <2>2, <2>6
<1>3. ASSUME w.message_started, ~w.message
      PROVE  Open(s, t + 1)
  <2>1. n > 0
    BY <1>3 DEF Assembled
  <2>2. ~s[b[n]].fin
    BY <1>2, <1>3, <2>1 DEF Assembled
  <2>3. b[n] \in 1 .. (t + 1) - 1 /\ (t + 1) - 1 = t
    BY <1>1, <1>2, <2>1
  <2> QED
    BY <1>2, <2>1, <2>2, <2>3 DEF Open
<1>4. ASSUME Open(s, t + 1)
      PROVE  w.message_started /\ ~w.message
  <2>0. (t + 1) - 1 = t
    OBVIOUS
  <2>1. PICK j \in 1 .. t : /\ Data(s, j) /\ ~s[j].fin
                            /\ \A k \in j + 1 .. t : ~Data(s, k)
    BY <1>4, <2>0 DEF Open
  <2>2. j > lo
    <3>1. lo > 0 => Data(s, lo) /\ s[lo].fin
      BY DEF Assembled
    <3>2. j <= lo => lo > 0 /\ (j = lo \/ lo \in j + 1 .. t)
      BY <1>1
    <3> QED
      BY <1>1, <2>1, <3>1, <3>2
  <2>3. j \in lo + 1 .. t
    BY <1>1, <2>2
  <2>4. \E i \in 1 .. n : b[i] = j
    BY <2>1, <2>3 DEF Assembled, Collects
  <2>5. n > 0
    BY <1>1, <2>4
  <2>6. b[n] = j
    <3>1. \A i \in 1 .. n : b[i] <= b[n]
      BY <1>1, LastIsGreatest DEF Assembled
    <3>2. b[n] >= j /\ b[n] \in lo + 1 .. t
      BY <1>2, <2>4, <2>5, <3>1
    <3> QED
      BY <1>1, <1>2, <2>1, <2>5, <3>2
  <2> QED
    BY <2>1, <2>5, <2>6 DEF Assembled, LastOf
<1> QED
  BY <1>3, <1>4

\* A data frame that finds no complete message is appended to the message.
LEMMA AssembledData ==
  ASSUME NEW s, NEW w \in WsMsg, NEW r \in WsMsg, NEW lo, NEW t \in Nat,
         Assembled(s, t, w, lo), ~w.message, Data(s, t + 1),
         r.message_buffer = Append(w.message_buffer, t + 1),
         r.message_started, r.message <=> s[t + 1].fin,
         r.message_opcode = IF w.message_started THEN w.message_opcode
                            ELSE s[t + 1].op
  PROVE  Assembled(s, t + 1, r, lo)
<1> DEFINE b == w.message_buffer
           c == r.message_buffer
           n == Len(b)
<1>1. b \in Seq(Nat) /\ c \in Seq(Nat) /\ lo \in 0 .. t /\ n \in Nat
  BY DEF WsMsg, Assembled
<1>2. /\ Len(c) = n + 1 /\ c[n + 1] = t + 1
      /\ \A j \in 1 .. n : c[j] = b[j]
  BY <1>1
<1>3. /\ \A j \in 1 .. n : b[j] \in lo + 1 .. t
      /\ \A i, j \in 1 .. n : i < j => b[i] < b[j]
      /\ \A i \in lo + 1 .. t : Data(s, i) <=> \E j \in 1 .. n : b[j] = i
      /\ \A i \in lo + 1 .. t : Data(s, i) => ~s[i].fin
      /\ w.message_started <=> n > 0
      /\ w.message_started => w.message_opcode = s[b[1]].op
      /\ lo > 0 => Data(s, lo) /\ s[lo].fin
  BY DEF Assembled, Collects
<1> HIDE DEF b, c, n
<1>4. \A j \in 1 .. n + 1 : j \in 1 .. n \/ j = n + 1
  BY <1>1
<1>5. \A i \in lo + 1 .. t + 1 : i \in lo + 1 .. t \/ i = t + 1
  BY <1>1
<1>a. \A x \in lo + 1 .. t : x \in lo + 1 .. t + 1 /\ x < t + 1
  BY <1>1
<1>b. t + 1 \in lo + 1 .. t + 1
  BY <1>1
<1>c. \A j \in 1 .. n : c[j] \in lo + 1 .. t
  BY <1>2, <1>3
<1>6. \A j \in 1 .. n + 1 : c[j] \in lo + 1 .. t + 1
  BY <1>2, <1>4, <1>a, <1>b, <1>c
<1>7. ASSUME NEW i \in 1 .. n + 1, NEW j \in 1 .. n + 1, i < j
      PROVE  c[i] < c[j]
  <2>1. i \in 1 .. n
    BY <1>1, <1>7
  <2> QED
    <3>1. CASE j = n + 1
      BY <1>2, <1>a, <1>c, <2>1, <3>1
    <3>2. CASE j \in 1 .. n
      BY <1>2, <1>3, <1>7, <2>1, <3>2
    <3> QED
      BY <1>4, <3>1, <3>2
<1>8. ASSUME NEW i \in lo + 1 .. t + 1
      PROVE  Data(s, i) <=> \E j \in 1 .. n + 1 : c[j] = i
  <2>1. CASE i = t + 1
    BY <1>1, <1>2, <2>1
  <2>2. CASE i \in lo + 1 .. t
    <3>1. \A j \in 1 .. n : j \in 1 .. n + 1
      BY <1>1
    <3>2. i # t + 1
      BY <1>1, <2>2
    <3> QED
      BY SMTT(30), <1>2, <1>3, <1>4, <2>2, <3>1, <3>2
  <2> QED
    BY <1>5, <2>1, <2>2
<1>9. Collects(s, c, lo, t + 1)
  BY <1>2, <1>6, <1>7, <1>8 DEF Collects
<1>10. r.message_opcode = s[c[1]].op
  <2>1. CASE n = 0
    BY <1>2, <1>3, <2>1
  <2>2. CASE n > 0
    BY <1>1, <1>2, <1>3, <2>2
  <2> QED
    BY <1>1, <2>1, <2>2
<1>11. \A i \in lo + 1 .. t + 1 :
          Data(s, i) /\ s[i].fin => r.message /\ i = c[n + 1]
  BY <1>2, <1>3, <1>5
<1>12. lo \in 0 .. t + 1 /\ Len(c) > 0 /\ LastOf(c) = t + 1
  BY <1>1, <1>2 DEF LastOf
<1> QED
  BY <1>2, <1>3, <1>9, <1>10, <1>11, <1>12 DEF Assembled, c

\* A control frame leaves the message as it is.
LEMMA AssembledControl ==
  ASSUME NEW s, NEW w \in WsMsg, NEW r \in WsMsg, NEW lo, NEW t \in Nat,
         Assembled(s, t, w, lo), ~Data(s, t + 1),
         r.message_buffer = w.message_buffer,
         r.message_started = w.message_started, r.message = w.message,
         r.message_opcode = w.message_opcode
  PROVE  Assembled(s, t + 1, r, lo)
<1> DEFINE b == w.message_buffer
<1>1. b \in Seq(Nat) /\ lo \in 0 .. t
  BY DEF WsMsg, Assembled
<1>2. \A i \in lo + 1 .. t + 1 : i \in lo + 1 .. t \/ i = t + 1
  BY <1>1
<1>3. \A j \in 1 .. Len(b) : b[j] \in lo + 1 .. t
  BY DEF Assembled, Collects
<1>4. \A j \in 1 .. Len(b) : b[j] \in lo + 1 .. t + 1 /\ b[j] # t + 1
  BY <1>1, <1>3
<1>5. Collects(s, b, lo, t + 1)
  BY <1>2, <1>4 DEF Assembled, Collects
<1>6. lo \in 0 .. t + 1
  BY <1>1
<1> QED
  BY <1>2, <1>5, <1>6 DEF Assembled

\* A complete message is whole, and behind it nothing has been collected.
LEMMA AssembledDelivered ==
  ASSUME NEW s, NEW w \in WsMsg, NEW r \in WsMsg, NEW lo, NEW t \in Nat,
         Assembled(s, t, w, lo), w.message,
         r.message_buffer = <<>>, ~r.message_started, ~r.message
  PROVE  /\ Whole(s, [op |-> w.message_opcode, parts |-> w.message_buffer], lo)
         /\ LastOf(w.message_buffer) <= t
         /\ Assembled(s, t, r, LastOf(w.message_buffer))
<1> DEFINE b == w.message_buffer
           n == LastOf(b)
<1>1. b \in Seq(Nat) /\ lo \in 0 .. t /\ Len(b) \in Nat /\ Len(b) > 0
  BY DEF WsMsg, Assembled
<1>2. n \in lo + 1 .. t /\ n = b[Len(b)] /\ Data(s, n) /\ s[n].fin
  BY <1>1 DEF Assembled, Collects, LastOf
<1>3. /\ w.message_opcode = s[b[1]].op
      /\ \A j \in 1 .. Len(b) : b[j] \in lo + 1 .. t
      /\ \A i, j \in 1 .. Len(b) : i < j => b[i] < b[j]
      /\ \A i \in lo + 1 .. t : Data(s, i) <=> \E j \in 1 .. Len(b) : b[j] = i
      /\ \A i \in lo + 1 .. t : Data(s, i) /\ s[i].fin => i = n
  BY DEF Assembled, Collects
<1>4. \A j \in 1 .. Len(b) : b[j] <= n
  BY <1>1, <1>2, LastIsGreatest DEF Assembled
<1> HIDE DEF n
<1>5. \A j \in 1 .. Len(b) : b[j] \in lo + 1 .. n
  BY <1>1, <1>2, <1>3, <1>4
<1>6. \A i \in lo + 1 .. n : i \in lo + 1 .. t
  BY <1>1, <1>2
<1>7. Collects(s, b, lo, n)
  BY <1>3, <1>5, <1>6 DEF Collects
<1>8. \A i \in lo + 1 .. n - 1 : i \in lo + 1 .. t /\ i # n
  BY <1>1, <1>2
<1>9. Whole(s, [op |-> w.message_opcode, parts |-> b], lo)
  BY <1>1, <1>2, <1>3, <1>7, <1>8 DEF Whole, n
<1>10. \A i \in n + 1 .. t : ~Data(s, i)
  <2>1. \A i \in n + 1 .. t : i \in lo + 1 .. t
    BY <1>1, <1>2
  <2>2. \A i \in n + 1 .. t : ~ \E j \in 1 .. Len(b) : b[j] = i
    BY SMTT(30), <1>1, <1>2, <1>4, <1>5
  <2> QED
    BY <1>3, <2>1, <2>2
<1>11. Collects(s, <<>>, n, t)
  BY <1>10 DEF Collects
<1>12. n \in 0 .. t
  BY <1>1, <1>2
<1>13. Assembled(s, t, r, n)
  BY <1>2, <1>10, <1>11, <1>12 DEF Assembled
<1> QED
  BY <1>9, <1>12, <1>13 DEF n

-----------------------------------------------------------------------------
(***************************************************************************)
(* The invariant of reassembly                                             *)
(***************************************************************************)

\* FailsExactlyOnMalformed, of the stream s of which t frames are taken.
Verdict(s, t, w, m) ==
    ~m => IF w.error
          THEN ~Well(s, t) \/ (t < Len(s) /\ s[t + 1].op = "RSV")
          ELSE Well(s, t)

\* The messages of d are the first ones of the t frames taken from s.
AllWhole(s, t, d) ==
    \A m \in 1 .. Len(d) :
        /\ Before(d, m) \in Nat
        /\ Whole(s, d[m], Before(d, m))
        /\ LastOf(d[m].parts) <= t

\* As long as nothing has failed: the frames taken are well-formed exactly when
\* no data frame has met a complete message, and then message_buffer holds what
\* they have brought of the next message.  Of well-formed frames every message
\* delivered is whole, also after a failure.
Sound ==
    /\ Verdict(sent, taken, wsmsg, merged)
    /\ ~wsmsg.error /\ merged => ~Well(sent, taken)
    /\ ~wsmsg.error /\ ~merged =>
          Assembled(sent, taken, wsmsg, Before(delivered, Len(delivered) + 1))
    /\ Well(sent, taken) => AllWhole(sent, taken, delivered)

\* What is whole stays whole.
LEMMA AllWholeKept ==
  ASSUME NEW s, NEW r, NEW d \in Seq(Message), NEW t \in Nat, NEW n \in Nat,
         t <= n, \A i \in 1 .. t : r[i] = s[i], AllWhole(s, t, d)
  PROVE  AllWhole(r, n, d)
<1> SUFFICES ASSUME NEW m \in 1 .. Len(d)
             PROVE  /\ Before(d, m) \in Nat
                    /\ Whole(r, d[m], Before(d, m))
                    /\ LastOf(d[m].parts) <= n
  BY DEF AllWhole
<1>1. d[m] \in Message
  OBVIOUS
<1>2. /\ Before(d, m) \in Nat /\ Whole(s, d[m], Before(d, m))
      /\ LastOf(d[m].parts) <= t
  BY DEF AllWhole
<1>3. Whole(r, d[m], Before(d, m))
  BY <1>1, <1>2, WholeKept
<1>4. LastOf(d[m].parts) \in Nat
  BY <1>1, <1>2 DEF Whole, LastOf, Message
<1> QED
  BY <1>2, <1>3, <1>4

\* One more message.
LEMMA AllWholeAppend ==
  ASSUME NEW s, NEW d \in Seq(Message), NEW m \in Message, NEW t \in Nat,
         AllWhole(s, t, d), Before(d, Len(d) + 1) \in Nat,
         Whole(s, m, Before(d, Len(d) + 1)), LastOf(m.parts) <= t
  PROVE  AllWhole(s, t, Append(d, m))
<1> DEFINE e == Append(d, m)
           n == Len(d)
<1>1. n \in Nat /\ Len(e) = n + 1 /\ e[n + 1] = m /\ \A i \in 1 .. n : e[i] = d[i]
  OBVIOUS
<1> HIDE DEF e
<1>2. ASSUME NEW i \in 1 .. n + 1
      PROVE  Before(e, i) = Before(d, i)
  <2>1. i # 1 => i - 1 \in 1 .. n
    BY <1>1
  <2> QED
    BY <1>1, <2>1 DEF Before
<1>3. ASSUME NEW i \in 1 .. n + 1
      PROVE  /\ Before(e, i) \in Nat
             /\ Whole(s, e[i], Before(e, i))
             /\ LastOf(e[i].parts) <= t
  <2>1. CASE i = n + 1
    BY <1>1, <1>2, <2>1
  <2>2. CASE i \in 1 .. n
    BY <1>1, <1>2, <2>2 DEF AllWhole
  <2> QED
    BY <1>1, <2>1, <2>2
<1> QED
  BY <1>1, <1>3 DEF AllWhole, e

\* Where the messages end once one more is delivered.
LEMMA BeforeAppend ==
  ASSUME NEW d \in Seq(Message), NEW m \in Message
  PROVE  Before(Append(d, m), Len(Append(d, m)) + 1) = LastOf(m.parts)
<1> DEFINE e == Append(d, m)
<1>1. Len(d) \in Nat /\ Len(e) = Len(d) + 1 /\ e[Len(d) + 1] = m
  OBVIOUS
<1> HIDE DEF e
<1>2. Len(e) + 1 # 1 /\ (Len(e) + 1) - 1 = Len(d) + 1
  BY <1>1
<1> QED
  BY <1>1, <1>2 DEF Before, e

\* Sound is about the stream, what is delivered and what message_buffer holds.
LEMMA SoundSame ==
  ASSUME Sound, UNCHANGED <<sent, taken, delivered, merged>>,
         wsmsg'.error = wsmsg.error, wsmsg'.message = wsmsg.message,
         wsmsg'.message_buffer = wsmsg.message_buffer,
         wsmsg'.message_opcode = wsmsg.message_opcode,
         wsmsg'.message_started = wsmsg.message_started
  PROVE  Sound'
<1>1. \A lo : Assembled(sent, taken, wsmsg, lo) => Assembled(sent, taken, wsmsg', lo)
  BY DEF Assembled
<1> QED
  BY <1>1 DEF Sound, Verdict

\* A frame that is taken leaves what has been delivered.
LEMMA TakeWhole ==
  ASSUME TypeOK, Sound, UNCHANGED <<sent, delivered>>, taken' = taken + 1,
         taken < Len(sent)
  PROVE  Well(sent', taken') => AllWhole(sent', taken', delivered')
<1>1. taken \in Nat /\ delivered \in Seq(Message)
  BY DEF TypeOK
<1>2. Well(sent, taken + 1) => Well(sent, taken)
  BY <1>1, WellNext
<1>3. AllWhole(sent, taken, delivered) => AllWhole(sent, taken + 1, delivered)
  BY <1>1, AllWholeKept
<1> QED
  BY <1>2, <1>3 DEF Sound

\* A data frame: whether it fails or not, Sound is kept.
LEMMA DataSound ==
  ASSUME TypeOK, Flow, Sound, ProcessData
  PROVE  Sound'
<1> DEFINE t == taken
           lo == Before(delivered, Len(delivered) + 1)
<1>1. /\ t \in Nat /\ t < Len(sent) /\ wsmsg \in WsMsg /\ ~wsmsg.error
      /\ taken' = t + 1 /\ UNCHANGED <<sent, delivered>>
      /\ merged' = (merged \/ wsmsg.message) /\ merged \in BOOLEAN
  BY DEF ProcessData, Ready, Take, TypeOK, Flow
<1>2. Data(sent, t + 1) /\ Current = sent[t + 1]
  BY DEF ProcessData, Current, Data
<1>3. Well(sent', taken') => AllWhole(sent', taken', delivered')
  BY <1>1, TakeWhole
<1>4. Well(sent, t + 1) <=> Well(sent, t) /\ Proper(sent, t + 1)
  BY <1>1, WellNext
<1>5. merged => ~Well(sent, t + 1)
  BY <1>1, <1>4 DEF Sound
<1>6. ASSUME ~merged
      PROVE  /\ Assembled(sent, t, wsmsg, lo)
             /\ Well(sent, t)
             /\ wsmsg.message => wsmsg.message_started
             /\ Open(sent, t + 1) <=> wsmsg.message_started /\ ~wsmsg.message
  <2>1. Assembled(sent, t, wsmsg, lo) /\ Well(sent, t)
    BY <1>1, <1>6 DEF Sound, Verdict
  <2> QED
    BY <1>1, <2>1, OpenWhenStarted DEF Assembled
<1>7. Proper(sent, t + 1) <=> (Open(sent, t + 1) <=> sent[t + 1].op = "CONT")
  BY <1>2 DEF Proper, Data, Starting, Control
<1>8. CASE OutOfPlace
  <2>1. wsmsg'.error
    BY <1>1, <1>8, FailShape DEF ProcessData, Fail
  <2>2. ASSUME ~merged'
        PROVE  ~Well(sent, t + 1)
    <3>1. ~merged /\ ~wsmsg.message
      BY <1>1, <2>2
    <3>2. wsmsg.message_started \in BOOLEAN
      BY <1>1 DEF WsMsg
    <3>3. ~(wsmsg.message_started <=> sent[t + 1].op = "CONT")
      BY <1>2, <1>8, <3>2 DEF OutOfPlace
    <3> QED
      BY <1>4, <1>6, <1>7, <3>1, <3>3
  <2>3. Verdict(sent', taken', wsmsg', merged')
    BY <1>1, <2>1, <2>2 DEF Verdict
  <2> QED
    BY <1>3, <2>1, <2>3 DEF Sound
<1>9. CASE ~OutOfPlace
  <2>1. LET r == wsmsg'
        IN  /\ r \in WsMsg
            /\ ~r.error
            /\ r.message = (wsmsg.message \/ Current.fin)
            /\ r.message_buffer = Append(wsmsg.message_buffer, t + 1)
            /\ r.message_opcode = IF wsmsg.message_started
                                  THEN wsmsg.message_opcode ELSE Current.op
            /\ r.message_started
    BY <1>1, <1>9, AppendShape DEF ProcessData
  <2>2. wsmsg.message_started <=> sent[t + 1].op = "CONT"
    BY <1>2, <1>9 DEF OutOfPlace
  <2>3. ASSUME merged'
        PROVE  ~Well(sent, t + 1)
    BY <1>1, <1>4, <1>5, <1>6, <1>7, <2>2, <2>3
  <2>4. ASSUME ~merged'
        PROVE  Well(sent, t + 1) /\ Assembled(sent, t + 1, wsmsg', lo)
    <3>1. ~merged /\ ~wsmsg.message
      BY <1>1, <2>4
    <3>2. Well(sent, t + 1)
      BY <1>4, <1>6, <1>7, <2>2, <3>1
    <3>3. Assembled(sent, t + 1, wsmsg', lo)
      BY <1>1, <1>2, <1>6, <2>1, <3>1, AssembledData
    <3> QED
      BY <3>2, <3>3
  <2> QED
    BY <1>1, <1>3, <2>1, <2>3, <2>4 DEF Sound, Verdict
<1> QED
  BY <1>8, <1>9

\* A control frame, in place or fragmented.
LEMMA ControlSound ==
  ASSUME TypeOK, Flow, Sound, ProcessControl
  PROVE  Sound'
<1> DEFINE t == taken
           lo == Before(delivered, Len(delivered) + 1)
<1>1. /\ t \in Nat /\ t < Len(sent) /\ wsmsg \in WsMsg /\ ~wsmsg.error
      /\ taken' = t + 1 /\ UNCHANGED <<sent, delivered, merged>>
  BY DEF ProcessControl, Ready, Take, TypeOK, Flow
<1>2. ~Data(sent, t + 1) /\ sent[t + 1].op \in Control /\ sent[t + 1].op # "RSV"
  BY DEF ProcessControl, Current, Data, Starting, Control
<1>3. Well(sent', taken') => AllWhole(sent', taken', delivered')
  BY <1>1, TakeWhole
<1>4. Well(sent, t + 1) <=> Well(sent, t) /\ sent[t + 1].fin
  BY <1>1, <1>2, WellNext DEF Proper
<1>5. CASE sent[t + 1].fin
  <2>0. t + 1 \in Nat
    BY <1>1
  <2>1. LET r == wsmsg'
        IN  /\ r \in WsMsg /\ ~r.error
            /\ r.message = wsmsg.message
            /\ r.message_buffer = wsmsg.message_buffer
            /\ r.message_opcode = wsmsg.message_opcode
            /\ r.message_started = wsmsg.message_started
    <3>1. wsmsg' = [wsmsg EXCEPT !.frame = TRUE, !.frame_data = t + 1]
      BY <1>5 DEF ProcessControl, Current
    <3> QED
      BY <1>1, <2>0, <3>1, ControlShape
  <2>2. Assembled(sent, t, wsmsg, lo) => Assembled(sent, t + 1, wsmsg', lo)
    BY <1>1, <1>2, <2>1, AssembledControl
  <2> QED
    BY <1>1, <1>3, <1>4, <1>5, <2>1, <2>2 DEF Sound, Verdict
<1>6. CASE ~sent[t + 1].fin
  <2>1. wsmsg'.error
    BY <1>1, <1>6, FailShape DEF ProcessControl, Current, Fail
  <2>2. Verdict(sent', taken', wsmsg', merged')
    BY <1>1, <1>4, <1>6, <2>1 DEF Verdict
  <2> QED
    BY <1>3, <2>1, <2>2 DEF Sound
<1> QED
  BY <1>5, <1>6

\* A message that is handed out.
LEMMA MessageSound ==
  ASSUME TypeOK, Sound, LoopMessage
  PROVE  Sound'
<1> DEFINE t == taken
           lo == Before(delivered, Len(delivered) + 1)
           m == [op |-> wsmsg.message_opcode, parts |-> wsmsg.message_buffer]
<1>1. /\ t \in Nat /\ wsmsg \in WsMsg /\ ~wsmsg.error /\ wsmsg.message
      /\ delivered \in Seq(Message) /\ delivered' = Append(delivered, m)
      /\ UNCHANGED <<sent, taken, merged>>
  BY DEF LoopMessage, TypeOK
<1>2. /\ wsmsg' \in WsMsg /\ ~wsmsg'.error
      /\ ~wsmsg'.message /\ ~wsmsg'.message_started
      /\ wsmsg'.message_buffer = <<>>
  BY <1>1, GetMessageShape DEF LoopMessage, Process
<1>3. m \in Message
  BY <1>1 DEF WsMsg, Message
<1>4. ASSUME ~merged
      PROVE  /\ Assembled(sent, t, wsmsg', LastOf(m.parts))
             /\ AllWhole(sent, t, delivered')
  <2>1. Assembled(sent, t, wsmsg, lo) /\ AllWhole(sent, t, delivered)
    BY <1>1, <1>4 DEF Sound, Verdict
  <2>2. lo \in Nat
    BY <1>1, <2>1 DEF Assembled
  <2>3. /\ Whole(sent, m, lo) /\ LastOf(m.parts) <= t
        /\ Assembled(sent, t, wsmsg', LastOf(m.parts))
    BY <1>1, <1>2, <2>1, AssembledDelivered
  <2> HIDE DEF m
  <2>4. AllWhole(sent, t, Append(delivered, m))
    BY <1>1, <1>3, <2>1, <2>2, <2>3, AllWholeAppend
  <2> QED
    BY <1>1, <2>3, <2>4
<1> HIDE DEF m
<1>5. Before(delivered', Len(delivered') + 1) = LastOf(m.parts)
  BY <1>1, <1>3, BeforeAppend
<1> QED
  BY <1>1, <1>2, <1>4, <1>5 DEF Sound, Verdict

\* More frames arrive.
LEMMA ReadSound ==
  ASSUME TypeOK, Sound, Read
  PROVE  Sound'
<1> DEFINE t == taken
           lo == Before(delivered, Len(delivered) + 1)
<1>1. /\ t \in Nat /\ wsmsg \in WsMsg /\ delivered \in Seq(Message)
      /\ UNCHANGED <<wsmsg, taken, delivered, merged>>
  BY DEF TypeOK, Read, Process
<1>2. /\ \A i \in 1 .. t : sent'[i] = sent[i]
      /\ t < Len(sent) => t < Len(sent') /\ sent'[t + 1] = sent[t + 1]
  BY ReadShape DEF TypeOK
<1>3. Well(sent', t) <=> Well(sent, t)
  BY <1>1, <1>2, WellKept
<1>4. AllWhole(sent, t, delivered) => AllWhole(sent', t, delivered)
  BY <1>1, <1>2, AllWholeKept
<1>5. Assembled(sent, t, wsmsg, lo) => Assembled(sent', t, wsmsg, lo)
  BY <1>1, <1>2, AssembledKept
<1>6. Verdict(sent', taken', wsmsg', merged')
  BY <1>1, <1>2, <1>3 DEF Sound, Verdict
<1> QED
  BY <1>1, <1>3, <1>4, <1>5, <1>6 DEF Sound

\* Every step keeps Sound.
LEMMA SoundStep ==
  ASSUME TypeOK, Flow, Sound, [Next]_vars
  PROVE  Sound'
<1>w. wsmsg \in WsMsg
  BY DEF TypeOK
<1>1. CASE Read
  BY <1>1, ReadSound
<1>2. CASE ProcessBuilding \/ LoopFail \/ LoopDone \/ UNCHANGED vars
  BY <1>2, SoundSame DEF ProcessBuilding, LoopFail, LoopDone, vars
<1>3. CASE ProcessRsv
  <2>1. /\ wsmsg'.error /\ taken < Len(sent) /\ sent[taken + 1].op = "RSV"
        /\ UNCHANGED <<sent, taken, delivered, merged>>
    BY <1>3, <1>w, FailShape DEF ProcessRsv, Ready, Current, Fail
  <2> QED
    BY <2>1 DEF Sound, Verdict
<1>4. CASE ProcessControl
  BY <1>4, ControlSound
<1>5. CASE ProcessData
  BY <1>5, DataSound
<1>6. CASE LoopFrame
  BY <1>6, <1>w, GetFrameShape, SoundSame DEF LoopFrame, Process
<1>7. CASE LoopMessage
  BY <1>7, MessageSound
<1> QED
  BY <1>1, <1>2, <1>3, <1>4, <1>5, <1>6, <1>7 DEF Next

\* Nothing has been taken at the start.
LEMMA SoundInit == Init => Sound
<1> SUFFICES ASSUME Init PROVE Sound
  OBVIOUS
<1>1. /\ Len(sent) = 0 /\ taken = 0 /\ ~merged /\ Len(delivered) = 0
      /\ ~wsmsg.error /\ ~wsmsg.message /\ ~wsmsg.message_started
      /\ Len(wsmsg.message_buffer) = 0
  BY DEF Init, wsmsg_create
<1>2. Before(delivered, Len(delivered) + 1) = 0
  BY <1>1 DEF Before
<1>3. Well(sent, taken) /\ AllWhole(sent, taken, delivered)
  BY <1>1 DEF Well, AllWhole
<1>4. Assembled(sent, taken, wsmsg, 0)
  BY <1>1 DEF Assembled, Collects
<1> QED
  BY <1>1, <1>2, <1>3, <1>4 DEF Sound, Verdict

\* Sound always holds.
LEMMA SoundCorrect == Spec => []Sound
  BY SoundInit, SoundStep, FlowCorrect, PTL DEF Spec

\* Unless a data frame meets a complete message, the first malformed frame
\* fails and no other does.
THEOREM FailureIsExact == Spec => []FailsExactlyOnMalformed
<1>1. Sound => FailsExactlyOnMalformed
  BY SameWords DEF Sound, Verdict, FailsExactlyOnMalformed, Current
<1> QED
  BY <1>1, SoundCorrect, PTL

\* The messages of a well-formed stream are delivered whole and in order,
\* whatever the reads and the control frames between their frames.
THEOREM MessagesWhole == Spec => []DeliveredInOrder
<1>1. ASSUME TypeOK, Sound, WellFormed(Len(sent)), NEW m \in 1 .. Len(delivered)
      PROVE  LET parts == delivered[m].parts
                 first == parts[1]
                 last  == parts[Len(parts)]
                 before == IF m = 1 THEN 0
                           ELSE delivered[m - 1].parts[Len(delivered[m - 1].parts)]
             IN  /\ Len(parts) > 0
                 /\ delivered[m].op = sent[first].op
                 /\ sent[last].fin
                 /\ \A i, j \in 1 .. Len(parts) : i < j => parts[i] < parts[j]
                 /\ \A i \in before + 1 .. last :
                       IsData(i) <=> \E j \in 1 .. Len(parts) : parts[j] = i
                 /\ \A i \in first .. last - 1 : IsData(i) => ~sent[i].fin
  <2> DEFINE parts == delivered[m].parts
             last  == LastOf(parts)
             lo == Before(delivered, m)
  <2>1. Well(sent, taken)
    BY <1>1, SameWords, WellPrefix DEF TypeOK
  <2>2. lo \in Nat /\ Whole(sent, delivered[m], lo)
    BY <1>1, <2>1 DEF Sound, AllWhole
  <2>3. delivered[m] \in Message
    BY <1>1 DEF TypeOK
  <2>4. parts \in Seq(Nat) /\ Len(parts) \in Nat /\ Len(parts) > 0
    BY <2>2, <2>3 DEF Whole, Message
  <2>5. parts[1] \in lo + 1 .. last
    BY <2>2, <2>4 DEF Whole, Collects
  <2>6. last \in Nat
    BY <2>4 DEF LastOf
  <2>7. \A i \in parts[1] .. last - 1 : i \in lo + 1 .. last - 1
    BY <2>2, <2>5, <2>6
  <2> QED
    BY <2>2, <2>4, <2>7 DEF Whole, Collects, IsData, Data, Before, LastOf
<1>2. TypeOK /\ Sound => DeliveredInOrder
  BY <1>1 DEF DeliveredInOrder
<1> QED
  BY <1>2, SoundCorrect, TypeCorrect, PTL

=============================================================================
