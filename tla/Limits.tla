------------------------------- MODULE Limits --------------------------------
(***************************************************************************)
(* max_frame_size and max_message_size: the limited buffer_t (util.c) in   *)
(* the three places where wsmsg_t (wsmessage.c) uses it, with the loop of  *)
(* wsconn_process_frame that empties them.                                 *)
(*                                                                         *)
(* Bytes are counted.  A frame has a header (with its masking key) of      *)
(* Header bytes and a payload.  A buffer_t that is full keeps what fits    *)
(* and drops the rest, and reports it only when nothing fits; the return   *)
(* value of wsmsg_add is not looked at.  Once bytes of the stream are      *)
(* dropped, what get_frame reads after them is not modelled ("garbled").   *)
(***************************************************************************)
EXTENDS Naturals, Sequences, SequencesExt, FiniteSetsExt

CONSTANTS
    Header,         \* bytes of a header and its masking key
    MaxFrame,       \* conf->max_frame_size
    MaxMessage,     \* conf->max_message_size
    Sizes,          \* the payload sizes the browser uses
    MaxSent         \* bound: frames the browser sends

ASSUME LimitsAssumption ==
    /\ Header \in Nat \ {0} /\ MaxSent \in Nat
    /\ MaxFrame \in Nat \ {0} /\ MaxMessage \in Nat \ {0}
    /\ Sizes \subseteq Nat

VARIABLES
    sent,           \* the frames of the browser
    arrived,        \* bytes of them that have been read from the socket
    taken,          \* frames that get_frame has taken
    frame_buffer,   \* bytes in frame_buffer
    valid,          \* those of them that come before any byte that was dropped
    message_buffer, \* bytes in message_buffer
    parts,          \* the frames they come from
    wsmsg,          \* the flags of the wsmsg_t
    pc,             \* where wsconn_process_frame is
    pinged,         \* the loop has broken off after a Ping
    dropped,        \* bytes of the stream were dropped
    delivered       \* the messages handed out: their frames and their bytes

vars == <<sent, arrived, taken, frame_buffer, valid, message_buffer, parts,
          wsmsg, pc, pinged, dropped, delivered>>

\* A Ping, or a frame of a message; the stream is well-formed.
Frame == {f \in [ping : BOOLEAN, fin : BOOLEAN, size : Sizes] : f.ping => f.fin}

wsmsg_create == [frame |-> FALSE, message |-> FALSE, error |-> FALSE]

-----------------------------------------------------------------------------
(***************************************************************************)
(* buffer_t with a limit                                                   *)
(***************************************************************************)

\* Seeded fault: the limit is not applied.
buffer_append_Unlimited(length, n, max_length) == length + n

\* The length of a buffer of `length' bytes after n bytes are appended.
buffer_append(length, n, max_length) == Min({length + n, max_length})

\* Seeded fault: a full buffer is no error.
Appends_Always(length, n, max_length) == TRUE

\* Its return value.
Appends(length, n, max_length) == n = 0 \/ length < max_length

buffer_set_data(n, max_length) == buffer_append(0, n, max_length)

\* Seeded fault: the source keeps its bytes.
buffer_move_Copied(length) == length

\* What buffer_move leaves in the source; the destination has no limit.
buffer_move(length) == 0

-----------------------------------------------------------------------------
(***************************************************************************)
(* The stream                                                              *)
(***************************************************************************)

Total(f) == Header + f.size

\* The sum of a sequence of numbers.
SumSeq(s) == FoldLeft(LAMBDA n, x : n + x, 0, s)

Bytes(frames) == SumSeq([i \in 1 .. Len(frames) |-> Total(frames[i])])

\* wsmsg_create: frame_buffer is twice as large as a payload may be.
Room == 2 * MaxFrame

Waiting == wsmsg.frame \/ wsmsg.message \/ wsmsg.error

\* get_frame has a whole frame.
Ready == taken < Len(sent) /\ frame_buffer >= Total(sent[taken + 1])

\* It would read bytes that come after a gap.
Gap ==
    /\ frame_buffer > valid
    /\ taken < Len(sent) => valid < Total(sent[taken + 1])

-----------------------------------------------------------------------------
(***************************************************************************)
(* Actions                                                                 *)
(***************************************************************************)

\* evbuffer_remove and wsmsg_add: n bytes, of which some may not fit.
wsmsg_add(n) ==
    /\ arrived' = arrived + n
    /\ frame_buffer' = buffer_append(frame_buffer, n, Room)
    /\ valid' = IF dropped THEN valid ELSE frame_buffer'
    /\ dropped' = (dropped \/ frame_buffer' # frame_buffer + n)
    /\ pc' = IF Appends(frame_buffer, n, Room) /\ ~Waiting THEN "process" ELSE "loop"
    /\ pinged' = FALSE
    /\ UNCHANGED <<sent, taken, message_buffer, parts, wsmsg, delivered>>

Read ==
    /\ pc = "idle"
    /\ \E n \in 1 .. Bytes(sent) - arrived : wsmsg_add(n)

\* FS_BUILDING.
ProcessBuilding ==
    /\ pc = "process"
    /\ ~Ready /\ ~Gap
    /\ pc' = IF pinged THEN "idle" ELSE "loop"
    /\ UNCHANGED <<sent, arrived, taken, frame_buffer, valid, message_buffer,
                   parts, wsmsg, pinged, dropped, delivered>>

\* The bytes after a gap are taken for a frame.
ProcessGap ==
    /\ pc = "process"
    /\ Gap
    /\ pc' = "garbled"
    /\ UNCHANGED <<sent, arrived, taken, frame_buffer, valid, message_buffer,
                   parts, wsmsg, pinged, dropped, delivered>>

\* FS_READY: the frame leaves frame_buffer.
Take ==
    /\ pc = "process"
    /\ Ready /\ ~Gap
    /\ taken' = taken + 1
    /\ frame_buffer' = frame_buffer - Total(sent[taken + 1])
    /\ valid' = valid - Total(sent[taken + 1])
    /\ UNCHANGED <<sent, arrived, pinged, dropped, delivered>>

ProcessPing ==
    /\ Take
    /\ sent[taken + 1].ping
    /\ wsmsg' = [wsmsg EXCEPT !.frame = TRUE]
    /\ pc' = IF pinged THEN "idle" ELSE "loop"
    /\ UNCHANGED <<message_buffer, parts>>

\* message_started is still set while a message waits: the first frame of the
\* next one is out of place.
OutOfPlace == wsmsg.message

\* A data frame: frame_data takes the payload, message_buffer takes frame_data.
ProcessData ==
    /\ Take
    /\ ~sent[taken + 1].ping
    /\ LET data == buffer_set_data(sent[taken + 1].size, MaxFrame)
           fin  == sent[taken + 1].fin
       IN  IF OutOfPlace \/ ~Appends(message_buffer, data, MaxMessage)
           THEN /\ wsmsg' = [wsmsg EXCEPT !.error = TRUE]
                /\ pc' = IF pinged THEN "idle" ELSE "loop"
                /\ UNCHANGED <<message_buffer, parts>>
           ELSE /\ message_buffer' = buffer_append(message_buffer, data, MaxMessage)
                /\ parts' = Append(parts, taken + 1)
                /\ wsmsg' = [wsmsg EXCEPT !.message = fin]
                /\ UNCHANGED pc

\* wsmsg_fail: wsconn_close.
LoopFail ==
    /\ pc = "loop"
    /\ wsmsg.error
    /\ pc' = "closed"
    /\ UNCHANGED <<sent, arrived, taken, frame_buffer, valid, message_buffer,
                   parts, wsmsg, pinged, dropped, delivered>>

\* A Ping is answered and the loop broken off.
LoopPing ==
    /\ pc = "loop"
    /\ ~wsmsg.error /\ wsmsg.frame
    /\ wsmsg' = [wsmsg EXCEPT !.frame = FALSE]
    /\ pinged' = TRUE
    /\ pc' = IF wsmsg.message THEN "idle" ELSE "process"
    /\ UNCHANGED <<sent, arrived, taken, frame_buffer, valid, message_buffer,
                   parts, dropped, delivered>>

\* Seeded fault: _wsmsg_process is not called after the message is moved.
LoopMessage_NoProcess ==
    /\ pc = "loop"
    /\ ~wsmsg.error /\ ~wsmsg.frame /\ wsmsg.message
    /\ delivered' = Append(delivered, [parts |-> parts, length |-> message_buffer])
    /\ message_buffer' = buffer_move(message_buffer)
    /\ parts' = <<>>
    /\ wsmsg' = [wsmsg EXCEPT !.message = FALSE]
    /\ pc' = "loop"
    /\ UNCHANGED <<sent, arrived, taken, frame_buffer, valid, pinged, dropped>>

\* wsmsg_get_message: the message is moved out.
LoopMessage ==
    /\ pc = "loop"
    /\ ~wsmsg.error /\ ~wsmsg.frame /\ wsmsg.message
    /\ delivered' = Append(delivered, [parts |-> parts, length |-> message_buffer])
    /\ message_buffer' = buffer_move(message_buffer)
    /\ parts' = <<>>
    /\ wsmsg' = [wsmsg EXCEPT !.message = FALSE]
    /\ pc' = "process"
    /\ UNCHANGED <<sent, arrived, taken, frame_buffer, valid, pinged, dropped>>

LoopDone ==
    /\ pc = "loop"
    /\ ~Waiting
    /\ pc' = "idle"
    /\ UNCHANGED <<sent, arrived, taken, frame_buffer, valid, message_buffer,
                   parts, wsmsg, pinged, dropped, delivered>>

Init ==
    /\ sent \in UNION {[1 .. n -> Frame] : n \in 1 .. MaxSent}
    /\ arrived = 0 /\ taken = 0
    /\ frame_buffer = 0 /\ valid = 0
    /\ message_buffer = 0 /\ parts = <<>>
    /\ wsmsg = wsmsg_create
    /\ pc = "idle"
    /\ pinged = FALSE /\ dropped = FALSE
    /\ delivered = <<>>

Next ==
    \/ Read
    \/ ProcessBuilding \/ ProcessGap \/ ProcessPing \/ ProcessData
    \/ LoopFail \/ LoopPing \/ LoopMessage \/ LoopDone

Spec == Init /\ [][Next]_vars

-----------------------------------------------------------------------------
(***************************************************************************)
(* Properties                                                              *)
(***************************************************************************)

\* The payload bytes of the frames numbered in p.
Payload(p) == SumSeq([i \in 1 .. Len(p) |-> sent[p[i]].size])

\* Types, and that no buffer outgrows its limit.
TypeOK ==
    /\ taken \in 0 .. Len(sent)
    /\ arrived \in 0 .. Bytes(sent)
    /\ frame_buffer \in 0 .. Room
    /\ valid \in 0 .. frame_buffer
    /\ message_buffer \in 0 .. MaxMessage
    /\ pc \in {"idle", "process", "loop", "closed", "garbled"}

\* A message is handed out whole exactly if each of its frames keeps to
\* max_frame_size and all of it to max_message_size.
WholeWithinLimits ==
    \A m \in 1 .. Len(delivered) :
        LET p == delivered[m].parts
        IN  delivered[m].length = Payload(p) <=>
                /\ \A i \in 1 .. Len(p) : sent[p[i]].size <= MaxFrame
                /\ Payload(p) <= MaxMessage

\* The bytes that frame_data keeps of the first n frames of p.
Kept(p, n) == SumSeq([i \in 1 .. n |-> Min({sent[p[i]].size, MaxFrame})])

\* Once message_buffer is full the next payload is an error: what is handed out
\* may be cut in its last frame and never lacks a whole frame.
CutOnlyAtTheEnd ==
    \A m \in 1 .. Len(delivered) :
        LET p == delivered[m].parts
        IN  \A j \in 1 .. Len(p) : sent[p[j]].size > 0 => Kept(p, j - 1) < MaxMessage

\* As long as no read was larger than the room in frame_buffer, and unless the
\* loop broke off after a Ping, all that is left in frame_buffer between two
\* reads is the beginning of a frame; and it fills frame_buffer, so that the
\* connection is stuck, only if that frame is larger than frame_buffer.
StuckOnlyOnLargeFrame ==
    pc = "idle" /\ ~dropped /\ ~pinged =>
        /\ ~Waiting
        /\ frame_buffer = arrived - Bytes(SubSeq(sent, 1, taken))
        /\ taken < Len(sent) => frame_buffer < Total(sent[taken + 1])
        /\ frame_buffer = Room => Total(sent[taken + 1]) > Room

=============================================================================
