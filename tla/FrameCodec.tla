------------------------------ MODULE FrameCodec ------------------------------
(***************************************************************************)
(* One WebSocket frame on the wire: the header that wsconn_write_frame     *)
(* (wsserver.c) puts before a payload, and what get_frame (wsmessage.c)    *)
(* reads back while the bytes arrive in pieces.                            *)
(*                                                                         *)
(* Header bytes are numbers; the masking key and the payload are counted,  *)
(* not written out.  Frames to the browser are written by the server and   *)
(* not masked; frames from the browser are masked and encoded as RFC 6455  *)
(* asks.  The host is little-endian, as the x86 hosts jabsocket runs on.   *)
(***************************************************************************)
EXTENDS Naturals, Sequences

CONSTANTS
    ServerLengths,  \* payload lengths of frames the server writes
    ClientLengths,  \* payload lengths of frames the browser writes
    Opcodes

ASSUME LengthsAssumption ==
    /\ ServerLengths \subseteq Nat
    /\ \A n \in ClientLengths : n \in Nat /\ n <= 2147483647

ASSUME OpcodesAssumption == Opcodes \subseteq 0 .. 15

VARIABLES
    frame,      \* the frame being sent: what the peer should see
    bytes,      \* its header as written
    size,       \* the payload bytes that follow the header (and the key)
    arrived,    \* how many bytes of it are in the reader's frame_buffer
    result      \* what the last get_frame returned

vars == <<frame, bytes, size, arrived, result>>

Byte == 0 .. 255
Bit  == {0, 1}

Building == [status |-> "BUILDING", fin |-> 0, opcode |-> 0, mask |-> 0,
             length |-> 0, frame_length |-> 0]

-----------------------------------------------------------------------------
(***************************************************************************)
(* The writer                                                              *)
(***************************************************************************)

\* The capacity of data_buffer in cm_readcb: a stanza is cut to it.
Capacity == 65536

data_set_data(n) == IF n >= Capacity THEN Capacity ELSE n

\* Seeded fault: one byte is used for lengths it cannot hold.
wsconn_write_frame_Short(opcode, n) ==
    IF n <= 300 THEN <<128 + opcode, n>>
    ELSE <<128 + opcode, 126, (n % 65536) \div 256, n % 256>>

\* The header.  The second form is used up to (2 << 16) - 2, and holds the low
\* 16 bits of the length.  In the third, htons leaves the low 16 bits of the
\* length, swapped, in the low half of a uint32_t, which memcpy puts first.
wsconn_write_frame(opcode, n) ==
    LET high == (n % 65536) \div 256
        low  == n % 256
    IN  IF n <= 125 THEN <<128 + opcode, n>>
        ELSE IF n < 131071 THEN <<128 + opcode, 126, high, low>>
        ELSE <<128 + opcode, 127, 0, 0, 0, 0, high, low, 0, 0>>

\* The header of a masked frame as RFC 6455 5.2 defines it.
ClientHeader(opcode, fin, n) ==
    LET b0 == 128 * fin + opcode
    IN  IF n <= 125 THEN <<b0, 128 + n>>
        ELSE IF n <= 65535 THEN <<b0, 254, n \div 256, n % 256>>
        ELSE <<b0, 255, 0, 0, 0, 0, n \div 16777216, (n \div 65536) % 256,
               (n \div 256) % 256, n % 256>>

-----------------------------------------------------------------------------
(***************************************************************************)
(* The reader                                                              *)
(***************************************************************************)

\* Seeded fault: the masking key is not counted.
get_frame_NoKey(b, length) ==
    LET short   == b[2] % 128
        header  == CASE short = 126 -> 4 [] short = 127 -> 10 [] OTHER -> 2
        message == CASE short = 126 -> b[3] * 256 + b[4]
                     [] short = 127 -> b[7] * 16777216 + b[8] * 65536
                                         + b[9] * 256 + b[10]
                     [] OTHER -> short
    IN  IF length < 2 \/ length < header \/ header + message > length
        THEN Building
        ELSE [status |-> "READY", fin |-> b[1] \div 128, opcode |-> b[1] % 16,
              mask |-> b[2] \div 128, length |-> message,
              frame_length |-> header + message]

\* Seeded fault: the last byte of the frame is waited for in vain.
get_frame_Late(b, length) ==
    LET short   == b[2] % 128
        header  == CASE short = 126 -> 4 [] short = 127 -> 10 [] OTHER -> 2
        message == CASE short = 126 -> b[3] * 256 + b[4]
                     [] short = 127 -> b[7] * 16777216 + b[8] * 65536
                                         + b[9] * 256 + b[10]
                     [] OTHER -> short
        frame_length == header + message + 4 * (b[2] \div 128)
    IN  IF length < 2 \/ length < header \/ frame_length >= length
        THEN Building
        ELSE [status |-> "READY", fin |-> b[1] \div 128, opcode |-> b[1] % 16,
              mask |-> b[2] \div 128, length |-> message,
              frame_length |-> frame_length]

\* get_frame on a frame_buffer that holds the first `length' bytes of a frame
\* with header b.  A header with RSV bits is not written by either writer.
get_frame(b, length) ==
    LET short   == b[2] % 128
        header  == CASE short = 126 -> 4 [] short = 127 -> 10 [] OTHER -> 2
        message == CASE short = 126 -> b[3] * 256 + b[4]
                     [] short = 127 -> b[7] * 16777216 + b[8] * 65536
                                         + b[9] * 256 + b[10]
                     [] OTHER -> short
        frame_length == header + message + 4 * (b[2] \div 128)
    IN  IF length < 2 \/ length < header \/ frame_length > length
        THEN Building
        ELSE [status |-> "READY", fin |-> b[1] \div 128, opcode |-> b[1] % 16,
              mask |-> b[2] \div 128, length |-> message,
              frame_length |-> frame_length]

-----------------------------------------------------------------------------
(***************************************************************************)
(* Actions                                                                 *)
(***************************************************************************)

\* The bytes of the frame, the header, the masking key and the payload.
Total == Len(bytes) + size + 4 * frame.mask

\* The reader is done with the frame before.
Idle == arrived = Total

Start(f, b, n) ==
    /\ frame' = f
    /\ bytes' = b
    /\ size' = n
    /\ arrived' = 0
    /\ result' = Building

\* cm_readcb sends a stanza of n bytes: wsconn_write, opcode 1.
WriteText ==
    /\ Idle
    /\ \E n \in ServerLengths :
          Start([fin |-> 1, opcode |-> 1, mask |-> 0, length |-> n],
                wsconn_write_frame(1, data_set_data(n)), data_set_data(n))

\* wsconn_process_frame answers a Ping of n bytes, or a closing handshake.
WriteControl ==
    /\ Idle
    /\ \E n \in ServerLengths, opcode \in {8, 10} :
          Start([fin |-> 1, opcode |-> opcode, mask |-> 0, length |-> n],
                wsconn_write_frame(opcode, n), n)

\* The browser sends a frame.
ClientWrite ==
    /\ Idle
    /\ \E n \in ClientLengths, opcode \in Opcodes, fin \in Bit :
          Start([fin |-> fin, opcode |-> opcode, mask |-> 1, length |-> n],
                ClientHeader(opcode, fin, n), n)

\* Where a read may end: anywhere in the header and the key, just before the
\* last byte, and at the end; nowhere else does get_frame behave differently.
Pieces == (1 .. Len(bytes) + 5) \cup {Total - 1, Total}

\* wsmsg_add: more bytes arrive and get_frame looks at what is there.
Arrive ==
    /\ result.status = "BUILDING"
    /\ \E n \in Pieces :
          /\ arrived < n /\ n <= Total
          /\ arrived' = n
          /\ result' = get_frame(bytes, n)
    /\ UNCHANGED <<frame, bytes, size>>

Init ==
    /\ frame = [fin |-> 1, opcode |-> 1, mask |-> 0, length |-> 0]
    /\ bytes = wsconn_write_frame(1, 0)
    /\ size = 0
    /\ arrived = 0
    /\ result = Building

Next == WriteText \/ WriteControl \/ ClientWrite \/ Arrive

Spec == Init /\ [][Next]_vars

-----------------------------------------------------------------------------
(***************************************************************************)
(* Properties                                                              *)
(***************************************************************************)

\* Header bytes are bytes.
TypeOK ==
    /\ frame \in [fin : Bit, opcode : 0 .. 15, mask : Bit, length : Nat]
    /\ bytes \in Seq(Byte)
    /\ size \in Nat
    /\ arrived \in Nat
    /\ result \in [status : {"BUILDING", "READY"}, fin : Bit,
                   opcode : 0 .. 15, mask : Bit, length : Nat,
                   frame_length : Nat]

\* However a frame is cut into pieces, get_frame reports it only once all of it
\* has arrived, with the FIN bit, opcode, mask and length that were sent, and
\* takes exactly its bytes from frame_buffer: the next frame begins where it
\* should.
DecodedAsSent ==
    result.status = "READY" =>
        /\ arrived = Total
        /\ result.frame_length = Total
        /\ [fin |-> result.fin, opcode |-> result.opcode,
            mask |-> result.mask, length |-> result.length] = frame

\* A frame that has arrived is reported: get_frame does not wait for bytes that
\* never come.
CompleteIsReady == arrived = Total => result.status = "READY"

=============================================================================
