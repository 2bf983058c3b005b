--------------------------- MODULE FrameCodecProofs ---------------------------
(***************************************************************************)
(* Proofs about FrameCodec: get_frame inverts both writers, for every      *)
(* length up to 65535 from the server and below 2^31 from the browser, and *)
(* however the bytes of a frame are cut.                                   *)
(***************************************************************************)
EXTENDS FrameCodec, TLAPS

\* The longest payload of the server's two-byte length, and of the browser.
MaxServer == 65535
MaxClient == 2147483647

\* What get_frame reports of a complete frame.
Ready(fin, opcode, mask, n, total) ==
    [status |-> "READY", fin |-> fin, opcode |-> opcode,
     mask |-> mask, length |-> n, frame_length |-> total]

-----------------------------------------------------------------------------
(***************************************************************************)
(* The digits of a length, base 256                                        *)
(***************************************************************************)

\* Two digits hold a length below 65536.
LEMMA TwoDigits ==
  ASSUME NEW n \in Nat, n <= 65535
  PROVE  /\ n \div 256 \in Nat /\ n \div 256 <= 255
         /\ n % 256 \in Nat /\ n % 256 <= 255
         /\ (n \div 256) * 256 + (n % 256) = n
         /\ n % 65536 = n
<1>1. n \div 256 \in Nat /\ n \div 256 <= 255
  BY SMTT(10)
<1>2. n % 256 \in Nat /\ n % 256 <= 255
  BY SMTT(10)
<1>3. (n \div 256) * 256 + (n % 256) = n
  BY SMTT(10)
<1>4. n % 65536 = n
  BY SMTT(10)
<1> QED
  BY <1>1, <1>2, <1>3, <1>4

\* Four digits hold a length below 2^31.
LEMMA FourDigits ==
  ASSUME NEW n \in Nat, n <= 2147483647
  PROVE  /\ n \div 16777216 \in Nat /\ n \div 16777216 <= 255
         /\ (n \div 65536) % 256 \in Nat /\ (n \div 65536) % 256 <= 255
         /\ (n \div 256) % 256 \in Nat /\ (n \div 256) % 256 <= 255
         /\ n % 256 \in Nat /\ n % 256 <= 255
         /\ (n \div 16777216) * 16777216 + ((n \div 65536) % 256) * 65536
              + ((n \div 256) % 256) * 256 + (n % 256) = n
<1>1. n \div 16777216 \in Nat /\ n \div 16777216 <= 255
  BY SMTT(10)
<1>2. (n \div 65536) % 256 \in Nat /\ (n \div 65536) % 256 <= 255
  BY SMTT(10)
<1>3. (n \div 256) % 256 \in Nat /\ (n \div 256) % 256 <= 255
  BY SMTT(10)
<1>4. n % 256 \in Nat /\ n % 256 <= 255
  BY SMTT(10)
<1>5. (n \div 16777216) * 16777216 + ((n \div 65536) % 256) * 65536
        + ((n \div 256) % 256) * 256 + (n % 256) = n
  BY SMTT(10)
<1> QED
  BY <1>1, <1>2, <1>3, <1>4, <1>5

\* The first byte of a header gives back the FIN bit and the opcode.
LEMMA FirstByte ==
  ASSUME NEW fin \in Bit, NEW op \in Nat, op <= 15
  PROVE  /\ 128 * fin + op \in Nat /\ 128 * fin + op <= 255
         /\ (128 * fin + op) \div 128 = fin /\ (128 * fin + op) % 16 = op
<1>1. CASE fin = 0
  BY <1>1, SMTT(10)
<1>2. CASE fin = 1
  BY <1>2, SMTT(10)
<1> QED
  BY <1>1, <1>2 DEF Bit

\* The second byte of a header gives back the mask bit and the short length.
LEMMA SecondByte ==
  ASSUME NEW n \in Nat, n <= 127
  PROVE  /\ n \div 128 = 0 /\ n % 128 = n
         /\ (128 + n) \div 128 = 1 /\ (128 + n) % 128 = n
  BY SMTT(10)

\* The second bytes that announce a longer length.
LEMMA SecondBytes ==
  /\ 126 \in Nat /\ 126 <= 255 /\ 126 \div 128 = 0 /\ 126 % 128 = 126
  /\ 254 \in Nat /\ 254 <= 255 /\ 254 \div 128 = 1 /\ 254 % 128 = 126
  /\ 255 \in Nat /\ 255 <= 255 /\ 255 \div 128 = 1 /\ 255 % 128 = 127
<1>1. 126 \div 128 = 0
  BY SMTT(10)
<1>2. 126 % 128 = 126
  BY SMTT(10)
<1>3. 254 \div 128 = 1
  BY SMTT(10)
<1>4. 254 % 128 = 126
  BY SMTT(10)
<1>5. 255 \div 128 = 1
  BY SMTT(10)
<1>6. 255 % 128 = 127
  BY SMTT(10)
<1> QED
  BY <1>1, <1>2, <1>3, <1>4, <1>5, <1>6, SMT

-----------------------------------------------------------------------------
(***************************************************************************)
(* get_frame inverts the writers                                           *)
(***************************************************************************)

\* The header b announces the frame (fin, op, mask, n): the reader reports that
\* frame, and reports it exactly when all its bytes are there.
Inverts(b, fin, op, mask, n) ==
    /\ b \in Seq(Byte)
    /\ Len(b) \in Nat /\ Len(b) >= 2
    /\ \A a \in Nat :
          get_frame(b, a) =
              IF a < Len(b) + n + 4 * mask THEN Building
              ELSE Ready(fin, op, mask, n, Len(b) + n + 4 * mask)

\* The bits of a header b of h bytes spell the frame, in one of three forms.
Spells(b, h, fin, op, mask, n) ==
    /\ b[1] \in Nat /\ b[1] \div 128 = fin /\ b[1] % 16 = op
    /\ b[2] \in Nat /\ b[2] \div 128 = mask
    /\ \/ h = 2 /\ b[2] % 128 = n /\ n <= 125
       \/ /\ h = 4 /\ b[2] % 128 = 126
          /\ b[3] \in Nat /\ b[4] \in Nat /\ b[3] * 256 + b[4] = n
       \/ /\ h = 10 /\ b[2] % 128 = 127
          /\ b[7] \in Nat /\ b[8] \in Nat /\ b[9] \in Nat /\ b[10] \in Nat
          /\ b[7] * 16777216 + b[8] * 65536 + b[9] * 256 + b[10] = n

\* get_frame reads a header in each of its forms.
LEMMA ReadsHeader ==
  ASSUME NEW b, NEW h \in Nat, NEW fin \in Nat, NEW op \in Nat,
         NEW mask \in Nat, NEW n \in Nat, NEW a \in Nat,
         Spells(b, h, fin, op, mask, n)
  PROVE  get_frame(b, a) =
           IF a < h + n + 4 * mask THEN Building
           ELSE Ready(fin, op, mask, n, h + n + 4 * mask)
<1> DEFINE k  == h + n + 4 * mask
           b0 == b[1]
           b1 == b[2]
<1>1. k \in Nat
  BY SMT
<1>2. /\ b0 \in Nat /\ b0 \div 128 = fin /\ b0 % 16 = op /\ b[1] = b0
      /\ b1 \in Nat /\ b1 \div 128 = mask /\ b[2] = b1
  BY SMT DEF Spells
<1>3. CASE h = 2
  <2>1. k = 2 + n + 4 * mask /\ b1 % 128 = n /\ n <= 125
    BY <1>3, SMT DEF Spells
  <2>2. n # 126 /\ n # 127
    BY <2>1
  <2> HIDE DEF k, b0, b1
  <2>3. get_frame(b, a) = IF a < k THEN Building ELSE Ready(fin, op, mask, n, k)
    BY <1>1, <1>2, <2>1, <2>2, SMT DEF get_frame, Ready
  <2> QED
    BY <2>3 DEF k
<1>4. CASE h = 4
  <2> DEFINE b2 == b[3]
             b3 == b[4]
  <2>1. /\ k = 4 + n + 4 * mask /\ b1 % 128 = 126 /\ b[3] = b2 /\ b[4] = b3
        /\ b2 \in Nat /\ b3 \in Nat /\ b2 * 256 + b3 = n
    BY <1>4, SMT DEF Spells
  <2> HIDE DEF k, b0, b1, b2, b3
  <2>2. get_frame(b, a) = IF a < k THEN Building ELSE Ready(fin, op, mask, n, k)
    BY <1>1, <1>2, <2>1, SMT DEF get_frame, Ready
  <2> QED
    BY <2>2 DEF k
<1>5. CASE h = 10
  <2> DEFINE b6 == b[7]
             b7 == b[8]
             b8 == b[9]
             b9 == b[10]
  <2>1. /\ k = 10 + n + 4 * mask /\ b1 % 128 = 127
        /\ b[7] = b6 /\ b[8] = b7 /\ b[9] = b8 /\ b[10] = b9
        /\ b6 \in Nat /\ b7 \in Nat /\ b8 \in Nat /\ b9 \in Nat
        /\ b6 * 16777216 + b7 * 65536 + b8 * 256 + b9 = n
    BY <1>5, SMT DEF Spells
  <2> HIDE DEF k, b0, b1, b6, b7, b8, b9
  <2>2. get_frame(b, a) = IF a < k THEN Building ELSE Ready(fin, op, mask, n, k)
    BY <1>1, <1>2, <2>1, SMT DEF get_frame, Ready
  <2> QED
    BY <2>2 DEF k
<1> QED
  BY <1>3, <1>4, <1>5, SMTT(30) DEF Spells

\* The values of a bit are naturals.
LEMMA Small == 0 \in Nat /\ 1 \in Nat
  OBVIOUS

\* A header that spells a frame announces it.
LEMMA SpellsInverts ==
  ASSUME NEW b \in Seq(Byte), NEW fin \in Nat, NEW op \in Nat,
         NEW mask \in Nat, NEW n \in Nat, Spells(b, Len(b), fin, op, mask, n)
  PROVE  Inverts(b, fin, op, mask, n)
<1>1. Len(b) \in Nat
  OBVIOUS
<1>2. Len(b) >= 2
  BY <1>1, SMTT(30) DEF Spells
<1>3. ASSUME NEW a \in Nat
      PROVE  get_frame(b, a) =
               IF a < Len(b) + n + 4 * mask THEN Building
               ELSE Ready(fin, op, mask, n, Len(b) + n + 4 * mask)
  BY <1>1, ReadsHeader
<1> QED
  BY <1>1, <1>2, <1>3 DEF Inverts

\* wsconn_write_frame, for what cm_readcb and wsconn_process_frame send.
LEMMA ServerInverts ==
  ASSUME NEW op \in Nat, op <= 15, NEW n \in Nat, n <= MaxServer
  PROVE  Inverts(wsconn_write_frame(op, n), 1, op, 0, n)
<1> DEFINE b0 == 128 + op
<1>0. b0 \in Nat /\ b0 <= 255 /\ b0 \div 128 = 1 /\ b0 % 16 = op
  BY SMTT(10)
<1>1. CASE n <= 125
  <2> DEFINE b == <<b0, n>>
  <2>1. wsconn_write_frame(op, n) = b
    BY <1>1 DEF wsconn_write_frame
  <2> HIDE DEF b0
  <2>2. b \in Seq(Byte) /\ Len(b) = 2 /\ b[1] = b0 /\ b[2] = n
    BY <1>0, <1>1 DEF Byte
  <2>3. n \div 128 = 0 /\ n % 128 = n
    BY <1>1, SecondByte
  <2> HIDE DEF b
  <2>4. Spells(b, Len(b), 1, op, 0, n)
    BY <1>0, <1>1, <2>2, <2>3, SMT DEF Spells
  <2> QED
    BY Small, <2>1, <2>2, <2>4, SpellsInverts, Zenon
<1>2. CASE n > 125
  <2> DEFINE b1   == 126
             high == n \div 256
             low  == n % 256
             b    == <<b0, b1, high, low>>
  <2>1. wsconn_write_frame(op, n) = b
    BY <1>2, TwoDigits DEF wsconn_write_frame, MaxServer
  <2>2. /\ high \in Nat /\ high <= 255 /\ low \in Nat /\ low <= 255
        /\ high * 256 + low = n
    BY TwoDigits DEF MaxServer
  <2>3. b1 \in Nat /\ b1 <= 255 /\ b1 \div 128 = 0 /\ b1 % 128 = 126
    BY SecondBytes
  <2> HIDE DEF b0, b1, high, low
  <2>4. /\ b \in Seq(Byte) /\ Len(b) = 4
        /\ b[1] = b0 /\ b[2] = b1 /\ b[3] = high /\ b[4] = low
    BY <1>0, <2>2, <2>3 DEF Byte
  <2> HIDE DEF b
  <2>5. Spells(b, Len(b), 1, op, 0, n)
    BY <1>0, <2>2, <2>3, <2>4, SMT DEF Spells
  <2> QED
    BY Small, <2>1, <2>4, <2>5, SpellsInverts, Zenon
<1> QED
  BY <1>1, <1>2

\* ClientHeader, a masked frame of any length get_frame can represent.
LEMMA ClientInverts ==
  ASSUME NEW fin \in Bit, NEW op \in Nat, op <= 15,
         NEW n \in Nat, n <= MaxClient
  PROVE  Inverts(ClientHeader(op, fin, n), fin, op, 1, n)
<1> DEFINE b0 == 128 * fin + op
<1>0. b0 \in Nat /\ b0 <= 255 /\ b0 \div 128 = fin /\ b0 % 16 = op /\ fin \in Nat
  BY FirstByte DEF Bit
<1>1. CASE n <= 125
  <2> DEFINE b1 == 128 + n
             b  == <<b0, b1>>
  <2>1. ClientHeader(op, fin, n) = b
    BY <1>1 DEF ClientHeader
  <2>2. b1 \in Nat /\ b1 <= 255 /\ b1 \div 128 = 1 /\ b1 % 128 = n
    BY <1>1, SecondByte
  <2> HIDE DEF b0, b1
  <2>3. b \in Seq(Byte) /\ Len(b) = 2 /\ b[1] = b0 /\ b[2] = b1
    BY <1>0, <2>2 DEF Byte
  <2> HIDE DEF b
  <2>4. Spells(b, Len(b), fin, op, 1, n)
    BY <1>0, <1>1, <2>2, <2>3, SMT DEF Spells
  <2> QED
    BY <1>0, Small, <2>1, <2>3, <2>4, SpellsInverts, Zenon
<1>2. CASE n > 125 /\ n <= MaxServer
  <2> DEFINE b1   == 254
             high == n \div 256
             low  == n % 256
             b    == <<b0, b1, high, low>>
  <2>1. ClientHeader(op, fin, n) = b
    BY <1>2 DEF ClientHeader, MaxServer
  <2>2. /\ high \in Nat /\ high <= 255 /\ low \in Nat /\ low <= 255
        /\ high * 256 + low = n
    BY <1>2, TwoDigits DEF MaxServer
  <2>3. b1 \in Nat /\ b1 <= 255 /\ b1 \div 128 = 1 /\ b1 % 128 = 126
    BY SecondBytes
  <2> HIDE DEF b0, b1, high, low
  <2>4. /\ b \in Seq(Byte) /\ Len(b) = 4
        /\ b[1] = b0 /\ b[2] = b1 /\ b[3] = high /\ b[4] = low
    BY <1>0, <2>2, <2>3 DEF Byte
  <2> HIDE DEF b
  <2>5. Spells(b, Len(b), fin, op, 1, n)
    BY <1>0, <2>2, <2>3, <2>4, SMT DEF Spells
  <2> QED
    BY <1>0, Small, <2>1, <2>4, <2>5, SpellsInverts, Zenon
<1>3. CASE n > MaxServer
  <2> DEFINE b1 == 255
             d3 == n \div 16777216
             d2 == (n \div 65536) % 256
             d1 == (n \div 256) % 256
             d0 == n % 256
             b  == <<b0, b1, 0, 0, 0, 0, d3, d2, d1, d0>>
  <2>1. ClientHeader(op, fin, n) = b
    BY <1>3, SMT DEF ClientHeader, MaxServer
  <2>2. /\ d3 \in Nat /\ d3 <= 255 /\ d2 \in Nat /\ d2 <= 255
        /\ d1 \in Nat /\ d1 <= 255 /\ d0 \in Nat /\ d0 <= 255
        /\ d3 * 16777216 + d2 * 65536 + d1 * 256 + d0 = n
    BY FourDigits, SMT DEF MaxClient
  <2>3. b1 \in Nat /\ b1 <= 255 /\ b1 \div 128 = 1 /\ b1 % 128 = 127
    BY SecondBytes
  <2> HIDE DEF b0, b1, d3, d2, d1, d0
  <2>4. /\ b \in Seq(Byte) /\ Len(b) = 10
        /\ b[1] = b0 /\ b[2] = b1 /\ b[7] = d3 /\ b[8] = d2
        /\ b[9] = d1 /\ b[10] = d0
    BY <1>0, <2>2, <2>3, SMT DEF Byte
  <2> HIDE DEF b
  <2>5. Spells(b, Len(b), fin, op, 1, n)
    BY <1>0, <2>2, <2>3, <2>4, SMT DEF Spells
  <2> QED
    BY <1>0, Small, <2>1, <2>4, <2>5, SpellsInverts, Zenon
<1> QED
  BY <1>1, <1>2, <1>3 DEF MaxServer

-----------------------------------------------------------------------------
(***************************************************************************)
(* The inductive invariant                                                 *)
(***************************************************************************)

\* The header on the wire announces the frame being sent, and the reader has
\* reported what get_frame says of the bytes that have arrived.
CodecInv ==
    /\ frame \in [fin : Bit, opcode : 0 .. 15, mask : Bit, length : Nat]
    /\ size = frame.length
    /\ Inverts(bytes, frame.fin, frame.opcode, frame.mask, frame.length)
    /\ arrived \in Nat
    /\ arrived <= Total
    /\ result = get_frame(bytes, arrived)

\* A writer starts a frame with a header that announces it.
LEMMA StartInv ==
  ASSUME NEW fin \in Bit, NEW op \in Nat, op <= 15, NEW mask \in Bit,
         NEW n \in Nat, NEW b, Inverts(b, fin, op, mask, n),
         Start([fin |-> fin, opcode |-> op, mask |-> mask, length |-> n], b, n)
  PROVE  CodecInv'
<1>1. /\ frame' = [fin |-> fin, opcode |-> op, mask |-> mask, length |-> n]
      /\ bytes' = b /\ size' = n /\ arrived' = 0 /\ result' = Building
  BY DEF Start
<1>2. /\ frame'.fin = fin /\ frame'.opcode = op /\ frame'.mask = mask
      /\ frame'.length = n
      /\ frame' \in [fin : Bit, opcode : 0 .. 15, mask : Bit, length : Nat]
  BY <1>1
<1>3. Len(b) \in Nat /\ Len(b) >= 2 /\ mask \in Nat
  BY DEF Inverts, Bit
<1>4. 0 < Len(b) + n + 4 * mask
  BY <1>3
<1>5. get_frame(b, 0) = Building
  BY <1>4 DEF Inverts
<1>6. Inverts(b, fin, op, mask, n)
  OBVIOUS
<1>7. Total' = Len(b) + n + 4 * mask
  BY <1>1, <1>2 DEF Total
<1>8. 0 <= Total'
  BY <1>3, <1>7
<1> QED
  BY <1>1, <1>2, <1>5, <1>6, <1>8 DEF CodecInv

\* The longest payload fits a data_t.
LEMMA MaxServerFits == MaxServer \in Nat /\ MaxServer < Capacity /\ Capacity \in Nat
  BY SMTT(30) DEF MaxServer, Capacity

\* The invariant holds at the start and is kept by every step.
LEMMA CodecInvariant ==
  ASSUME ServerLengths \subseteq 0 .. MaxServer
  PROVE  Spec => []CodecInv
<1>1. Init => CodecInv
  <2> SUFFICES ASSUME Init PROVE CodecInv
    OBVIOUS
  <2>1. Inverts(wsconn_write_frame(1, 0), 1, 1, 0, 0)
    <3>1. 1 \in Nat /\ 1 <= 15 /\ 0 \in Nat
      BY SMTT(30)
    <3>2. 0 <= MaxServer
      BY MaxServerFits, SMTT(30)
    <3> QED
      BY <3>1, <3>2, ServerInverts, ZenonT(30)
  <2>2. /\ frame = [fin |-> 1, opcode |-> 1, mask |-> 0, length |-> 0]
        /\ bytes = wsconn_write_frame(1, 0) /\ size = 0 /\ arrived = 0
        /\ result = Building
    BY DEF Init
  <2>3. /\ frame \in [fin : Bit, opcode : 0 .. 15, mask : Bit, length : Nat]
        /\ frame.fin = 1 /\ frame.opcode = 1 /\ frame.mask = 0
        /\ frame.length = 0
    BY <2>2 DEF Bit
  <2>4. Inverts(bytes, 1, 1, 0, 0)
    BY <2>1, <2>2
  <2>5. 0 < Len(bytes) + 0 + 4 * 0 /\ Len(bytes) \in Nat
    BY <2>4 DEF Inverts
  <2>6. get_frame(bytes, 0) = Building
    BY <2>4, <2>5 DEF Inverts
  <2>7. 0 <= Total
    BY <2>2, <2>3, <2>5 DEF Total
  <2> QED
    BY <2>2, <2>3, <2>4, <2>6, <2>7 DEF CodecInv
<1>2. CodecInv /\ [Next]_vars => CodecInv'
  <2> SUFFICES ASSUME CodecInv, [Next]_vars PROVE CodecInv'
    OBVIOUS
  <2>1. CASE WriteText
    <3>1. PICK n \in ServerLengths :
            Start([fin |-> 1, opcode |-> 1, mask |-> 0, length |-> n],
                  wsconn_write_frame(1, data_set_data(n)), data_set_data(n))
      BY <2>1 DEF WriteText
    <3>2. n \in Nat /\ n <= MaxServer /\ data_set_data(n) = n
      <4>1. MaxServer \in Nat /\ MaxServer < Capacity /\ Capacity \in Nat
        BY MaxServerFits
      <4>2. n \in 0 .. MaxServer
        BY ZenonT(30)
      <4> QED
        BY <4>1, <4>2, SMTT(30) DEF data_set_data
    <3>3. Inverts(wsconn_write_frame(1, n), 1, 1, 0, n)
      BY <3>2, ServerInverts
    <3>4. Start([fin |-> 1, opcode |-> 1, mask |-> 0, length |-> n],
                wsconn_write_frame(1, n), n)
      BY <3>1, <3>2
    <3> QED
      BY <3>2, <3>3, <3>4, StartInv DEF Bit
  <2>2. CASE WriteControl
    <3>1. PICK n \in ServerLengths, op \in {8, 10} :
            Start([fin |-> 1, opcode |-> op, mask |-> 0, length |-> n],
                  wsconn_write_frame(op, n), n)
      BY <2>2 DEF WriteControl
    <3>2. n \in Nat /\ n <= MaxServer /\ op \in Nat /\ op <= 15
      <4>1. MaxServer \in Nat
        BY MaxServerFits
      <4>2. n \in 0 .. MaxServer
        BY ZenonT(30)
      <4> QED
        BY <4>1, <4>2, SMTT(30)
    <3>3. Inverts(wsconn_write_frame(op, n), 1, op, 0, n)
      BY <3>2, ServerInverts
    <3> QED
      BY <3>1, <3>2, <3>3, StartInv DEF Bit
  <2>3. CASE ClientWrite
    <3>1. PICK n \in ClientLengths, op \in Opcodes, fin \in Bit :
            Start([fin |-> fin, opcode |-> op, mask |-> 1, length |-> n],
                  ClientHeader(op, fin, n), n)
      BY <2>3 DEF ClientWrite
    <3>2. n \in Nat /\ n <= MaxClient /\ op \in Nat /\ op <= 15
      <4>1. n \in Nat /\ n <= MaxClient
        BY LengthsAssumption, SMT DEF MaxClient
      <4>2. op \in 0 .. 15
        BY OpcodesAssumption, Zenon
      <4> QED
        BY <4>1, <4>2, SMT
    <3>3. Inverts(ClientHeader(op, fin, n), fin, op, 1, n)
      BY <3>2, ClientInverts
    <3> QED
      BY <3>1, <3>2, <3>3, StartInv DEF Bit
  <2>4. CASE Arrive
    <3>1. PICK n \in Pieces :
            n <= Total /\ arrived < n /\ arrived' = n
              /\ result' = get_frame(bytes, n)
      BY <2>4 DEF Arrive
    <3>2. UNCHANGED <<frame, bytes, size>>
      BY <2>4 DEF Arrive
    <3>3. Total \in Nat
      BY DEF CodecInv, Inverts, Total, Bit
    <3>4. n \in Nat
      <4>1. Len(bytes) \in Nat /\ arrived \in Nat
        BY DEF CodecInv, Inverts
      <4> QED
        BY <3>1, <3>3, <4>1, SMT DEF Pieces
    <3>5. Total' = Total
      BY <3>2 DEF Total
    <3> QED
      BY <3>1, <3>2, <3>4, <3>5 DEF CodecInv
  <2>5. CASE UNCHANGED vars
    BY <2>5 DEF CodecInv, Total, vars
  <2> QED
    BY <2>1, <2>2, <2>3, <2>4, <2>5 DEF Next
<1> QED
  BY <1>1, <1>2, PTL DEF Spec

-----------------------------------------------------------------------------
(***************************************************************************)
(* Type correctness, for every length                                      *)
(***************************************************************************)

\* Whatever length it is given, wsconn_write_frame writes a header that
\* announces a frame of some length: the low 16 bits in the second form, and
\* those bits two bytes too far to the left in the third.
LEMMA ServerAnnounces ==
  ASSUME NEW op \in Nat, op <= 15, NEW n \in Nat
  PROVE  \E k \in Nat : Inverts(wsconn_write_frame(op, n), 1, op, 0, k)
<1> DEFINE b0   == 128 + op
           high == (n % 65536) \div 256
           low  == n % 256
<1>0. b0 \in Nat /\ b0 <= 255 /\ b0 \div 128 = 1 /\ b0 % 16 = op
  BY SMTT(10)
<1>1. /\ high \in Nat /\ high <= 255
      /\ low \in Nat /\ low <= 255
  BY SMTT(10)
<1>2. CASE n <= 125
  <2>1. n <= MaxServer
    BY <1>2, SMT DEF MaxServer
  <2> QED
    BY <2>1, ServerInverts
<1>3. CASE n > 125 /\ n < 131071
  <2> DEFINE b1 == 126
             b  == <<b0, b1, high, low>>
             k  == high * 256 + low
  <2>1. wsconn_write_frame(op, n) = b
    BY <1>3, SMT DEF wsconn_write_frame
  <2>2. b1 \in Nat /\ b1 <= 255 /\ b1 \div 128 = 0 /\ b1 % 128 = 126
    BY SecondBytes
  <2> HIDE DEF b0, b1, high, low
  <2>3. /\ b \in Seq(Byte) /\ Len(b) = 4
        /\ b[1] = b0 /\ b[2] = b1 /\ b[3] = high /\ b[4] = low
    BY <1>0, <1>1, <2>2, SMT DEF Byte
  <2>4. k = high * 256 + low
    BY SMT
  <2>5. k \in Nat
    BY <1>1, SMT
  <2> HIDE DEF b, k
  <2>6. Spells(b, Len(b), 1, op, 0, k)
    BY <1>0, <1>1, <2>2, <2>3, <2>4, <2>5, SMT DEF Spells
  <2> QED
    BY Small, <2>1, <2>3, <2>5, <2>6, SpellsInverts, Zenon
<1>4. CASE n >= 131071
  <2> DEFINE b1 == 127
             b  == <<b0, b1, 0, 0, 0, 0, high, low, 0, 0>>
             k  == high * 16777216 + low * 65536 + 0 * 256 + 0
  <2>1. wsconn_write_frame(op, n) = b
    BY <1>4, SMT DEF wsconn_write_frame
  <2>2. b1 \in Nat /\ b1 <= 255 /\ b1 \div 128 = 0 /\ b1 % 128 = 127
    BY SecondByte, SMT
  <2> HIDE DEF b0, b1, high, low
  <2>3. /\ b \in Seq(Byte) /\ Len(b) = 10
        /\ b[1] = b0 /\ b[2] = b1 /\ b[7] = high /\ b[8] = low
        /\ b[9] = 0 /\ b[10] = 0
    BY <1>0, <1>1, <2>2, SMT DEF Byte
  <2>4. k = high * 16777216 + low * 65536 + 0 * 256 + 0
    BY SMT
  <2>5. k \in Nat
    BY <1>1, SMT
  <2> HIDE DEF b, k
  <2>6. Spells(b, Len(b), 1, op, 0, k)
    BY <1>0, <1>1, <2>2, <2>3, <2>4, <2>5, SMT DEF Spells
  <2> QED
    BY Small, <2>1, <2>3, <2>5, <2>6, SpellsInverts, Zenon
<1> QED
  BY <1>2, <1>3, <1>4, SMT

\* What cm_readcb cuts a stanza to is a length.
LEMMA CutLength ==
  ASSUME NEW n \in Nat
  PROVE  data_set_data(n) \in Nat
  BY SMT DEF data_set_data, Capacity

\* The header on the wire announces a frame with the FIN bit, opcode and mask of
\* the one being sent, of whatever length, and the reader reports it.
HeaderInv ==
    /\ frame \in [fin : Bit, opcode : 0 .. 15, mask : Bit, length : Nat]
    /\ size \in Nat
    /\ arrived \in Nat
    /\ \E k \in Nat : Inverts(bytes, frame.fin, frame.opcode, frame.mask, k)
    /\ result = get_frame(bytes, arrived)

\* A writer starts a frame with a header that announces some length.
LEMMA StartHeader ==
  ASSUME NEW fin \in Bit, NEW op \in Nat, op <= 15, NEW mask \in Bit,
         NEW n \in Nat, NEW s \in Nat, NEW b,
         \E k \in Nat : Inverts(b, fin, op, mask, k),
         Start([fin |-> fin, opcode |-> op, mask |-> mask, length |-> n], b, s)
  PROVE  HeaderInv'
<1>1. /\ frame' = [fin |-> fin, opcode |-> op, mask |-> mask, length |-> n]
      /\ bytes' = b /\ size' = s /\ arrived' = 0 /\ result' = Building
  BY DEF Start
<1>2. /\ frame'.fin = fin /\ frame'.opcode = op /\ frame'.mask = mask
      /\ frame' \in [fin : Bit, opcode : 0 .. 15, mask : Bit, length : Nat]
  BY <1>1
<1>3. PICK k \in Nat : Inverts(b, fin, op, mask, k)
  OBVIOUS
<1>4. Len(b) \in Nat /\ Len(b) >= 2 /\ mask \in Nat
  BY <1>3 DEF Inverts, Bit
<1>5. 0 < Len(b) + k + 4 * mask
  BY <1>4
<1>6. get_frame(b, 0) = Building
  BY <1>3, <1>5 DEF Inverts
<1> QED
  BY <1>1, <1>2, <1>3, <1>6 DEF HeaderInv

\* A header that announces a frame, and what get_frame makes of it, are of the
\* declared types.
LEMMA HeaderTypes == HeaderInv => TypeOK
<1> SUFFICES ASSUME HeaderInv PROVE TypeOK
  OBVIOUS
<1> DEFINE Results == [status : {"BUILDING", "READY"}, fin : Bit,
                       opcode : 0 .. 15, mask : Bit, length : Nat,
                       frame_length : Nat]
<1>1. PICK k \in Nat :
        Inverts(bytes, frame.fin, frame.opcode, frame.mask, k)
  BY DEF HeaderInv
<1>2. /\ frame.fin \in Bit /\ frame.opcode \in 0 .. 15 /\ frame.mask \in Bit
  BY DEF HeaderInv
<1>3. bytes \in Seq(Byte) /\ Len(bytes) \in Nat
  BY <1>1 DEF Inverts
<1> DEFINE total == Len(bytes) + k + 4 * frame.mask
<1>4. total \in Nat
  BY <1>2, <1>3 DEF Bit
<1>5. result = IF arrived < total THEN Building
               ELSE Ready(frame.fin, frame.opcode, frame.mask, k, total)
  BY <1>1 DEF HeaderInv, Inverts
<1> HIDE DEF total
<1>6. Building \in Results
  BY DEF Building, Bit
<1>7. Ready(frame.fin, frame.opcode, frame.mask, k, total) \in Results
  BY <1>2, <1>4 DEF Ready
<1>8. result \in Results
  BY <1>5, <1>6, <1>7
<1> QED
  BY <1>3, <1>8 DEF HeaderInv, TypeOK

-----------------------------------------------------------------------------
(***************************************************************************)
(* Theorems                                                                *)
(***************************************************************************)

\* Whatever lengths the server and the browser write, a header is made of bytes
\* and get_frame's result has the types of frame_t: no arithmetic on the length
\* leaves the range of a header byte.
THEOREM TypeCorrect == Spec => []TypeOK
<1>1. Init => HeaderInv
  <2> SUFFICES ASSUME Init PROVE HeaderInv
    OBVIOUS
  <2>1. 1 \in Nat /\ 1 <= 15 /\ 0 \in Nat
    BY SMT
  <2>2. PICK k \in Nat : Inverts(wsconn_write_frame(1, 0), 1, 1, 0, k)
    BY <2>1, ServerAnnounces, Zenon
  <2>3. /\ frame = [fin |-> 1, opcode |-> 1, mask |-> 0, length |-> 0]
        /\ bytes = wsconn_write_frame(1, 0) /\ size = 0 /\ arrived = 0
        /\ result = Building
    BY DEF Init
  <2>4. /\ frame \in [fin : Bit, opcode : 0 .. 15, mask : Bit, length : Nat]
        /\ frame.fin = 1 /\ frame.opcode = 1 /\ frame.mask = 0
    BY <2>3 DEF Bit
  <2>5. Inverts(bytes, 1, 1, 0, k)
    BY <2>2, <2>3
  <2>6. 0 < Len(bytes) + k + 4 * 0
    BY <2>5 DEF Inverts
  <2>7. get_frame(bytes, 0) = Building
    BY <2>5, <2>6 DEF Inverts
  <2> QED
    BY <2>3, <2>4, <2>5, <2>7 DEF HeaderInv
<1>2. HeaderInv /\ [Next]_vars => HeaderInv'
  <2> SUFFICES ASSUME HeaderInv, [Next]_vars PROVE HeaderInv'
    OBVIOUS
  <2>1. CASE WriteText
    <3>1. PICK n \in ServerLengths :
            Start([fin |-> 1, opcode |-> 1, mask |-> 0, length |-> n],
                  wsconn_write_frame(1, data_set_data(n)), data_set_data(n))
      BY <2>1 DEF WriteText
    <3>2. n \in Nat /\ data_set_data(n) \in Nat
      BY LengthsAssumption, CutLength
    <3>3. 1 \in Nat /\ 1 <= 15 /\ 1 \in Bit /\ 0 \in Bit
      BY DEF Bit
    <3>4. \E k \in Nat :
            Inverts(wsconn_write_frame(1, data_set_data(n)), 1, 1, 0, k)
      BY <3>2, <3>3, ServerAnnounces, Zenon
    <3> QED
      BY <3>1, <3>2, <3>3, <3>4, StartHeader, Zenon
  <2>2. CASE WriteControl
    <3>1. PICK n \in ServerLengths, op \in {8, 10} :
            Start([fin |-> 1, opcode |-> op, mask |-> 0, length |-> n],
                  wsconn_write_frame(op, n), n)
      BY <2>2 DEF WriteControl
    <3>2. n \in Nat /\ op \in Nat /\ op <= 15
      BY LengthsAssumption
    <3>3. 1 \in Bit /\ 0 \in Bit
      BY DEF Bit
    <3>4. \E k \in Nat : Inverts(wsconn_write_frame(op, n), 1, op, 0, k)
      BY <3>2, ServerAnnounces, Zenon
    <3> QED
      BY <3>1, <3>2, <3>3, <3>4, StartHeader, Zenon
  <2>3. CASE ClientWrite
    <3>1. PICK n \in ClientLengths, op \in Opcodes, fin \in Bit :
            Start([fin |-> fin, opcode |-> op, mask |-> 1, length |-> n],
                  ClientHeader(op, fin, n), n)
      BY <2>3 DEF ClientWrite
    <3>2. n \in Nat /\ n <= MaxClient
      BY LengthsAssumption, SMT DEF MaxClient
    <3>3. op \in Nat /\ op <= 15
      <4>1. op \in 0 .. 15
        BY OpcodesAssumption, Zenon
      <4> QED
        BY <4>1, SMT
    <3>4. \E k \in Nat : Inverts(ClientHeader(op, fin, n), fin, op, 1, k)
      BY <3>2, <3>3, ClientInverts
    <3> QED
      BY <3>1, <3>2, <3>3, <3>4, StartHeader DEF Bit
  <2>4. CASE Arrive
    <3>1. PICK n \in Pieces :
            n <= Total /\ arrived < n /\ arrived' = n
              /\ result' = get_frame(bytes, n)
      BY <2>4 DEF Arrive
    <3>2. UNCHANGED <<frame, bytes, size>>
      BY <2>4 DEF Arrive
    <3>3. Len(bytes) \in Nat /\ frame.mask \in Nat /\ size \in Nat
      BY DEF HeaderInv, Inverts, Bit
    <3>4. Total \in Nat
      BY <3>3 DEF Total
    <3>5. n \in Nat
      <4>1. arrived \in Nat
        BY DEF HeaderInv
      <4> QED
        BY <3>1, <3>3, <3>4, <4>1, SMT DEF Pieces
    <3> QED
      BY <3>1, <3>2, <3>5 DEF HeaderInv
  <2>5. CASE UNCHANGED vars
    BY <2>5 DEF HeaderInv, vars
  <2> QED
    BY <2>1, <2>2, <2>3, <2>4, <2>5 DEF Next
<1> QED
  BY <1>1, <1>2, HeaderTypes, PTL DEF Spec

\* get_frame reports every frame as it was sent, once all of it has arrived and
\* with exactly its bytes, as long as the server writes at most 65535 of them.
THEOREM FramesDecoded ==
  ASSUME ServerLengths \subseteq 0 .. MaxServer
  PROVE  Spec => []DecodedAsSent
<1>1. CodecInv => DecodedAsSent
  <2> SUFFICES ASSUME CodecInv, result.status = "READY"
               PROVE  /\ arrived = Total
                      /\ result.frame_length = Total
                      /\ [fin |-> result.fin, opcode |-> result.opcode,
                          mask |-> result.mask, length |-> result.length] = frame
    BY DEF DecodedAsSent
  <2>1. Total \in Nat /\ Total = Len(bytes) + frame.length + 4 * frame.mask
    BY DEF CodecInv, Inverts, Total, Bit
  <2>2. result = IF arrived < Total THEN Building
                 ELSE Ready(frame.fin, frame.opcode, frame.mask, frame.length,
                            Total)
    BY <2>1 DEF CodecInv, Inverts
  <2>3. ~(arrived < Total)
    BY <2>2 DEF Building
  <2>4. arrived = Total
    BY <2>1, <2>3 DEF CodecInv
  <2>5. result = Ready(frame.fin, frame.opcode, frame.mask, frame.length, Total)
    BY <2>2, <2>3
  <2>6. /\ result.frame_length = Total /\ result.fin = frame.fin
        /\ result.opcode = frame.opcode /\ result.mask = frame.mask
        /\ result.length = frame.length
    BY <2>5 DEF Ready
  <2>7. frame = [fin |-> frame.fin, opcode |-> frame.opcode,
                 mask |-> frame.mask, length |-> frame.length]
    BY DEF CodecInv
  <2> QED
    BY <2>4, <2>6, <2>7
<1> QED
  BY <1>1, CodecInvariant, PTL

\* A frame that has arrived is reported, under the same assumption.
THEOREM FramesReported ==
  ASSUME ServerLengths \subseteq 0 .. MaxServer
  PROVE  Spec => []CompleteIsReady
<1>1. CodecInv => CompleteIsReady
  <2> SUFFICES ASSUME CodecInv, arrived = Total PROVE result.status = "READY"
    BY DEF CompleteIsReady
  <2>1. Total \in Nat /\ Total = Len(bytes) + frame.length + 4 * frame.mask
    BY DEF CodecInv, Inverts, Total, Bit
  <2>2. ~(arrived < Total)
    BY <2>1
  <2>3. result = Ready(frame.fin, frame.opcode, frame.mask, frame.length, Total)
    BY <2>1, <2>2 DEF CodecInv, Inverts
  <2> QED
    BY <2>3 DEF Ready
<1> QED
  BY <1>1, CodecInvariant, PTL

=============================================================================
