----------------------------- MODULE FramerProofs -----------------------------
(***************************************************************************)
(* Proofs about Framer, for every number of tokens, depth of nesting, block *)
(* size and capacity.                                                      *)
(*                                                                         *)
(* The invariant Inv has four layers.  ServerInv is about the stream alone: *)
(* tokens stand one after the other and are properly nested.  Taken and    *)
(* Levelled tie the parser to the stream: what has been taken and parsed,  *)
(* and that the framer's level is the depth of the stream unless a namesake *)
(* has reset it.  Framed, Pointed and Honest are about the offsets: frames *)
(* lie one behind the other in what the buffer holds or will hold, index   *)
(* is where the open stanza begins, and each frame is what a token ends.   *)
(* Sound and Forwarding hold until a header is missed: the parser accepts  *)
(* every token, and no stanza is lost.                                     *)
(***************************************************************************)
EXTENDS Framer, FiniteSetTheorems, TLAPS

-----------------------------------------------------------------------------
(***************************************************************************)
(* What the server writes                                                  *)
(***************************************************************************)

\* How many elements are open after token t, and after the first s tokens.
After(t) ==
    CASE t.kind \in Starts -> t.depth + 1
      [] t.kind \in Closes -> t.depth - 1
      [] OTHER             -> t.depth

DepthAt(s) == IF s = 0 THEN 0 ELSE After(stream[s])

\* Token i is a part of a stream header.
IsHeader(i) == stream[i].kind \in {"decl", "stream"}

\* Token i begins a stream, the first one or a restarted one.
Renews(i) == IsHeader(i) /\ (i > 1 => stream[i - 1].kind # "decl")

\* Token m is the latest start tag at depth k among the first s tokens, and its
\* element is still open.
OpenAt(s, k, m) ==
    /\ m \in 1 .. s
    /\ stream[m].kind \in Starts
    /\ stream[m].depth = k
    /\ \A x \in m + 1 .. s : stream[x].kind \in Starts => stream[x].depth > k

\* Tokens stand one after the other.
Placed ==
    /\ \A i \in 1 .. Len(stream) :
          1 <= stream[i].from /\ stream[i].from <= stream[i].to
            /\ stream[i].to <= Total
    /\ \A i, j \in 1 .. Len(stream) : i < j => stream[i].to < stream[j].from

\* A header is at depth 0, and any other token at the depth the one before it
\* leaves; that depth is bounded, and a declaration is followed by <stream>.
Nested ==
    \A i \in 1 .. Len(stream) :
        /\ DepthAt(i) \in 0 .. MaxDepth
        /\ stream[i].kind = "decl" => Renews(i)
        /\ IF IsHeader(i) THEN stream[i].depth = 0
           ELSE /\ i > 1
                /\ stream[i].depth = DepthAt(i - 1)
                /\ stream[i].depth >= 1
                /\ stream[i - 1].kind # "decl"

\* Every open element has a start tag.
Opened ==
    \A s \in 0 .. Len(stream), k \in Nat :
        k < DepthAt(s) => \E m \in 1 .. s : OpenAt(s, k, m)

\* An end tag has the name of the element that it ends.
Matched ==
    \A i \in 1 .. Len(stream) :
        stream[i].kind \in Closes =>
            \A m \in 1 .. i - 1, k \in Nat :
                k + 1 = stream[i].depth /\ OpenAt(i - 1, k, m) =>
                    stream[m].kind = Opener(stream[i].kind)

\* The server's stream.
ServerInv ==
    /\ stream \in Seq(Token)
    /\ Placed
    /\ Nested
    /\ Opened
    /\ Matched

-----------------------------------------------------------------------------
(***************************************************************************)
(* What cm_readcb has taken                                                *)
(***************************************************************************)

\* Nothing has been read yet.
Untouched ==
    /\ fed = 0 /\ pc = "wait" /\ parsed = 0
    /\ parser = NewParser(0) /\ framer = framer_create

\* The parsed tokens have been taken, the others are behind the parser's start;
\* a stream is begun only once all before it has been read.
Taken ==
    /\ fed \in Nat /\ fed <= Total
    /\ avail \in Nat /\ avail <= Total - fed
    /\ parsed \in 0 .. Len(stream)
    /\ pc \in {"wait", "parse", "read"}
    /\ pc = "read" => ~parser.broken
    /\ cut \in BOOLEAN
    /\ parser.base \in Nat
    /\ parser.base < fed \/ Untouched
    /\ \A i \in 1 .. parsed : stream[i].to <= fed
    /\ \A i \in parsed + 1 .. Len(stream) : parser.base < stream[i].from
    /\ \A i \in 1 .. Len(stream) :
          Renews(i) => /\ stream[i].from - 1 <= fed
                       /\ stream[i].from - 1 = fed => pc = "wait"
    /\ ~parser.broken =>
          /\ pc # "parse" =>
                \A i \in parsed + 1 .. Len(stream) : fed < stream[i].to
          /\ \A i \in 1 .. Len(stream) : Renews(i) => i - 1 <= parsed

\* The level never exceeds the depth, nor the number of elements that are open
\* inside the innermost stream element; it is the depth unless a namesake has
\* reset it or the parser is new.
Levelled ==
    /\ parser \in [base : Nat, stack : Seq(Starts), root : BOOLEAN,
                   broken : BOOLEAN]
    /\ framer.level \in Int
    /\ DepthAt(parsed) - MaxDepth <= framer.level
    /\ framer.level <= DepthAt(parsed)
    /\ \A k \in 1 .. Len(parser.stack) :
          Stream(parser.stack[k]) =>
              framer.level <= Len(parser.stack) - k + 1
    /\ \A i \in parsed + 1 .. Len(stream) :
          stream[i].from = parser.base + 1 => framer.level = 0
    /\ \/ Misled(parsed)
       \/ framer.level = DepthAt(parsed)
       \/ /\ parsed < Len(stream) /\ IsHeader(parsed + 1)
          /\ stream[parsed + 1].from = parser.base + 1

-----------------------------------------------------------------------------
(***************************************************************************)
(* Frames and the buffer                                                   *)
(***************************************************************************)

\* A frame_t: offsets are counted from the parser's start.
Frame == [index : Nat, size : Nat]

\* Offset x, counted from the parser's start, is behind what has been parsed.
Past(x) ==
    /\ x \in Nat
    /\ parser.base + x <= fed
    /\ \A i \in parsed + 1 .. Len(stream) : parser.base + x < stream[i].from

\* The offset behind a frame.
FrameEnd(fr) == fr.index + fr.size

\* Offset x is not inside what has been framed or sent.
Clear(x) ==
    /\ framer.buffer_index <= x
    /\ \A n \in 1 .. Len(framer.frames) : FrameEnd(framer.frames[n]) <= x

\* Bytes a + 1 to b.
Run(a, b) == [i \in 1 .. b - a |-> a + i]

\* The last byte before the block that is being parsed.
Kept == IF pc = "parse" THEN fed - Len(block) ELSE fed

\* Frames lie one behind the other, behind buffer_index, in what has been
\* parsed; and the buffer holds the bytes from buffer_index on.
Framed ==
    /\ framer \in [level : Int, index : Nat, buffer_index : Nat,
                   frames : Seq(Frame),
                   buffer : Seq(1 .. fed)]
    /\ Past(framer.buffer_index)
    /\ \A n \in 1 .. Len(framer.frames) :
          /\ framer.buffer_index <= framer.frames[n].index
          /\ Past(FrameEnd(framer.frames[n]))
    /\ \A m, n \in 1 .. Len(framer.frames) :
          m < n => FrameEnd(framer.frames[m]) <= framer.frames[n].index
    /\ block \in Seq(1 .. fed)
    /\ pc = "parse" => block = Run(fed - Len(block), fed)
    /\ ~parser.broken =>
          /\ parser.base + framer.buffer_index <= Kept
          /\ framer.buffer = Run(parser.base + framer.buffer_index, Kept)

\* At level 2 and above, index is the first byte of the stanza that is open.
Pointed ==
    framer.level >= 2 =>
        /\ Clear(framer.index)
        /\ Past(framer.index)
        /\ \E j \in 1 .. parsed, k \in Int :
              /\ k = DepthAt(parsed) - framer.level + 1
              /\ OpenAt(parsed, k, j)
              /\ stream[j].kind = "open"
              /\ stream[j].from = parser.base + framer.index + 1

\* The frame holds what token i ends.
Exact(i, fr) ==
    /\ parser.base + fr.index + 1 = Begin(i)
    /\ fr.size = stream[i].to - Begin(i) + 1

\* Every frame is a stanza or a tag, or has no bytes.
Honest ==
    \A n \in 1 .. Len(framer.frames) :
        \E i \in 1 .. parsed :
            \/ Exact(i, framer.frames[n]) /\ (i \in Ends \/ Misled(i))
            \/ Misled(i) /\ framer.frames[n].size = 0

\* What has been sent is behind the buffer.
Delivered ==
    /\ sent \in Seq(Seq(1 .. fed))
    /\ \A n \in 1 .. Len(sent) : \A x \in 1 .. Len(sent[n]) :
          sent[n][x] <= parser.base + framer.buffer_index

-----------------------------------------------------------------------------
(***************************************************************************)
(* As long as no header has been missed                                    *)
(***************************************************************************)

\* Token i is a header that has been taken, at least in part, and a stream
\* has not been opened since.
Pending(i) ==
    /\ IsHeader(i)
    /\ \/ parsed < i /\ stream[i].from <= fed
       \/ i = parsed /\ stream[i].kind = "decl"

\* The parser's stack holds the elements that are open for the server.
InStep ==
    /\ Len(parser.stack) = DepthAt(parsed)
    /\ \A k \in 1 .. Len(parser.stack), m \in 1 .. parsed :
          OpenAt(parsed, k - 1, m) => parser.stack[k] = stream[m].kind

\* The parser is sound, and the stream that it is in is the server's.
Sound ==
    ~cut =>
      /\ ~parser.broken
      /\ \A i \in 1 .. Len(stream) :
            Pending(i) => /\ parser.stack = <<>> /\ ~parser.root
                          /\ framer.level = 0
                          /\ stream[i].kind = "decl" /\ parsed < i =>
                                stream[i].from = parser.base + 1
      /\ (\A i \in 1 .. Len(stream) : ~Pending(i)) => InStep

\* No stanza that has been parsed is lost.
Forwarding ==
    /\ pc = "wait" /\ ~parser.broken => framer.frames = <<>>
    /\ ~cut =>
         \A i \in 1 .. parsed :
            i \in Ends /\ ~Misled(i) =>
                \/ \E n \in 1 .. Len(sent) : sent[n] = Stanza(i)
                \/ \E n \in 1 .. Len(framer.frames) : Exact(i, framer.frames[n])

-----------------------------------------------------------------------------
(***************************************************************************)
(* Tokens                                                                  *)
(***************************************************************************)

\* The fields of a token.
LEMMA TokenFields ==
  ASSUME NEW s \in Seq(Token), NEW i \in 1 .. Len(s)
  PROVE  /\ s[i] \in Token
         /\ s[i].kind \in Kind /\ s[i].depth \in Nat
         /\ s[i].from \in Nat /\ s[i].to \in Nat
<1>1. s[i] \in Token
  OBVIOUS
<1> QED
  BY <1>1 DEF Token

\* What a token does to the depth.
LEMMA AfterCases ==
  ASSUME NEW t \in Token
  PROVE  /\ After(t) \in Int
         /\ t.kind \in Starts => After(t) = t.depth + 1
         /\ t.kind \in Closes => After(t) = t.depth - 1
         /\ t.kind \notin Starts /\ t.kind \notin Closes => After(t) = t.depth
<1>1. t.depth \in Int
  BY DEF Token
<1>2. CASE t.kind \in Starts
  <2>1. t.kind \notin Closes
    BY <1>2 DEF Starts, Closes
  <2>2. After(t) = t.depth + 1
    BY <1>2, <2>1 DEF After
  <2> QED
    BY <1>1, <1>2, <2>1, <2>2
<1>3. CASE t.kind \in Closes
  <2>1. t.kind \notin Starts
    BY <1>3 DEF Starts, Closes
  <2>2. After(t) = t.depth - 1
    BY <1>3, <2>1 DEF After
  <2> QED
    BY <1>1, <1>3, <2>1, <2>2
<1>4. CASE t.kind \notin Starts /\ t.kind \notin Closes
  <2>1. After(t) = t.depth
    BY <1>4 DEF After
  <2> QED
    BY <1>1, <1>4, <2>1
<1> QED
  BY <1>2, <1>3, <1>4

\* The depth that the server counts is the one after the last token.
LEMMA DepthLast == Depth = DepthAt(Len(stream))
<1>1. CASE stream = <<>>
  BY <1>1 DEF Depth, DepthAt
<1>2. CASE stream # <<>>
  <2>1. Depth = After(stream[Len(stream)])
    BY <1>2 DEF Depth, After
  <2> QED
    BY <2>1, <1>2 DEF DepthAt
<1> QED
  BY <1>1, <1>2

-----------------------------------------------------------------------------
(***************************************************************************)
(* The server's stream stays well-formed                                   *)
(***************************************************************************)

\* What the server may send next: a header, or a token where it stands.
Sendable(kind, depth) ==
    \/ /\ kind \in {"decl", "stream"} /\ depth = 0
       /\ \/ Last = "decl" /\ kind = "stream"
          \/ CanStart /\ Last # "decl"
    \/ /\ kind \in Kind /\ kind \notin {"decl", "stream"}
       /\ depth = Depth /\ Depth \in 1 .. MaxDepth
       /\ Last # "decl"
       /\ kind \in Starts => Depth < MaxDepth
       /\ kind \in Closes => Opener(kind) = Innermost

\* The alternatives of ServerSend.
LEMMA SendCases ==
  ASSUME ServerSend
  PROVE  \E kind \in Kind : \E depth : Sendable(kind, depth) /\ Send(kind, depth)
<1> USE DEF Kind, Plain, Namesake
<1>1. CASE CanStart /\ Last # "decl" /\ Send("decl", 0)
  BY <1>1 DEF Sendable
<1>2. CASE (CanStart \/ Last = "decl") /\ Send("stream", 0)
  BY <1>2 DEF Sendable
<1>3. CASE /\ Last # "decl"
           /\ Depth \in 1 .. MaxDepth
           /\ \/ Depth < MaxDepth /\ Send("open", Depth)
              \/ Send("empty", Depth)
              \/ /\ Namesakes < MaxNamesakes
                 /\ \/ Depth < MaxDepth /\ Send("inner", Depth)
                    \/ Send("innerempty", Depth)
              \/ Last # "space" /\ Send("space", Depth)
              \/ \E kind \in Closes : Opener(kind) = Innermost /\ Send(kind, Depth)
  <2>1. CASE Depth < MaxDepth /\ Send("open", Depth)
    BY <1>3, <2>1 DEF Sendable, Closes
  <2>2. CASE Send("empty", Depth)
    BY <1>3, <2>2 DEF Sendable, Starts, Closes
  <2>3. CASE Depth < MaxDepth /\ Send("inner", Depth)
    BY <1>3, <2>3 DEF Sendable, Closes
  <2>4. CASE Send("innerempty", Depth)
    BY <1>3, <2>4 DEF Sendable, Starts, Closes
  <2>5. CASE Send("space", Depth)
    BY <1>3, <2>5 DEF Sendable, Starts, Closes
  <2>6. CASE \E kind \in Closes : Opener(kind) = Innermost /\ Send(kind, Depth)
    <3>1. PICK kind \in Closes : Opener(kind) = Innermost /\ Send(kind, Depth)
      BY <2>6
    <3>2. kind \in Kind /\ kind \notin {"decl", "stream"} /\ kind \notin Starts
      BY DEF Starts, Closes
    <3> QED
      BY <1>3, <3>1, <3>2 DEF Sendable
  <2> QED
    BY <1>3, <2>1, <2>2, <2>3, <2>4, <2>5, <2>6
<1> QED
  BY <1>1, <1>2, <1>3 DEF ServerSend

\* The stream grows at its end.
LEMMA Grows ==
  ASSUME ServerInv, NEW kind \in Kind, NEW depth \in Nat, Send(kind, depth)
  PROVE  /\ stream' \in Seq(Token)
         /\ Len(stream') = Len(stream) + 1
         /\ \A i \in 1 .. Len(stream) : stream'[i] = stream[i]
         /\ stream'[Len(stream) + 1].kind = kind
         /\ stream'[Len(stream) + 1].depth = depth
         /\ stream'[Len(stream) + 1].from = Total + 1
         /\ stream'[Len(stream) + 1].to = Total'
         /\ Total \in Nat /\ Total' \in Nat /\ Total + 1 < Total'
<1> DEFINE t == [kind |-> kind, depth |-> depth,
                 from |-> Total + 1, to |-> Total + Size(kind)]
<1>1. Total \in Nat
  <2>1. CASE stream = <<>>
    BY <2>1 DEF Total
  <2>2. CASE stream # <<>>
    <3>1. Len(stream) \in 1 .. Len(stream)
      BY <2>2 DEF ServerInv
    <3> QED
      BY <2>2, <3>1, TokenFields DEF Total, ServerInv
  <2> QED
    BY <2>1, <2>2
<1>2. Size(kind) \in Nat /\ Size(kind) > 1
  BY DEF Size
<1>3. t \in Token
  BY <1>1, <1>2 DEF Token
<1>4. stream' = Append(stream, t) /\ stream \in Seq(Token)
  BY DEF Send, ServerInv
<1>5. /\ t.kind = kind /\ t.depth = depth /\ t.from = Total + 1
      /\ t.to = Total + Size(kind)
  OBVIOUS
<1> HIDE DEF t
<1>6. /\ stream' \in Seq(Token) /\ Len(stream') = Len(stream) + 1
      /\ \A i \in 1 .. Len(stream) : stream'[i] = stream[i]
      /\ stream'[Len(stream) + 1] = t
  BY <1>3, <1>4
<1>7. Total' = t.to
  <2>1. stream' # <<>>
    BY <1>4
  <2> QED
    BY <1>4, <1>6, <2>1 DEF Total
<1> QED
  BY <1>1, <1>2, <1>5, <1>6, <1>7

\* What is said of the first tokens stays true of them.
LEMMA PrefixKept ==
  ASSUME NEW N \in Nat, \A i \in 1 .. N : stream'[i] = stream[i]
  PROVE  /\ \A s \in 0 .. N : DepthAt(s)' = DepthAt(s)
         /\ \A i \in 1 .. N : IsHeader(i)' <=> IsHeader(i)
         /\ \A i \in 1 .. N : Renews(i)' <=> Renews(i)
         /\ \A s \in 0 .. N, k \in Int, m \in 1 .. N :
               OpenAt(s, k, m)' <=> OpenAt(s, k, m)
         /\ \A i \in 0 .. N : Misled(i)' <=> Misled(i)
<1>1. ASSUME NEW s \in 0 .. N PROVE DepthAt(s)' = DepthAt(s)
  BY <1>1 DEF DepthAt, After
<1>2. ASSUME NEW i \in 1 .. N PROVE IsHeader(i)' <=> IsHeader(i)
  BY DEF IsHeader
<1>3. ASSUME NEW i \in 1 .. N PROVE Renews(i)' <=> Renews(i)
  <2>1. CASE i = 1
    BY <1>2, <2>1 DEF Renews
  <2>2. CASE i > 1
    <3>1. stream'[i - 1] = stream[i - 1]
      BY <2>2
    <3> QED
      BY <1>2, <3>1 DEF Renews
  <2> QED
    BY <2>1, <2>2
<1>4. ASSUME NEW s \in 0 .. N, NEW k \in Int, NEW m \in 1 .. N
      PROVE  OpenAt(s, k, m)' <=> OpenAt(s, k, m)
  <2>1. stream'[m] = stream[m]
    OBVIOUS
  <2>2. \A x \in m + 1 .. s : stream'[x] = stream[x]
    OBVIOUS
  <2> QED
    BY <2>1, <2>2 DEF OpenAt
<1>5. ASSUME NEW i \in 0 .. N PROVE Misled(i)' <=> Misled(i)
  <2>1. \A j \in 1 .. i : stream'[j] = stream[j]
    OBVIOUS
  <2>2. \A j \in 1 .. i : \A k \in j .. i : stream'[k] = stream[k]
    BY <2>1
  <2> QED
    BY <2>1, <2>2 DEF Misled
<1> QED
  BY <1>1, <1>2, <1>3, <1>4, <1>5

\* The latest start tag at a depth is the only one.
LEMMA OpenUnique ==
  ASSUME NEW s \in Nat, NEW k \in Int, NEW m \in 1 .. s, NEW n \in 1 .. s,
         OpenAt(s, k, m), OpenAt(s, k, n)
  PROVE  m = n
<1>1. CASE m < n
  <2>1. n \in m + 1 .. s
    BY <1>1
  <2> QED
    BY <2>1 DEF OpenAt
<1>2. CASE n < m
  <2>1. m \in n + 1 .. s
    BY <1>2
  <2> QED
    BY <2>1 DEF OpenAt
<1> QED
  BY <1>1, <1>2

\* Tokens have a depth that the bounds allow.
LEMMA DepthType ==
  ASSUME stream \in Seq(Token), Nested, NEW s \in 0 .. Len(stream)
  PROVE  DepthAt(s) \in 0 .. MaxDepth
<1>1. CASE s = 0
  BY <1>1, BoundsAssumption DEF DepthAt
<1>2. CASE s # 0
  BY <1>2 DEF Nested
<1> QED
  BY <1>1, <1>2

\* An end tag ends an element that is open.
LEMMA CloseDepth ==
  ASSUME ServerInv, NEW i \in 1 .. Len(stream), stream[i].kind \in Closes
  PROVE  /\ i > 1 /\ ~IsHeader(i)
         /\ stream[i].depth = DepthAt(i - 1) /\ stream[i].depth \in Nat
         /\ stream[i].depth >= 1
         /\ \E m \in 1 .. i - 1 : OpenAt(i - 1, stream[i].depth - 1, m)
<1>1. ~IsHeader(i)
  BY DEF IsHeader, Closes
<1>2. i > 1 /\ stream[i].depth = DepthAt(i - 1) /\ stream[i].depth >= 1
  BY <1>1 DEF ServerInv, Nested
<1>3. stream[i].depth \in Nat
  BY TokenFields DEF ServerInv
<1>4. i - 1 \in 0 .. Len(stream) /\ stream[i].depth - 1 \in Nat
  BY <1>2, <1>3 DEF ServerInv
<1>5. \E m \in 1 .. i - 1 : OpenAt(i - 1, stream[i].depth - 1, m)
  <2>1. stream[i].depth - 1 < DepthAt(i - 1)
    BY <1>2, <1>3
  <2> QED
    BY <1>4, <2>1 DEF ServerInv, Opened
<1> QED
  BY <1>1, <1>2, <1>3, <1>5

\* The start tags that Begin chooses from.
Openings(i) ==
    {j \in 1 .. i : stream[j].kind = "open"
                      /\ stream[j].depth = stream[i].depth - 1}

\* The element that an end tag ends begins at its start tag.
LEMMA BeginIs ==
  ASSUME ServerInv, NEW i \in 1 .. Len(stream), stream[i].kind = "close",
         NEW m \in 1 .. i - 1, OpenAt(i - 1, stream[i].depth - 1, m)
  PROVE  /\ stream[m].kind = "open"
         /\ (CHOOSE j \in Openings(i) : \A k \in Openings(i) : k <= j) = m
         /\ Begin(i) = stream[m].from
<1> DEFINE opens == {j \in 1 .. i : stream[j].kind = "open"
                                      /\ stream[j].depth = stream[i].depth - 1}
<1>1. stream[m].kind = Opener(stream[i].kind)
  <2>1. /\ stream[i].kind \in Closes
        /\ stream[i].depth - 1 \in Nat
        /\ (stream[i].depth - 1) + 1 = stream[i].depth
    BY SMTT(30), CloseDepth DEF Closes
  <2> QED
    BY <2>1 DEF ServerInv, Matched
<1>2. stream[m].kind = "open"
  BY <1>1 DEF Opener
<1>3. m \in opens
  BY <1>2 DEF OpenAt
<1>4. ASSUME NEW j \in opens PROVE j <= m
  <2> SUFFICES ASSUME m < j PROVE FALSE
    BY <1>3
  <2>1. j # i /\ stream[j].kind \in Starts
    BY DEF Starts
  <2>2. j \in m + 1 .. i - 1
    BY <2>1
  <2>3. stream[j].depth > stream[i].depth - 1
    BY <2>1, <2>2 DEF OpenAt
  <2>4. stream[j].depth = stream[i].depth - 1 /\ stream[i].depth \in Nat
    BY TokenFields DEF ServerInv
  <2> QED
    BY <2>3, <2>4
<1>5. (CHOOSE j \in opens : \A k \in opens : k <= j) = m
  <2> DEFINE c == CHOOSE j \in opens : \A k \in opens : k <= j
  <2>1. c \in opens /\ \A k \in opens : k <= c
    BY <1>3, <1>4
  <2>2. m <= c /\ c <= m
    BY <1>3, <1>4, <2>1
  <2>3. c \in Int
    BY <2>1
  <2> HIDE DEF c
  <2>4. c = m
    BY <2>2, <2>3
  <2> QED
    BY <2>4 DEF c
<1>6. Openings(i) = opens
  BY DEF Openings
<1>7. Begin(i) = stream[m].from
  BY <1>5 DEF Begin
<1> HIDE DEF opens
<1> QED
  BY <1>2, <1>5, <1>6, <1>7

\* Where an element begins, and its bytes, are naturals.
LEMMA BeginType ==
  ASSUME ServerInv, NEW i \in 1 .. Len(stream)
  PROVE  /\ Begin(i) \in Nat /\ 1 <= Begin(i) /\ Begin(i) <= stream[i].to
         /\ stream[i].to \in Nat /\ stream[i].from \in Nat
         /\ stream[i].from <= stream[i].to
<1>1. /\ stream[i].from \in Nat /\ stream[i].to \in Nat
      /\ 1 <= stream[i].from /\ stream[i].from <= stream[i].to
  BY TokenFields DEF ServerInv, Placed
<1>2. CASE stream[i].kind # "close"
  BY <1>1, <1>2 DEF Begin
<1>3. CASE stream[i].kind = "close"
  <2>1. PICK m \in 1 .. i - 1 : OpenAt(i - 1, stream[i].depth - 1, m)
    BY <1>3, CloseDepth DEF Closes
  <2>2. Begin(i) = stream[m].from
    BY <1>3, <2>1, BeginIs
  <2>3. /\ m \in 1 .. Len(stream) /\ m < i
    BY DEF ServerInv
  <2>4. stream[m].to < stream[i].from
    BY <2>3 DEF ServerInv, Placed
  <2>5. /\ stream[m].from \in Nat /\ stream[m].to \in Nat
        /\ 1 <= stream[m].from /\ stream[m].from <= stream[m].to
    BY <2>3, TokenFields DEF ServerInv, Placed
  <2> QED
    BY <1>1, <2>2, <2>4, <2>5
<1> QED
  BY <1>1, <1>2, <1>3

\* Where an element begins does not depend on what follows it.
LEMMA BeginKept ==
  ASSUME ServerInv, NEW N \in Nat, N <= Len(stream),
         \A i \in 1 .. N : stream'[i] = stream[i],
         NEW i \in 1 .. N
  PROVE  Begin(i)' = Begin(i) /\ Stanza(i)' = Stanza(i)
<1>1. stream'[i] = stream[i] /\ i \in 1 .. Len(stream)
  BY DEF ServerInv
<1>2. Begin(i)' = Begin(i)
  <2>1. CASE stream[i].kind # "close"
    BY <1>1, <2>1 DEF Begin
  <2>2. CASE stream[i].kind = "close"
    <3>1. PICK m \in 1 .. i - 1 : OpenAt(i - 1, stream[i].depth - 1, m)
      BY <1>1, <2>2, CloseDepth DEF Closes
    <3>2. /\ (CHOOSE j \in Openings(i) : \A k \in Openings(i) : k <= j) = m
          /\ Begin(i) = stream[m].from
      BY <1>1, <2>2, <3>1, BeginIs
    <3>3. Openings(i)' = Openings(i)
      <4>1. \A j \in 1 .. i : stream'[j] = stream[j]
        OBVIOUS
      <4> QED
        BY <1>1, <4>1 DEF Openings
    <3>4. Begin(i)' = stream'[CHOOSE j \in Openings(i)' :
                                  \A k \in Openings(i)' : k <= j].from
      BY <1>1, <2>2 DEF Begin, Openings
    <3>5. Begin(i)' = stream'[m].from
      BY <3>2, <3>3, <3>4
    <3> QED
      BY <3>2, <3>5
  <2> QED
    BY <2>1, <2>2
<1>3. Stanza(i)' = Stanza(i)
  BY <1>1, <1>2 DEF Stanza
<1> QED
  BY <1>2, <1>3

\* A token that the server may send keeps its stream well-formed.
LEMMA SendServer ==
  ASSUME ServerInv, NEW kind \in Kind, NEW depth \in Nat,
         Sendable(kind, depth), Send(kind, depth)
  PROVE  ServerInv'
<1>0. PICK N \in Nat : N = Len(stream) /\ stream \in Seq(Token)
  BY DEF ServerInv
<1> DEFINE t == stream'[N + 1]
<1>1. /\ stream' \in Seq(Token)
      /\ Len(stream') = N + 1
      /\ \A i \in 1 .. N : stream'[i] = stream[i]
      /\ t.kind = kind /\ t.depth = depth
      /\ t.from = Total + 1 /\ t.to = Total'
      /\ Total \in Nat /\ Total' \in Nat /\ Total + 1 < Total'
  BY <1>0, Grows
<1>2. /\ \A s \in 0 .. N : DepthAt(s)' = DepthAt(s)
      /\ \A i \in 1 .. N : IsHeader(i)' <=> IsHeader(i)
      /\ \A i \in 1 .. N : Renews(i)' <=> Renews(i)
      /\ \A s \in 0 .. N, k \in Int, m \in 1 .. N :
            OpenAt(s, k, m)' <=> OpenAt(s, k, m)
  BY <1>0, <1>1, PrefixKept
<1>3. t \in Token /\ N + 1 \in 1 .. Len(stream')
  BY <1>0, <1>1
<1>4. DepthAt(N + 1)' = After(t)
  BY <1>0 DEF DepthAt
<1>5. Depth = DepthAt(N) /\ Depth \in 0 .. MaxDepth
  <2>1. N \in 0 .. N
    BY <1>0
  <2> QED
    BY <1>0, <2>1, DepthLast, DepthType DEF ServerInv
<1>6. /\ IsHeader(N + 1)' <=> kind \in {"decl", "stream"}
  BY <1>1 DEF IsHeader
<1>7. Last = IF N = 0 THEN "none" ELSE stream[N].kind
  BY <1>0 DEF Last
<1>8. Placed'
  <2>1. ASSUME NEW i \in 1 .. N
        PROVE  /\ 1 <= stream'[i].from /\ stream'[i].from <= stream'[i].to
               /\ stream'[i].to <= Total' /\ stream'[i].to < t.from
    <3>1. /\ 1 <= stream[i].from /\ stream[i].from <= stream[i].to
          /\ stream[i].to <= Total
      BY <1>0 DEF ServerInv, Placed
    <3>2. stream[i].from \in Nat /\ stream[i].to \in Nat
      BY <1>0, TokenFields
    <3> QED
      BY <1>1, <3>1, <3>2
  <2>2. 1 <= t.from /\ t.from <= t.to /\ t.to <= Total'
    BY <1>1
  <2> HIDE DEF t
  <2>3. ASSUME NEW i \in 1 .. N + 1
        PROVE  /\ 1 <= stream'[i].from /\ stream'[i].from <= stream'[i].to
               /\ stream'[i].to <= Total'
    <3>1. CASE i \in 1 .. N
      BY <2>1, <3>1
    <3>2. CASE i = N + 1
      BY <2>2, <3>2 DEF t
    <3> QED
      BY <1>0, <3>1, <3>2
  <2>4. ASSUME NEW i \in 1 .. N + 1, NEW j \in 1 .. N + 1, i < j
        PROVE  stream'[i].to < stream'[j].from
    <3>1. i \in 1 .. N
      BY <1>0, <2>4
    <3>2. CASE j \in 1 .. N
      BY <1>0, <1>1, <2>4, <3>1, <3>2 DEF ServerInv, Placed
    <3>3. CASE j = N + 1
      BY <2>1, <3>1, <3>3 DEF t
    <3> QED
      BY <1>0, <3>2, <3>3
  <2> QED
    BY <1>1, <2>3, <2>4 DEF Placed
<1>9. Nested'
  <2>1. ASSUME NEW i \in 1 .. N
        PROVE  /\ DepthAt(i)' \in 0 .. MaxDepth
               /\ stream'[i].kind = "decl" => Renews(i)'
               /\ IsHeader(i)' => stream'[i].depth = 0
               /\ ~IsHeader(i)' =>
                    /\ i > 1
                    /\ stream'[i].depth = DepthAt(i - 1)'
                    /\ stream'[i].depth >= 1
                    /\ stream'[i - 1].kind # "decl"
    <3>1. /\ DepthAt(i) \in 0 .. MaxDepth
          /\ stream[i].kind = "decl" => Renews(i)
          /\ IsHeader(i) => stream[i].depth = 0
          /\ ~IsHeader(i) =>
               /\ i > 1
               /\ stream[i].depth = DepthAt(i - 1)
               /\ stream[i].depth >= 1
               /\ stream[i - 1].kind # "decl"
      BY <1>0 DEF ServerInv, Nested
    <3>2. i \in 0 .. N /\ i - 1 \in 0 .. N /\ (i > 1 => i - 1 \in 1 .. N)
      BY <1>0
    <3>3. DepthAt(i)' = DepthAt(i) /\ DepthAt(i - 1)' = DepthAt(i - 1)
      BY <1>2, <3>2
    <3>4. i > 1 => stream'[i - 1] = stream[i - 1]
      BY <1>1, <3>2
    <3> QED
      BY <1>1, <1>2, <3>1, <3>3, <3>4
  <2>2. DepthAt(N + 1)' \in 0 .. MaxDepth
    <3>1. CASE kind \in {"decl", "stream"}
      <4>1. depth = 0
        BY <3>1 DEF Sendable
      <4>2. After(t) \in 0 .. 1
        BY <1>1, <1>3, <3>1, <4>1, AfterCases DEF Starts, Closes
      <4> QED
        BY <1>4, <4>2, BoundsAssumption
    <3>2. CASE kind \notin {"decl", "stream"}
      <4>1. depth = Depth /\ Depth \in 1 .. MaxDepth /\ (kind \in Starts => Depth < MaxDepth)
        BY <3>2 DEF Sendable
      <4>2. CASE kind \in Starts
        BY <1>1, <1>3, <1>4, <4>1, <4>2, AfterCases, BoundsAssumption
      <4>3. CASE kind \in Closes
        BY <1>1, <1>3, <1>4, <4>1, <4>3, AfterCases, BoundsAssumption
      <4>4. CASE kind \notin Starts /\ kind \notin Closes
        BY <1>1, <1>3, <1>4, <4>1, <4>4, AfterCases, BoundsAssumption
      <4> QED
        BY <4>2, <4>3, <4>4
    <3> QED
      BY <3>1, <3>2
  <2>3. IsHeader(N + 1)' => t.depth = 0
    BY <1>1, <1>6 DEF Sendable
  <2>4. ~IsHeader(N + 1)' =>
          /\ N + 1 > 1
          /\ t.depth = DepthAt(N)'
          /\ t.depth >= 1
          /\ stream'[N].kind # "decl"
    <3> SUFFICES ASSUME ~IsHeader(N + 1)'
                 PROVE  /\ N + 1 > 1
                        /\ t.depth = DepthAt(N)'
                        /\ t.depth >= 1
                        /\ stream'[N].kind # "decl"
      OBVIOUS
    <3>1. depth = Depth /\ Depth \in 1 .. MaxDepth /\ Last # "decl"
      BY <1>6 DEF Sendable
    <3>2. N # 0
      BY <1>5, <3>1 DEF DepthAt
    <3>3. N \in 1 .. N /\ N \in 0 .. N
      BY <1>0, <3>2
    <3>4. stream'[N] = stream[N] /\ DepthAt(N)' = DepthAt(N)
      BY <1>1, <1>2, <3>3
    <3> QED
      BY <1>0, <1>1, <1>5, <1>7, <3>1, <3>2, <3>4
  <2>5. (N + 1) - 1 = N
    BY <1>0
  <2>7. t.kind = "decl" => Renews(N + 1)'
    <3> SUFFICES ASSUME t.kind = "decl" PROVE Renews(N + 1)'
      OBVIOUS
    <3>1. IsHeader(N + 1)' /\ Last # "decl"
      BY <1>1, <1>6 DEF Sendable
    <3>2. N > 0 => stream'[N] = stream[N] /\ stream[N].kind # "decl"
      BY <1>1, <1>7, <3>1
    <3> QED
      BY <2>5, <3>1, <3>2 DEF Renews
  <2> HIDE DEF t
  <2>6. ASSUME NEW i \in 1 .. N + 1
        PROVE  /\ DepthAt(i)' \in 0 .. MaxDepth
               /\ stream'[i].kind = "decl" => Renews(i)'
               /\ IsHeader(i)' => stream'[i].depth = 0
               /\ ~IsHeader(i)' =>
                    /\ i > 1
                    /\ stream'[i].depth = DepthAt(i - 1)'
                    /\ stream'[i].depth >= 1
                    /\ stream'[i - 1].kind # "decl"
    <3>1. CASE i \in 1 .. N
      BY <2>1, <3>1
    <3>2. CASE i = N + 1
      BY <2>2, <2>3, <2>4, <2>5, <2>7, <3>2 DEF t
    <3> QED
      BY <1>0, <3>1, <3>2
  <2> QED
    BY <1>1, <2>6 DEF Nested
<1>10. Opened'
  <2> SUFFICES ASSUME NEW s \in 0 .. N + 1, NEW k \in Nat, k < DepthAt(s)'
               PROVE  \E m \in 1 .. s : OpenAt(s, k, m)'
    BY <1>1 DEF Opened
  <2>1. CASE s \in 0 .. N
    <3>1. k < DepthAt(s)
      BY <1>2, <2>1
    <3>2. PICK m \in 1 .. s : OpenAt(s, k, m)
      BY <1>0, <2>1, <3>1 DEF ServerInv, Opened
    <3>3. m \in 1 .. N /\ k \in Int
      BY <1>0, <2>1
    <3> QED
      BY <1>2, <2>1, <3>2, <3>3
  <2>2. CASE s = N + 1 /\ k < Depth /\ (kind \in Starts => k < depth)
    <3>1. PICK m \in 1 .. N : OpenAt(N, k, m)
      <4>1. N \in 0 .. N
        BY <1>0
      <4> QED
        BY <1>0, <1>5, <2>2, <4>1 DEF ServerInv, Opened
    <3>2. OpenAt(N, k, m)'
      <4>1. N \in 0 .. N /\ k \in Int
        BY <1>0
      <4> QED
        BY <1>2, <3>1, <4>1
    <3>3. ASSUME NEW x \in m + 1 .. N + 1, stream'[x].kind \in Starts
          PROVE  stream'[x].depth > k
      <4>1. CASE x \in m + 1 .. N
        BY <3>2, <3>3, <4>1 DEF OpenAt
      <4>2. CASE x = N + 1
        BY <1>1, <2>2, <3>3, <4>2
      <4> QED
        BY <1>0, <4>1, <4>2
    <3>4. OpenAt(N + 1, k, m)'
      BY <1>0, <3>2, <3>3 DEF OpenAt
    <3> QED
      BY <1>0, <2>2, <3>4
  <2>3. CASE s = N + 1 /\ kind \in Starts /\ k = depth
    <3>1. OpenAt(N + 1, k, N + 1)'
      BY <1>0, <1>1, <2>3 DEF OpenAt
    <3> QED
      BY <1>0, <2>3, <3>1
  <2>4. CASE s = N + 1 /\ ~(k < Depth /\ (kind \in Starts => k < depth))
                       /\ ~(kind \in Starts /\ k = depth)
    <3>1. k < After(t)
      BY <1>4, <2>4
    <3>2. CASE kind \in Starts
      <4>1. After(t) = depth + 1
        BY <1>1, <1>3, <3>2, AfterCases
      <4>2. k < depth
        BY <2>4, <3>1, <3>2, <4>1
      <4>3. depth = 0 \/ depth = Depth
        BY DEF Sendable
      <4> QED
        BY <2>4, <4>2, <4>3
    <3>3. CASE kind \notin Starts
      <4>1. After(t) <= depth
        BY <1>1, <1>3, <3>3, AfterCases
      <4>2. depth = 0 \/ depth = Depth
        BY DEF Sendable
      <4>3. After(t) \in Int
        BY <1>3, AfterCases
      <4> QED
        BY <1>5, <2>4, <3>1, <3>3, <4>1, <4>2, <4>3
    <3> QED
      BY <3>2, <3>3
  <2> QED
    BY <1>0, <2>1, <2>2, <2>3, <2>4
<1>11. Matched'
  <2> SUFFICES ASSUME NEW i \in 1 .. N + 1, stream'[i].kind \in Closes,
                      NEW m \in 1 .. i - 1, NEW k \in Nat,
                      k + 1 = stream'[i].depth, OpenAt(i - 1, k, m)'
               PROVE  stream'[m].kind = Opener(stream'[i].kind)
    BY <1>1 DEF Matched
  <2>1. /\ m \in 1 .. N /\ i - 1 \in 0 .. N /\ k \in Int
    BY <1>0
  <2>2. OpenAt(i - 1, k, m) /\ stream'[m] = stream[m]
    BY <1>1, <1>2, <2>1
  <2>3. CASE i \in 1 .. N
    <3>1. stream'[i] = stream[i]
      BY <1>1, <2>3
    <3> QED
      BY <1>0, <2>2, <2>3, <3>1 DEF ServerInv, Matched
  <2>4. CASE i = N + 1
    <3>1. kind \in Closes /\ k + 1 = depth
      BY <1>1, <2>4
    <3>2. depth = Depth /\ Opener(kind) = Innermost
      BY <3>1 DEF Sendable, Closes
    <3>3. OpenAt(N, k, m)
      BY <1>0, <2>2, <2>4
    <3> DEFINE open == {x \in 1 .. Len(stream) :
                  stream[x].kind \in Starts /\ stream[x].depth = Depth - 1}
               c == CHOOSE x \in open : \A y \in open : y <= x
    <3>4. m \in open
      BY <1>0, <1>5, <2>1, <3>1, <3>2, <3>3 DEF OpenAt
    <3>5. ASSUME NEW y \in open PROVE y <= m
      <4> SUFFICES ASSUME m < y PROVE FALSE
        BY <2>1
      <4>1. y \in m + 1 .. N
        BY <1>0
      <4>2. stream[y].depth > k
        BY <3>3, <4>1 DEF OpenAt
      <4>3. stream[y].depth = Depth - 1
        OBVIOUS
      <4> QED
        BY <1>5, <3>1, <3>2, <4>2, <4>3
    <3>6. c \in open /\ \A y \in open : y <= c
      BY <3>4, <3>5
    <3>7. c = m
      <4>1. c \in Int /\ c <= m /\ m <= c
        BY <3>4, <3>5, <3>6
      <4> QED
        BY <2>1, <4>1
    <3>8. Innermost = stream[c].kind
      BY DEF Innermost
    <3> QED
      BY <1>1, <2>2, <2>4, <3>2, <3>7, <3>8
  <2> QED
    BY <1>0, <2>3, <2>4
<1> QED
  BY <1>1, <1>8, <1>9, <1>10, <1>11 DEF ServerInv

-----------------------------------------------------------------------------
(***************************************************************************)
(* The invariant, and the server's steps                                   *)
(***************************************************************************)

\* The inductive invariant.
Inv ==
    /\ ServerInv
    /\ Taken
    /\ Levelled
    /\ Framed
    /\ Pointed
    /\ Honest
    /\ Delivered
    /\ ForwardedExactly
    /\ Sound
    /\ Forwarding

\* The end of what the server has sent is a position.
LEMMA TotalType ==
  ASSUME ServerInv
  PROVE  /\ Total \in Nat
         /\ \A i \in 1 .. Len(stream) :
               /\ stream[i].from \in Nat /\ stream[i].to \in Nat
               /\ 1 <= stream[i].from /\ stream[i].from <= stream[i].to
               /\ stream[i].to <= Total
<1>1. ASSUME NEW i \in 1 .. Len(stream)
      PROVE  /\ stream[i].from \in Nat /\ stream[i].to \in Nat
             /\ 1 <= stream[i].from /\ stream[i].from <= stream[i].to
             /\ stream[i].to <= Total
  BY TokenFields DEF ServerInv, Placed
<1>2. CASE stream = <<>>
  BY <1>2 DEF Total
<1>3. CASE stream # <<>>
  <2>1. Len(stream) \in 1 .. Len(stream)
    BY <1>3 DEF ServerInv
  <2> QED
    BY <1>1, <1>3, <2>1 DEF Total
<1> QED
  BY <1>1, <1>2, <1>3

\* The server sends while cm_readcb is anywhere.
LEMMA SendStep ==
  ASSUME Inv, ServerSend
  PROVE  Inv'
<1>0. PICK kind \in Kind : \E depth : Sendable(kind, depth) /\ Send(kind, depth)
  BY SendCases
<1>1. PICK depth : Sendable(kind, depth) /\ Send(kind, depth)
  BY <1>0
<1>2. depth \in Nat
  <2>1. depth = 0 \/ (depth = Depth /\ Depth \in 1 .. MaxDepth)
    BY <1>1 DEF Sendable
  <2> QED
    BY <2>1, BoundsAssumption
<1>3. ServerInv'
  BY <1>1, <1>2, SendServer DEF Inv
<1>a. PICK N \in Nat : N = Len(stream)
  BY DEF Inv, ServerInv
<1>4. PICK p \in 0 .. N : N = Len(stream) /\ p = parsed
  BY <1>a DEF Inv, Taken
<1>5. /\ Len(stream') = N + 1
      /\ \A i \in 1 .. N : stream'[i] = stream[i]
      /\ stream'[N + 1].kind = kind
      /\ stream'[N + 1].from = Total + 1 /\ stream'[N + 1].to = Total'
      /\ Total \in Nat /\ Total' \in Nat /\ Total + 1 < Total'
  BY <1>1, <1>2, <1>4, Grows DEF Inv
<1>6. /\ \A s \in 0 .. N : DepthAt(s)' = DepthAt(s)
      /\ \A i \in 1 .. N : IsHeader(i)' <=> IsHeader(i)
      /\ \A i \in 1 .. N : Renews(i)' <=> Renews(i)
      /\ \A s \in 0 .. N, k \in Int, m \in 1 .. N :
            OpenAt(s, k, m)' <=> OpenAt(s, k, m)
      /\ \A i \in 0 .. N : Misled(i)' <=> Misled(i)
  BY <1>5, PrefixKept
<1>7. /\ \A i \in 1 .. N : Begin(i)' = Begin(i) /\ Stanza(i)' = Stanza(i)
  BY <1>4, <1>5, BeginKept DEF Inv
<1>8. \A i \in 1 .. N : i \in Ends' <=> i \in Ends
  BY <1>4, <1>5 DEF Ends
<1>9. /\ fed' = fed /\ parsed' = p /\ parsed = p /\ parser' = parser
      /\ framer' = framer /\ avail' = avail /\ block' = block /\ pc' = pc
      /\ sent' = sent /\ cut' = cut
  BY <1>1, <1>4 DEF Send
<1>10. fed \in Nat /\ fed <= Total /\ parser.base \in Nat /\ parser.base <= fed
  BY DEF Inv, Taken, Untouched, NewParser
<1>11. (N + 1 \in 1 .. N + 1) /\ (N + 1 \notin 1 .. N)
  OBVIOUS
<1>12. Renews(N + 1)' => CanStart
  <2> SUFFICES ASSUME Renews(N + 1)', ~CanStart PROVE FALSE
    OBVIOUS
  <2>1. kind \in {"decl", "stream"}
    BY <1>5 DEF Renews, IsHeader
  <2>2. Last = "decl"
    BY <1>1, <2>1 DEF Sendable
  <2>3. N # 0 /\ stream[N].kind = "decl"
    BY <1>4, <2>2 DEF Last
  <2>4. (N + 1) - 1 = N /\ N + 1 > 1 /\ stream'[N] = stream[N]
    BY <1>5, <2>3
  <2> QED
    BY <2>3, <2>4 DEF Renews
<1>13. CanStart => fed = Total /\ pc = "wait"
  <2>1. CASE stream = <<>>
    <3>1. fed = 0 /\ Total = 0
      BY <1>10, <2>1 DEF Total
    <3>2. Untouched
      BY <1>10, <3>1 DEF Inv, Taken
    <3> QED
      BY <3>1, <3>2 DEF Untouched
  <2>2. CASE Restart
    BY <2>2 DEF Restart
  <2> QED
    BY <2>1, <2>2 DEF CanStart
<1>14. fed = Total /\ pc = "wait" /\ ~parser.broken => p = N
  <2> SUFFICES ASSUME fed = Total, pc = "wait", ~parser.broken, p # N
               PROVE  FALSE
    OBVIOUS
  <2>1. N \in p + 1 .. N /\ N \in 1 .. N
    OBVIOUS
  <2>2. fed < stream[N].to
    BY <1>4, <2>1 DEF Inv, Taken
  <2>3. stream[N].to <= Total /\ stream[N].to \in Nat
    BY <1>4, <2>1, TotalType DEF Inv
  <2> QED
    BY <1>5, <2>2, <2>3
<1>15. Taken'
  <2>1. fed' \in Nat /\ fed' <= Total' /\ avail' \in Nat /\ avail' <= Total' - fed'
    <3>1. avail \in Nat /\ avail <= Total - fed
      BY DEF Inv, Taken
    <3>2. PICK u \in Nat, v \in Nat : u = Total /\ v = Total'
      BY <1>5
    <3>3. u + 1 < v /\ fed \in Nat /\ fed <= u /\ avail <= u - fed
      BY <1>5, <1>10, <3>1, <3>2
    <3>4. fed <= v /\ avail <= v - fed
      BY <3>1, <3>3
    <3> QED
      BY <1>9, <3>1, <3>2, <3>3, <3>4
  <2>2. parsed' \in 0 .. Len(stream')
    BY <1>5, <1>9
  <2>3. /\ pc' \in {"wait", "parse", "read"} /\ cut' \in BOOLEAN
        /\ (pc' = "read" => ~parser'.broken) /\ parser'.base \in Nat
    BY <1>9 DEF Inv, Taken
  <2>4. parser'.base < fed' \/ Untouched'
    BY <1>9 DEF Inv, Taken, Untouched, NewParser, framer_create
  <2>5. \A i \in 1 .. parsed' : stream'[i].to <= fed'
    BY SMTT(30), <1>5, <1>9 DEF Inv, Taken
  <2>6. \A i \in parsed' + 1 .. Len(stream') : parser'.base < stream'[i].from
    <3> SUFFICES ASSUME NEW i \in p + 1 .. N + 1
                 PROVE  parser.base < stream'[i].from
      BY <1>5, <1>9
    <3>1. CASE i \in p + 1 .. N
      BY <1>4, <1>5, <3>1 DEF Inv, Taken
    <3>2. CASE i = N + 1
      BY <1>5, <1>10, <3>2
    <3> QED
      BY <3>1, <3>2
  <2>7. \A i \in 1 .. Len(stream') :
          Renews(i)' => /\ stream'[i].from - 1 <= fed'
                        /\ stream'[i].from - 1 = fed' => pc' = "wait"
    <3> SUFFICES ASSUME NEW i \in 1 .. N + 1, Renews(i)'
                 PROVE  /\ stream'[i].from - 1 <= fed
                        /\ stream'[i].from - 1 = fed => pc = "wait"
      BY <1>5, <1>9
    <3>1. CASE i \in 1 .. N
      BY <1>4, <1>5, <1>6, <3>1 DEF Inv, Taken
    <3>2. CASE i = N + 1
      BY <1>5, <1>10, <1>12, <1>13, <3>2
    <3> QED
      BY <3>1, <3>2
  <2>8. ~parser'.broken /\ pc' # "parse" =>
          \A i \in parsed' + 1 .. Len(stream') : fed' < stream'[i].to
    <3> SUFFICES ASSUME ~parser.broken, pc # "parse", NEW i \in p + 1 .. N + 1
                 PROVE  fed < stream'[i].to
      BY <1>5, <1>9
    <3>1. CASE i \in p + 1 .. N
      BY <1>4, <1>5, <3>1 DEF Inv, Taken
    <3>2. CASE i = N + 1
      BY <1>5, <1>10, <3>2
    <3> QED
      BY <3>1, <3>2
  <2>9. ~parser'.broken =>
          \A i \in 1 .. Len(stream') : Renews(i)' => i - 1 <= parsed'
    <3> SUFFICES ASSUME ~parser.broken, NEW i \in 1 .. N + 1, Renews(i)'
                 PROVE  i - 1 <= p
      BY <1>5, <1>9
    <3>1. CASE i \in 1 .. N
      BY <1>4, <1>5, <1>6, <3>1 DEF Inv, Taken
    <3>2. CASE i = N + 1
      BY <1>12, <1>13, <1>14, <3>2
    <3> QED
      BY <3>1, <3>2
  <2> QED
    BY <2>1, <2>2, <2>3, <2>4, <2>5, <2>6, <2>7, <2>8, <2>9 DEF Taken
<1>16. Levelled'
  <2>1. DepthAt(parsed)' = DepthAt(parsed)
    <3>1. DepthAt(p)' = DepthAt(p)
      BY <1>6
    <3> QED
      BY <1>9, <3>1 DEF DepthAt
  <2>2. Misled(parsed)' <=> Misled(parsed)
    <3>1. Misled(p)' <=> Misled(p)
      BY <1>6
    <3> QED
      BY <1>9, <3>1 DEF Misled
  <2>3. \A i \in parsed' + 1 .. Len(stream') :
          stream'[i].from = parser'.base + 1 => framer'.level = 0
    <3> SUFFICES ASSUME NEW i \in p + 1 .. N + 1,
                        stream'[i].from = parser.base + 1
                 PROVE  framer.level = 0
      BY <1>5, <1>9
    <3>1. CASE i \in p + 1 .. N
      BY <1>4, <1>5, <3>1 DEF Inv, Levelled
    <3>2. CASE i = N + 1
      <4>1. ~(parser.base < fed)
        BY <1>5, <1>10, <3>2
      <4> QED
        BY <4>1 DEF Inv, Taken, Untouched, framer_create
    <3> QED
      BY <3>1, <3>2
  <2>4. (parsed < Len(stream) /\ IsHeader(parsed + 1)
           /\ stream[parsed + 1].from = parser.base + 1) =>
        (parsed' < Len(stream') /\ IsHeader(parsed + 1)'
           /\ stream'[parsed' + 1].from = parser'.base + 1)
    <3> SUFFICES ASSUME p < N, IsHeader(p + 1),
                        stream[p + 1].from = parser.base + 1
                 PROVE  /\ p < N + 1 /\ IsHeader(p + 1)'
                        /\ stream'[p + 1].from = parser.base + 1
      BY <1>4, <1>5, <1>9 DEF IsHeader
    <3>1. p + 1 \in 1 .. N
      OBVIOUS
    <3> QED
      BY <1>5, <1>6, <3>1
  <2> QED
    BY <1>9, <2>1, <2>2, <2>3, <2>4 DEF Inv, Levelled
<1>17. \A x : Past(x) => Past(x)'
  <2> SUFFICES ASSUME NEW x, Past(x) PROVE Past(x)'
    OBVIOUS
  <2>1. x \in Nat /\ parser.base + x <= fed
    BY DEF Past
  <2>2. ASSUME NEW i \in p + 1 .. N + 1
        PROVE  parser.base + x < stream'[i].from
    <3>1. CASE i \in p + 1 .. N
      BY <1>4, <1>5, <3>1 DEF Past
    <3>2. CASE i = N + 1
      BY <1>5, <1>10, <2>1, <3>2
    <3> QED
      BY <3>1, <3>2
  <2> QED
    BY <1>5, <1>9, <2>1, <2>2 DEF Past
<1>18. Framed'
  <2>1. Kept' = Kept
    BY <1>9 DEF Kept
  <2>2. Past(framer.buffer_index)'
    <3>1. framer.buffer_index \in Nat /\ Past(framer.buffer_index)
      BY DEF Inv, Framed
    <3>2. PICK x \in Nat : x = framer.buffer_index
      BY <3>1
    <3>3. Past(x)'
      BY <1>17, <3>1, <3>2
    <3> QED
      BY <1>9, <3>2, <3>3 DEF Past
  <2>3. ASSUME NEW n \in 1 .. Len(framer.frames)
        PROVE  Past(FrameEnd(framer.frames[n]))'
    <3>1. Past(FrameEnd(framer.frames[n]))
      BY DEF Inv, Framed
    <3>2. PICK x \in Nat : x = FrameEnd(framer.frames[n])
      BY <3>1 DEF Past
    <3>3. Past(x)'
      BY <1>17, <3>1, <3>2
    <3> QED
      BY <1>9, <3>2, <3>3 DEF Past, FrameEnd
  <2> QED
    BY <1>9, <2>1, <2>2, <2>3 DEF Inv, Framed, FrameEnd, Run
<1>19. Pointed'
  <2> SUFFICES ASSUME framer.level >= 2 PROVE Pointed'
    BY <1>9 DEF Pointed
  <2>1. Clear(framer.index)'
    BY <1>9 DEF Inv, Pointed, Clear, FrameEnd
  <2>2. Past(framer.index)'
    <3>1. PICK x : x = framer.index /\ Past(x)
      BY DEF Inv, Pointed
    <3>2. Past(x)'
      BY <1>17, <3>1
    <3> QED
      BY <1>9, <3>1, <3>2 DEF Past
  <2>3. PICK j \in 1 .. p, k \in Int :
           /\ k = DepthAt(p) - framer.level + 1
           /\ OpenAt(p, k, j)
           /\ stream[j].kind = "open"
           /\ stream[j].from = parser.base + framer.index + 1
    BY <1>4 DEF Inv, Pointed
  <2>4. OpenAt(p, k, j)' /\ DepthAt(p)' = DepthAt(p) /\ stream'[j] = stream[j]
    <3>1. j \in 1 .. N /\ p \in 0 .. N
      OBVIOUS
    <3> QED
      BY <1>5, <1>6, <2>3, <3>1
  <2>5. OpenAt(parsed, k, j)' /\ DepthAt(parsed)' = DepthAt(p)
    BY <1>9, <2>4 DEF OpenAt, DepthAt
  <2> QED
    BY <1>9, <2>1, <2>2, <2>3, <2>4, <2>5 DEF Pointed
<1>20. \A i \in 1 .. N : \A fr : Exact(i, fr)' <=> Exact(i, fr)
  BY <1>5, <1>7, <1>9 DEF Exact
<1>21. Honest'
  <2> SUFFICES ASSUME NEW n \in 1 .. Len(framer.frames)
               PROVE  \E i \in 1 .. p :
                         \/ Exact(i, framer.frames[n])' /\ (i \in Ends' \/ Misled(i)')
                         \/ Misled(i)' /\ framer.frames[n].size = 0
    BY <1>9 DEF Honest, Exact
  <2>1. PICK i \in 1 .. p :
           \/ Exact(i, framer.frames[n]) /\ (i \in Ends \/ Misled(i))
           \/ Misled(i) /\ framer.frames[n].size = 0
    BY <1>4 DEF Inv, Honest
  <2>2. PICK fr : fr = framer.frames[n]
    OBVIOUS
  <2>3. i \in 1 .. N /\ i \in 0 .. N
    OBVIOUS
  <2>4. Exact(i, fr)' <=> Exact(i, fr)
    BY <1>20, <2>3
  <2>5. Exact(i, framer.frames[n])' <=> Exact(i, framer.frames[n])
    BY <1>9, <2>2, <2>4 DEF Exact
  <2> QED
    BY <1>6, <1>8, <2>1, <2>3, <2>5
<1>22. Delivered'
  BY <1>9 DEF Inv, Delivered
<1>23. Sound'
  <2> SUFFICES ASSUME ~cut PROVE Sound'
    BY <1>9 DEF Sound
  <2>1. ~parser.broken
    BY DEF Inv, Sound
  <2>2. ASSUME NEW i \in 1 .. N PROVE Pending(i)' <=> Pending(i)
    <3>1. (IsHeader(i)' <=> IsHeader(i)) /\ stream'[i] = stream[i]
      BY <1>5, <1>6
    <3> QED
      BY <1>9, <3>1 DEF Pending
  <2>3. ~Pending(N + 1)'
    BY <1>5, <1>9, <1>10 DEF Pending
  <2>4. ASSUME NEW i \in 1 .. N + 1, Pending(i)'
        PROVE  /\ parser.stack = <<>> /\ ~parser.root
               /\ framer.level = 0
               /\ (stream'[i].kind = "decl" /\ p < i =>
                     stream'[i].from = parser.base + 1)
    <3>1. i \in 1 .. N
      BY <2>3, <2>4
    <3>2. Pending(i) /\ stream'[i] = stream[i]
      BY <1>5, <2>2, <2>4, <3>1
    <3> QED
      BY <1>4, <3>1, <3>2 DEF Inv, Sound
  <2>5. (\A i \in 1 .. N + 1 : ~Pending(i)') => InStep'
    <3> SUFFICES ASSUME \A i \in 1 .. N + 1 : ~Pending(i)' PROVE InStep'
      OBVIOUS
    <3>1. \A i \in 1 .. N : ~Pending(i)
      BY <2>2
    <3>2. InStep
      BY <1>4, <3>1 DEF Inv, Sound
    <3>3. Len(parser.stack) = DepthAt(p)'
      BY <1>4, <1>6, <3>2 DEF InStep
    <3>4. ASSUME NEW k \in 1 .. Len(parser.stack), NEW m \in 1 .. p,
                 OpenAt(p, k - 1, m)'
          PROVE  parser.stack[k] = stream'[m].kind
      <4>1. k - 1 \in Int /\ m \in 1 .. N
        BY DEF Inv, Levelled
      <4>2. OpenAt(p, k - 1, m) /\ stream'[m] = stream[m]
        BY <1>5, <1>6, <3>4, <4>1
      <4> QED
        BY <1>4, <3>2, <4>2 DEF InStep
    <3>5. DepthAt(parsed)' = DepthAt(p)'
      BY <1>9 DEF DepthAt
    <3>6. \A k \in Int, m \in Int : OpenAt(parsed, k - 1, m)' <=> OpenAt(p, k - 1, m)'
      BY <1>9 DEF OpenAt
    <3> QED
      BY <1>9, <3>3, <3>4, <3>5, <3>6 DEF InStep
  <2> QED
    BY <1>5, <1>9, <2>1, <2>4, <2>5 DEF Sound
<1>24. Forwarding'
  <2>1. pc' = "wait" /\ ~parser'.broken => framer'.frames = <<>>
    BY <1>9 DEF Inv, Forwarding
  <2>2. ASSUME ~cut, NEW i \in 1 .. p, i \in Ends', ~Misled(i)'
        PROVE  \/ \E n \in 1 .. Len(sent) : sent[n] = Stanza(i)'
               \/ \E n \in 1 .. Len(framer.frames) : Exact(i, framer.frames[n])'
    <3>1. i \in 1 .. N /\ i \in 0 .. N
      OBVIOUS
    <3>2. i \in Ends /\ ~Misled(i) /\ Stanza(i)' = Stanza(i)
      BY <1>6, <1>7, <1>8, <2>2, <3>1
    <3>3. \A n : Exact(i, framer.frames[n])' <=> Exact(i, framer.frames[n])
      BY <1>5, <1>7, <1>9, <3>1 DEF Exact
    <3> QED
      BY <1>4, <2>2, <3>2, <3>3 DEF Inv, Forwarding
  <2> QED
    BY <1>9, <2>1, <2>2 DEF Forwarding, Exact
<1>25. ForwardedExactly'
  <2>1. ASSUME NEW n \in 1 .. Len(sent)
        PROVE  \/ \E i \in Ends' : sent[n] = Stanza(i)'
               \/ \E i \in 1 .. Len(stream') :
                     Misled(i)' /\ sent[n] \in {Stanza(i)', <<>>}
    <3>1. \/ \E i \in Ends : sent[n] = Stanza(i)
          \/ \E i \in 1 .. N : Misled(i) /\ sent[n] \in {Stanza(i), <<>>}
      BY <1>4 DEF Inv, ForwardedExactly
    <3>2. CASE \E i \in Ends : sent[n] = Stanza(i)
      <4>1. PICK i \in Ends : sent[n] = Stanza(i)
        BY <3>2
      <4>2. i \in 1 .. N
        BY <1>4 DEF Ends
      <4> QED
        BY <1>7, <1>8, <4>1, <4>2
    <3>3. CASE \E i \in 1 .. N : Misled(i) /\ sent[n] \in {Stanza(i), <<>>}
      <4>1. PICK i \in 1 .. N : Misled(i) /\ sent[n] \in {Stanza(i), <<>>}
        BY <3>3
      <4>2. Misled(i)' /\ Stanza(i)' = Stanza(i) /\ i \in 1 .. Len(stream')
        BY <1>5, <1>6, <1>7, <4>1
      <4> QED
        BY <4>1, <4>2
    <3> QED
      BY <3>1, <3>2, <3>3
  <2> QED
    BY <1>9, <2>1 DEF Inv, ForwardedExactly
<1> QED
  BY <1>3, <1>15, <1>16, <1>18, <1>19, <1>21, <1>22, <1>23, <1>24, <1>25 DEF Inv

-----------------------------------------------------------------------------
(***************************************************************************)
(* Taking a block                                                          *)
(***************************************************************************)

\* A sequence of early bytes is one of bytes up to a later one.
LEMMA SeqGrows ==
  ASSUME NEW a \in Nat, NEW b \in Nat, a <= b
  PROVE  /\ \A s \in Seq(1 .. a) : s \in Seq(1 .. b)
         /\ \A s \in Seq(Seq(1 .. a)) : s \in Seq(Seq(1 .. b))
<1>1. \A s \in Seq(1 .. a) : s \in Seq(1 .. b)
  <2> SUFFICES ASSUME NEW s \in Seq(1 .. a) PROVE s \in Seq(1 .. b)
    OBVIOUS
  <2>1. \A i \in 1 .. Len(s) : s[i] \in 1 .. b
    OBVIOUS
  <2> QED
    BY <2>1
<1>2. ASSUME NEW s \in Seq(Seq(1 .. a)) PROVE s \in Seq(Seq(1 .. b))
  <2>1. \A i \in 1 .. Len(s) : s[i] \in Seq(1 .. b)
    BY <1>1
  <2> QED
    BY <2>1
<1> QED
  BY <1>1, <1>2

\* Bytes a + 1 to b, as a sequence.
LEMMA RunFacts ==
  ASSUME NEW a \in Nat, NEW b \in Nat, a <= b
  PROVE  /\ Run(a, b) \in Seq(1 .. b) /\ Len(Run(a, b)) = b - a
         /\ \A i \in 1 .. b - a : Run(a, b)[i] = a + i
<1>1. b - a \in Nat
  OBVIOUS
<1>2. \A i \in 1 .. b - a : a + i \in 1 .. b
  OBVIOUS
<1>3. Run(a, b) \in Seq(1 .. b)
  BY <1>1, <1>2 DEF Run
<1> QED
  BY <1>1, <1>3 DEF Run

\* The bytes that TakeBlock takes.
LEMMA TakeFacts ==
  ASSUME fed \in Nat, NEW a \in Nat, 1 <= a, TakeBlock(a)
  PROVE  \E n \in 1 .. a :
            /\ fed' = fed + n /\ avail' = a - n /\ pc' = "parse"
            /\ n = (IF a < Block THEN a ELSE Block)
            /\ Len(block') = n /\ block' = Run(fed, fed + n)
            /\ block' \in Seq(1 .. fed')
<1> DEFINE n == IF a < Block THEN a ELSE Block
<1>1. n \in 1 .. a
  BY BoundsAssumption
<1>2. /\ fed' = fed + n /\ avail' = a - n /\ pc' = "parse"
      /\ block' = [i \in 1 .. n |-> fed + i]
  BY DEF TakeBlock
<1>3. n = (IF a < Block THEN a ELSE Block)
  OBVIOUS
<1> HIDE DEF n
<1>4. (fed + n) - fed = n /\ fed + n \in Nat /\ fed <= fed + n
  BY <1>1
<1>5. block' = Run(fed, fed + n)
  BY <1>2, <1>4 DEF Run
<1>6. Len(block') = n /\ block' \in Seq(1 .. fed')
  BY <1>2, <1>4, <1>5, RunFacts
<1> QED
  BY <1>1, <1>2, <1>3, <1>5, <1>6

\* What has been sent stays what it was when neither it nor the stream changes.
LEMMA SentKept ==
  ASSUME ForwardedExactly, stream' = stream, sent' = sent
  PROVE  ForwardedExactly'
<1>1. /\ Ends' = Ends
      /\ \A i : (Misled(i)' <=> Misled(i)) /\ Stanza(i)' = Stanza(i)
  BY DEF Ends, Misled, Stanza, Begin
<1> QED
  BY <1>1 DEF ForwardedExactly

\* A block is taken and the framer goes on with the parser that it has.
LEMMA TakeStep ==
  ASSUME Inv, pc # "parse", NEW a \in Nat, 1 <= a, a <= Total - fed,
         TakeBlock(a),
         UNCHANGED <<stream, parsed, parser, framer, sent>>,
         cut' \in BOOLEAN, cut => cut',
         ~cut' => \A i \in 1 .. Len(stream) :
                     Renews(i) /\ stream[i].from = fed + 1 => fed = 0
  PROVE  Inv'
<1>1. fed \in Nat /\ fed <= Total /\ Total \in Nat /\ parser.base \in Nat /\ parser.base <= fed
  BY TotalType DEF Inv, Taken, Untouched, NewParser
<1>2. PICK n \in 1 .. a :
         /\ fed' = fed + n /\ avail' = a - n /\ pc' = "parse"
         /\ Len(block') = n /\ block' = Run(fed, fed + n)
         /\ block' \in Seq(1 .. fed')
  BY <1>1, TakeFacts
<1>3. PICK N \in Nat : N = Len(stream)
  BY DEF Inv, ServerInv
<1>4. /\ stream' = stream /\ parsed' = parsed /\ parser' = parser
      /\ framer' = framer /\ sent' = sent
  OBVIOUS
<1>5. fed' \in Nat /\ fed < fed' /\ fed' <= Total
  BY <1>1, <1>2
<1>6. /\ \A s \in 0 .. N : DepthAt(s)' = DepthAt(s)
      /\ \A i \in 1 .. N : IsHeader(i)' <=> IsHeader(i)
      /\ \A i \in 1 .. N : Renews(i)' <=> Renews(i)
      /\ \A s \in 0 .. N, k \in Int, m \in 1 .. N :
            OpenAt(s, k, m)' <=> OpenAt(s, k, m)
      /\ \A i \in 0 .. N : Misled(i)' <=> Misled(i)
  BY <1>4, PrefixKept
<1>7. \A i \in 1 .. N : Begin(i)' = Begin(i) /\ Stanza(i)' = Stanza(i)
  BY <1>3, <1>4, BeginKept DEF Inv
<1>8. Ends' = Ends /\ Total' = Total /\ DepthAt(parsed)' = DepthAt(parsed)
  BY <1>4 DEF Ends, Total, DepthAt, After
<1>9. parsed \in 0 .. N
  BY <1>3 DEF Inv, Taken
<1>10. Misled(parsed)' <=> Misled(parsed)
  BY <1>4 DEF Misled
<1>11. ServerInv'
  BY <1>4, <1>8 DEF Inv, ServerInv, Placed, Nested, Opened, Matched, OpenAt,
       DepthAt, After, IsHeader, Renews
<1>12. Taken'
  <2>1. \A i \in 1 .. parsed' : stream'[i].to <= fed'
    <3> SUFFICES ASSUME NEW i \in 1 .. parsed PROVE stream[i].to <= fed'
      BY <1>4
    <3>1. i \in 1 .. Len(stream)
      BY <1>3, <1>9
    <3>2. stream[i].to \in Nat /\ stream[i].to <= fed
      BY <3>1, TotalType DEF Inv, Taken
    <3> QED
      BY <1>1, <1>5, <3>2
  <2>2. \A i \in 1 .. Len(stream') :
          Renews(i)' => /\ stream'[i].from - 1 <= fed'
                        /\ stream'[i].from - 1 = fed' => pc' = "wait"
    <3> SUFFICES ASSUME NEW i \in 1 .. N, Renews(i)
                 PROVE  stream[i].from - 1 < fed'
      BY <1>3, <1>4, <1>6, <1>5, TotalType DEF Inv
    <3>1. stream[i].from - 1 <= fed /\ stream[i].from \in Nat
      BY <1>3, TotalType DEF Inv, Taken
    <3> QED
      BY <1>1, <1>5, <3>1
  <2>3. avail' \in Nat /\ avail' <= Total' - fed'
    BY <1>1, <1>2, <1>8
  <2>4. \A i \in 1 .. Len(stream') : Renews(i)' => Renews(i)
    BY <1>3, <1>4, <1>6
  <2>5. /\ parsed' \in 0 .. Len(stream') /\ parser'.base \in Nat
        /\ parser'.base < fed'
        /\ \A i \in parsed' + 1 .. Len(stream') : parser'.base < stream'[i].from
    BY <1>1, <1>4, <1>5 DEF Inv, Taken
  <2>6. ~parser'.broken =>
          \A i \in 1 .. Len(stream') : Renews(i)' => i - 1 <= parsed'
    BY <1>4, <2>4 DEF Inv, Taken
  <2> QED
    BY <1>2, <1>5, <1>8, <2>1, <2>2, <2>3, <2>5, <2>6 DEF Taken
<1>13. Levelled'
  BY <1>4, <1>8, <1>10 DEF Inv, Levelled, IsHeader
<1>14. \A x : Past(x) => Past(x)'
  <2> SUFFICES ASSUME NEW x, Past(x) PROVE Past(x)'
    OBVIOUS
  <2>1. x \in Nat /\ parser.base + x <= fed
    BY DEF Past
  <2>2. parser'.base + x <= fed'
    BY <1>1, <1>4, <1>5, <2>1
  <2> QED
    BY <1>4, <2>1, <2>2 DEF Past
<1>15. Framed'
  <2>1. Kept = fed /\ Kept' = fed
    <3>1. (fed + n) - n = fed
      BY <1>1
    <3> QED
      BY <1>2, <3>1 DEF Kept
  <2>2. Past(framer.buffer_index)'
    <3>1. PICK x : x = framer.buffer_index /\ Past(x)
      BY DEF Inv, Framed
    <3>2. Past(x)'
      BY <1>14, <3>1
    <3> QED
      BY <1>4, <3>1, <3>2 DEF Past
  <2>3. ASSUME NEW k \in 1 .. Len(framer.frames)
        PROVE  Past(FrameEnd(framer.frames[k]))'
    <3>1. PICK x : x = FrameEnd(framer.frames[k]) /\ Past(x)
      BY DEF Inv, Framed
    <3>2. Past(x)'
      BY <1>14, <3>1
    <3> QED
      BY <1>4, <3>1, <3>2 DEF Past, FrameEnd
  <2>4. framer.buffer \in Seq(1 .. fed')
    BY <1>1, <1>5, SeqGrows DEF Inv, Framed
  <2>5. framer' \in [level : Int, index : Nat, buffer_index : Nat,
                     frames : Seq(Frame),
                     buffer : Seq(1 .. fed')]
    <3>1. framer \in [level : Int, index : Nat, buffer_index : Nat,
                      frames : Seq(Frame),
                      buffer : Seq(1 .. fed)]
      BY DEF Inv, Framed
    <3> QED
      BY <1>4, <2>4, <3>1
  <2>6. block' = Run(fed' - Len(block'), fed')
    <3>1. (fed + n) - n = fed
      BY <1>1
    <3> QED
      BY <1>2, <3>1
  <2>7. ~parser'.broken =>
          /\ parser'.base + framer'.buffer_index <= Kept'
          /\ framer'.buffer = Run(parser'.base + framer'.buffer_index, Kept')
    BY <1>4, <2>1 DEF Inv, Framed
  <2>8. /\ \A k \in 1 .. Len(framer'.frames) :
              framer'.buffer_index <= framer'.frames[k].index
        /\ \A l, k \in 1 .. Len(framer'.frames) :
              l < k => FrameEnd(framer'.frames[l]) <= framer'.frames[k].index
    BY <1>4 DEF Inv, Framed
  <2>9. block' \in Seq(1 .. fed')
    BY <1>2
  <2>10. pc' = "parse" => block' = Run((fed - Len(block))', fed')
    BY <2>6
  <2> QED
    BY <1>4, <2>2, <2>3, <2>5, <2>7, <2>8, <2>9, <2>10 DEF Framed
<1>16. Pointed'
  <2> SUFFICES ASSUME framer.level >= 2 PROVE Pointed'
    BY <1>4 DEF Pointed
  <2>1. Clear(framer.index)'
    BY <1>4 DEF Inv, Pointed, Clear, FrameEnd
  <2>2. Past(framer.index)'
    <3>1. PICK x : x = framer.index /\ Past(x)
      BY DEF Inv, Pointed
    <3>2. Past(x)'
      BY <1>14, <3>1
    <3> QED
      BY <1>4, <3>1, <3>2 DEF Past
  <2>3. \A k, j : OpenAt(parsed, k, j) => OpenAt(parsed, k, j)'
    BY <1>4 DEF OpenAt
  <2> QED
    BY <1>4, <1>8, <2>1, <2>2, <2>3 DEF Inv, Pointed
<1>17. \A i \in 1 .. N : \A k : Exact(i, framer.frames[k])' <=> Exact(i, framer.frames[k])
  BY <1>4, <1>7 DEF Exact
<1>18. Honest'
  <2> SUFFICES ASSUME NEW k \in 1 .. Len(framer.frames)
               PROVE  \E i \in 1 .. parsed :
                         \/ Exact(i, framer.frames[k])' /\ (i \in Ends \/ Misled(i)')
                         \/ Misled(i)' /\ framer.frames[k].size = 0
    BY <1>4, <1>8 DEF Honest, Exact
  <2>1. PICK i \in 1 .. parsed :
           \/ Exact(i, framer.frames[k]) /\ (i \in Ends \/ Misled(i))
           \/ Misled(i) /\ framer.frames[k].size = 0
    BY DEF Inv, Honest
  <2>2. i \in 1 .. N /\ i \in 0 .. N
    BY <1>9
  <2>3. Misled(i)' <=> Misled(i)
    BY <1>6, <2>2
  <2> QED
    BY <1>17, <2>1, <2>2, <2>3
<1>19. Delivered'
  <2>1. sent' \in Seq(Seq(1 .. fed'))
    BY <1>1, <1>4, <1>5, SeqGrows DEF Inv, Delivered
  <2> QED
    BY <1>4, <2>1 DEF Inv, Delivered
<1>20. Sound'
  <2> SUFFICES ASSUME ~cut' PROVE Sound'
    BY DEF Sound
  <2>0. ~cut
    OBVIOUS
  <2>1. ~parser'.broken
    BY <1>4, <2>0 DEF Inv, Sound
  <2>2. fed = 0 =>
          /\ parser.stack = <<>> /\ ~parser.root /\ framer.level = 0
          /\ parser.base = 0
    <3> SUFFICES ASSUME fed = 0
                 PROVE  /\ parser.stack = <<>> /\ ~parser.root
                        /\ framer.level = 0 /\ parser.base = 0
      OBVIOUS
    <3>1. Untouched
      BY <1>1 DEF Inv, Taken
    <3> QED
      BY <3>1 DEF Untouched, NewParser, framer_create
  <2>3. ASSUME NEW i \in 1 .. N, Pending(i)
        PROVE  /\ parser.stack = <<>> /\ ~parser.root
               /\ framer.level = 0
               /\ (stream[i].kind = "decl" /\ parsed < i =>
                     stream[i].from = parser.base + 1)
    BY <1>3, <2>0, <2>3 DEF Inv, Sound
  <2>4. ASSUME NEW i \in 1 .. N, Renews(i)
        PROVE  stream[i].from <= fed \/ (fed = 0 /\ stream[i].from = 1)
    <3>1. stream[i].from - 1 <= fed /\ stream[i].from \in Nat
      BY <1>3, <2>4, TotalType DEF Inv, Taken
    <3>2. stream[i].from = fed + 1 => fed = 0
      BY <1>3, <2>4
    <3> QED
      BY <1>1, <3>1, <3>2
  <2>5. ASSUME NEW i \in 1 .. N, Pending(i)'
        PROVE  /\ parser.stack = <<>> /\ ~parser.root
               /\ framer.level = 0
               /\ (stream[i].kind = "decl" /\ parsed < i =>
                     stream[i].from = parser.base + 1)
    <3>1. IsHeader(i) /\ (parsed < i \/ (i = parsed /\ stream[i].kind = "decl"))
      BY <1>4, <2>5 DEF Pending, IsHeader
    <3>2. CASE Pending(i)
      BY <2>3, <3>2
    <3>3. CASE ~Pending(i) /\ Renews(i)
      <4>1. parsed < i /\ ~(stream[i].from <= fed)
        BY <3>1, <3>3 DEF Pending
      <4>2. fed = 0 /\ stream[i].from = 1
        BY <2>4, <3>3, <4>1
      <4> QED
        BY <2>2, <4>2
    <3>4. CASE ~Pending(i) /\ ~Renews(i)
      <4>1. i > 1 /\ stream[i - 1].kind = "decl" /\ stream[i].kind # "decl"
        BY <1>3, <3>1, <3>4 DEF Renews, Inv, ServerInv, Nested
      <4>2. i - 1 \in 1 .. N /\ parsed < i
        BY <3>1, <4>1
      <4>3. Renews(i - 1)
        BY <1>3, <4>1, <4>2 DEF Inv, ServerInv, Nested
      <4>4. CASE fed = 0
        BY <2>2, <4>1, <4>4
      <4>5. CASE stream[i - 1].from <= fed
        <5>1. parsed < i - 1 \/ i - 1 = parsed
          BY <1>9, <4>2
        <5>2. Pending(i - 1)
          BY <4>1, <4>5, <5>1 DEF Pending, IsHeader
        <5> QED
          BY <2>3, <4>1, <4>2, <5>2
      <4> QED
        BY <2>4, <4>2, <4>3, <4>4, <4>5
    <3> QED
      BY <3>2, <3>3, <3>4
  <2>6. (\A i \in 1 .. N : ~Pending(i)') => InStep'
    <3> SUFFICES ASSUME \A i \in 1 .. N : ~Pending(i)' PROVE InStep'
      OBVIOUS
    <3>1. ASSUME NEW i \in 1 .. N PROVE ~Pending(i)
      <4>1. stream[i].from \in Nat
        BY <1>3, TotalType DEF Inv
      <4>2. ~Pending(i)'
        OBVIOUS
      <4> QED
        BY <1>1, <1>4, <1>5, <4>1, <4>2 DEF Pending, IsHeader
    <3>2. InStep
      BY <1>3, <2>0, <3>1 DEF Inv, Sound
    <3> QED
      BY <1>4, <1>8, <3>2 DEF InStep, OpenAt
  <2>7. \A i \in 1 .. Len(stream') :
            Pending(i)' => /\ parser'.stack = <<>> /\ ~parser'.root
                           /\ framer'.level = 0
                           /\ (stream'[i].kind = "decl" /\ parsed' < i =>
                                 stream'[i].from = parser'.base + 1)
    BY <1>3, <1>4, <2>5
  <2> QED
    BY <1>3, <1>4, <2>1, <2>6, <2>7 DEF Sound
<1>21. Forwarding'
  <2>1. ASSUME ~cut', NEW i \in 1 .. parsed, i \in Ends, ~Misled(i)'
        PROVE  \/ \E k \in 1 .. Len(sent) : sent[k] = Stanza(i)'
               \/ \E k \in 1 .. Len(framer.frames) : Exact(i, framer.frames[k])'
    <3>1. i \in 1 .. N /\ i \in 0 .. N
      BY <1>9
    <3>2. ~Misled(i) /\ Stanza(i)' = Stanza(i)
      BY <1>6, <1>7, <2>1, <3>1
    <3> QED
      BY <1>17, <2>1, <3>1, <3>2 DEF Inv, Forwarding
  <2> QED
    BY <1>2, <1>4, <1>8, <2>1 DEF Forwarding, Exact
<1>22. ForwardedExactly'
  BY <1>4, SentKept DEF Inv
<1> QED
  BY <1>11, <1>12, <1>13, <1>15, <1>16, <1>18, <1>19, <1>20, <1>21, <1>22 DEF Inv

\* The next block of the same read.
LEMMA NextBlockStep ==
  ASSUME Inv, NextBlock
  PROVE  Inv'
<1>1. /\ pc = "read" /\ avail > 0 /\ TakeBlock(avail)
      /\ UNCHANGED <<stream, parsed, parser, framer, sent>> /\ cut' = cut
  BY DEF NextBlock
<1>2. avail \in Nat /\ 1 <= avail /\ avail <= Total - fed /\ cut \in BOOLEAN
  BY <1>1 DEF Inv, Taken
<1>3. \A i \in 1 .. Len(stream) :
         Renews(i) /\ stream[i].from = fed + 1 => fed = 0
  <2> SUFFICES ASSUME NEW i \in 1 .. Len(stream), Renews(i),
                      stream[i].from = fed + 1
               PROVE  FALSE
    OBVIOUS
  <2>1. stream[i].from - 1 = fed
    BY DEF Inv, Taken
  <2> QED
    BY <1>1, <2>1 DEF Inv, Taken
<1> QED
  BY <1>1, <1>2, <1>3, TakeStep

\* A read that begins in the middle of the stream, or whose header is missed.
LEMMA ReadOnStep ==
  ASSUME Inv, pc = "wait", NEW a \in Nat, 1 <= a, a <= Total - fed,
         TakeBlock(a), NEW n, ~HeaderAt(n),
         cut' = (cut \/ (fed > 0 /\ HeaderAt(n) # HeaderAt(Prefix))),
         UNCHANGED <<stream, parsed, parser, framer, sent>>
  PROVE  Inv'
<1>1. fed \in Nat /\ cut \in BOOLEAN
  BY DEF Inv, Taken
<1>2. cut' \in BOOLEAN /\ (cut => cut')
  BY <1>1
<1>3. ASSUME ~cut', NEW i \in 1 .. Len(stream), Renews(i),
             stream[i].from = fed + 1
      PROVE  fed = 0
  <2>1. HeaderAt(Prefix)
    BY <1>3 DEF HeaderAt, Prefix, Renews, IsHeader
  <2>2. HeaderAt(n) # HeaderAt(Prefix)
    BY <2>1
  <2>3. ASSUME fed > 0 PROVE FALSE
    <3>1. cut \/ (fed > 0 /\ HeaderAt(n) # HeaderAt(Prefix))
      BY <2>2, <2>3, Zenon
    <3>2. cut'
      BY <3>1, Zenon
    <3> QED
      BY <1>3, <3>2, Zenon
  <2> QED
    BY <1>1, <2>3
<1> QED
  BY <1>2, <1>3, TakeStep

\* The tokens before a header that begins just after byte fed.
LEMMA CompleteBefore ==
  ASSUME ServerInv, fed \in Nat, NEW h \in 1 .. Len(stream),
         stream[h].from = fed + 1
  PROVE  /\ Complete(fed) = h - 1
         /\ \A i \in 1 .. h - 1 : stream[i].to <= fed
         /\ \A i \in h .. Len(stream) : fed < stream[i].from
         /\ \A i \in 1 .. Len(stream) : stream[i].from - 1 <= fed => i <= h
<1>0. Len(stream) \in Nat
  BY DEF ServerInv
<1>1. ASSUME NEW i \in 1 .. h - 1 PROVE stream[i].to <= fed
  <2>1. i \in 1 .. Len(stream) /\ i < h
    BY <1>0
  <2>2. stream[i].to < stream[h].from /\ stream[i].to \in Nat
    BY <2>1, TotalType DEF ServerInv, Placed
  <2> QED
    BY <2>2
<1>2. ASSUME NEW i \in h .. Len(stream) PROVE fed < stream[i].from
  <2>1. i \in 1 .. Len(stream)
    BY <1>0
  <2>2. CASE i = h
    BY <2>2
  <2>3. CASE h < i
    <3>1. stream[h].to < stream[i].from
      BY <2>1, <2>3 DEF ServerInv, Placed
    <3>2. /\ stream[h].from <= stream[h].to /\ stream[h].to \in Nat
          /\ stream[i].from \in Nat
      BY <2>1, TotalType
    <3> QED
      BY <3>1, <3>2
  <2> QED
    BY <2>2, <2>3
<1>3. ASSUME NEW i \in 1 .. Len(stream), stream[i].from - 1 <= fed PROVE i <= h
  <2> SUFFICES ASSUME h < i PROVE FALSE
    OBVIOUS
  <2>1. stream[h].to < stream[i].from
    BY DEF ServerInv, Placed
  <2>2. /\ stream[h].from <= stream[h].to /\ stream[h].to \in Nat
        /\ stream[i].from \in Nat
    BY TotalType
  <2> QED
    BY <1>3, <2>1, <2>2
<1>4. {i \in 1 .. Len(stream) : stream[i].to <= fed} = 1 .. h - 1
  <2>1. ASSUME NEW i \in 1 .. Len(stream), stream[i].to <= fed
        PROVE  i \in 1 .. h - 1
    <3> SUFFICES ASSUME h <= i PROVE FALSE
      BY <1>0
    <3>1. fed < stream[i].from
      BY <1>2
    <3>2. stream[i].from <= stream[i].to /\ stream[i].to \in Nat /\ stream[i].from \in Nat
      BY TotalType
    <3> QED
      BY <2>1, <3>1, <3>2
  <2> QED
    BY <1>0, <1>1, <2>1
<1>5. Cardinality(1 .. h - 1) = h - 1
  <2>1. 1 \in Int /\ h - 1 \in Int
    OBVIOUS
  <2>2. Cardinality(1 .. h - 1) = IF 1 > h - 1 THEN 0 ELSE (h - 1) - 1 + 1
    BY <2>1, FS_Interval
  <2> QED
    BY <2>2
<1> QED
  BY <1>1, <1>2, <1>3, <1>4, <1>5 DEF Complete

\* The framer and its parser are made anew.
LEMMA ResetStep ==
  ASSUME Inv, pc = "wait", NEW a \in Nat, 1 <= a, a <= Total - fed,
         TakeBlock(a), NEW n, HeaderAt(n), cut' \in BOOLEAN, cut => cut',
         framer' = framer_create, parser' = NewParser(fed),
         parsed' = Complete(fed), UNCHANGED <<stream, sent>>
  PROVE  Inv'
<1>1. fed \in Nat /\ fed <= Total /\ Total \in Nat /\ parser.base \in Nat /\ parser.base <= fed
  BY TotalType DEF Inv, Taken, Untouched, NewParser
<1>2. PICK b \in 1 .. a :
         /\ fed' = fed + b /\ avail' = a - b /\ pc' = "parse"
         /\ Len(block') = b /\ block' = Run(fed, fed + b)
         /\ block' \in Seq(1 .. fed')
  BY <1>1, TakeFacts
<1>3. PICK N \in Nat : N = Len(stream)
  BY DEF Inv, ServerInv
<1>4. PICK h \in 1 .. N : stream[h].from = fed + 1 /\ IsHeader(h)
  BY <1>3 DEF HeaderAt, IsHeader
<1>5. /\ Complete(fed) = h - 1
      /\ \A i \in 1 .. h - 1 : stream[i].to <= fed
      /\ \A i \in h .. N : fed < stream[i].from
      /\ \A i \in 1 .. N : stream[i].from - 1 <= fed => i <= h
  BY <1>1, <1>3, <1>4, CompleteBefore DEF Inv
<1>6. /\ stream' = stream /\ sent' = sent /\ parsed' = h - 1
      /\ (h - 1) + 1 = h /\ h - 1 \in 0 .. N
      /\ fed' \in Nat /\ fed < fed' /\ fed' <= Total
  BY SMTT(30), <1>1, <1>2, <1>5
<1>7. /\ parser' = [base |-> fed, stack |-> <<>>, root |-> FALSE, broken |-> FALSE]
      /\ parser'.base = fed /\ parser'.stack = <<>>
      /\ parser'.root = FALSE /\ parser'.broken = FALSE
  BY DEF NewParser
<1>8. /\ framer'.level = 0 /\ framer'.index = 0 /\ framer'.frames = <<>>
      /\ framer'.buffer = <<>> /\ framer'.buffer_index = 0
  BY DEF framer_create
<1>9. /\ \A i \in 1 .. N : IsHeader(i)' <=> IsHeader(i)
      /\ \A i \in 1 .. N : Renews(i)' <=> Renews(i)
      /\ \A i \in 0 .. N : Misled(i)' <=> Misled(i)
      /\ \A s \in 0 .. N : DepthAt(s)' = DepthAt(s)
  BY <1>6, PrefixKept
<1>10. \A i \in 1 .. N : Stanza(i)' = Stanza(i)
  BY <1>3, <1>6, BeginKept DEF Inv
<1>11. Ends' = Ends /\ Total' = Total
  BY <1>6 DEF Ends, Total
<1>12. ServerInv'
  BY <1>6, <1>11 DEF Inv, ServerInv, Placed, Nested, Opened, Matched, OpenAt,
       DepthAt, After, IsHeader, Renews
<1>13. ASSUME NEW i \in 1 .. N, Renews(i)
       PROVE  stream[i].from - 1 <= fed /\ stream[i].from \in Nat /\ i <= h
  <2>1. stream[i].from - 1 <= fed /\ stream[i].from \in Nat
    BY <1>3, <1>13, TotalType DEF Inv, Taken
  <2> QED
    BY <1>5, <2>1
<1>14. Taken'
  <2>1. \A i \in 1 .. parsed' : stream'[i].to <= fed'
    <3> SUFFICES ASSUME NEW i \in 1 .. h - 1 PROVE stream[i].to <= fed'
      BY <1>6
    <3>1. i \in 1 .. Len(stream)
      BY <1>3
    <3>2. stream[i].to \in Nat /\ stream[i].to <= fed
      BY <1>5, <3>1, TotalType DEF Inv
    <3> QED
      BY <1>1, <1>6, <3>2
  <2>2. \A i \in 1 .. Len(stream') :
          Renews(i)' => /\ stream'[i].from - 1 <= fed'
                        /\ stream'[i].from - 1 = fed' => pc' = "wait"
                        /\ i - 1 <= parsed'
    <3> SUFFICES ASSUME NEW i \in 1 .. N, Renews(i)
                 PROVE  stream[i].from - 1 < fed' /\ i - 1 <= h - 1
                          /\ stream[i].from \in Nat
      BY <1>3, <1>6, <1>9
    <3> QED
      BY <1>1, <1>6, <1>13
  <2>3. avail' \in Nat /\ avail' <= Total' - fed'
    BY <1>1, <1>2, <1>11
  <2>4. /\ parsed' \in 0 .. Len(stream') /\ parser'.base \in Nat
        /\ parser'.base < fed'
        /\ \A i \in parsed' + 1 .. Len(stream') : parser'.base < stream'[i].from
    BY <1>1, <1>3, <1>5, <1>6, <1>7
  <2> QED
    BY <1>2, <1>6, <1>11, <2>1, <2>2, <2>3, <2>4 DEF Taken
<1>15. Levelled'
  <2>1. PICK d \in 0 .. MaxDepth : d = DepthAt(h - 1)
    BY <1>3, <1>6, DepthType DEF Inv, ServerInv
  <2>2. DepthAt(parsed)' = d
    <3>1. DepthAt(h - 1)' = d
      BY <1>6, <1>9, <2>1
    <3> QED
      BY <1>6, <3>1 DEF DepthAt
  <2>3. d - MaxDepth <= 0 /\ 0 <= d
    BY BoundsAssumption
  <2>4. parser' \in [base : Nat, stack : Seq(Starts), root : BOOLEAN,
                     broken : BOOLEAN]
    BY <1>1, <1>7
  <2>5. /\ parsed' < Len(stream') /\ IsHeader(parsed + 1)'
        /\ stream'[parsed' + 1].from = parser'.base + 1
    BY <1>3, <1>4, <1>6, <1>7 DEF IsHeader
  <2> QED
    BY <1>7, <1>8, <2>2, <2>3, <2>4, <2>5 DEF Levelled
<1>16. Framed'
  <2>1. Kept' = fed
    <3>1. (fed + b) - b = fed
      BY <1>1
    <3> QED
      BY <1>2, <3>1 DEF Kept
  <2>2. Past(framer.buffer_index)'
    BY <1>1, <1>3, <1>5, <1>6, <1>7, <1>8 DEF Past
  <2>3. framer' \in [level : Int, index : Nat, buffer_index : Nat,
                     frames : Seq(Frame),
                     buffer : Seq(1 .. fed')]
    BY DEF framer_create
  <2>4. block' = Run(fed' - Len(block'), fed')
    <3>1. (fed + b) - b = fed
      BY <1>1
    <3> QED
      BY <1>2, <3>1
  <2>5. pc' = "parse" => block' = Run((fed - Len(block))', fed')
    BY <2>4
  <2>6. /\ parser'.base + framer'.buffer_index <= Kept'
        /\ framer'.buffer = Run(parser'.base + framer'.buffer_index, Kept')
    <3>1. fed + 0 = fed /\ fed - fed = 0
      BY <1>1
    <3>2. Run(fed, fed) = <<>>
      BY <3>1 DEF Run
    <3> QED
      BY <1>1, <1>7, <1>8, <2>1, <3>1, <3>2
  <2> QED
    BY <1>2, <1>8, <2>2, <2>3, <2>5, <2>6 DEF Framed
<1>17. Pointed' /\ Honest'
  BY <1>8 DEF Pointed, Honest
<1>18. Delivered'
  <2>1. sent' \in Seq(Seq(1 .. fed'))
    BY <1>1, <1>6, SeqGrows DEF Inv, Delivered
  <2>2. ASSUME NEW k \in 1 .. Len(sent), NEW x \in 1 .. Len(sent[k])
        PROVE  sent[k][x] <= fed
    <3>1. sent[k][x] <= parser.base + framer.buffer_index
      BY DEF Inv, Delivered
    <3>2. parser.base + framer.buffer_index <= fed /\ framer.buffer_index \in Nat
      BY DEF Inv, Framed, Past
    <3>3. sent[k][x] \in Nat
      <4>1. sent[k] \in Seq(1 .. fed)
        BY DEF Inv, Delivered
      <4> QED
        BY <1>1, <4>1
    <3> QED
      BY <1>1, <3>1, <3>2, <3>3
  <2>3. parser'.base + framer'.buffer_index = fed
    BY <1>1, <1>7, <1>8
  <2> QED
    BY <1>6, <2>1, <2>2, <2>3 DEF Delivered
<1>19. Sound'
  <2>1. ASSUME NEW i \in 1 .. N, stream[i].kind = "decl", h - 1 < i
        PROVE  stream[i].from = fed + 1
    <3>1. Renews(i)
      BY <1>3, <2>1 DEF Inv, ServerInv, Nested
    <3>2. i = h
      BY <1>13, <2>1, <3>1
    <3> QED
      BY <1>4, <3>2
  <2>2. Pending(h)'
    BY <1>1, <1>2, <1>4, <1>6 DEF Pending, IsHeader
  <2>3. h \in 1 .. Len(stream')
    BY <1>3, <1>6
  <2> QED
    BY <1>3, <1>6, <1>7, <1>8, <2>1, <2>2, <2>3 DEF Sound
<1>20. Forwarding'
  <2>1. ASSUME ~cut', NEW i \in 1 .. h - 1, i \in Ends, ~Misled(i)'
        PROVE  \E k \in 1 .. Len(sent) : sent[k] = Stanza(i)'
    <3>1. ~cut /\ i \in 1 .. N /\ i \in 0 .. N
      BY <2>1
    <3>2. ~Misled(i) /\ Stanza(i)' = Stanza(i)
      BY <1>9, <1>10, <2>1, <3>1
    <3>3. ~parser.broken
      BY <3>1 DEF Inv, Sound
    <3>4. framer.frames = <<>>
      BY <3>3 DEF Inv, Forwarding
    <3>5. i <= parsed
      <4> SUFFICES ASSUME ~(i <= parsed) PROVE FALSE
        OBVIOUS
      <4>1. i \in parsed + 1 .. Len(stream)
        BY <1>3, <3>1 DEF Inv, Taken
      <4>2. fed < stream[i].to
        BY <3>3, <4>1 DEF Inv, Taken
      <4>3. stream[i].to <= fed /\ stream[i].to \in Nat
        BY <1>3, <1>5, <3>1, TotalType DEF Inv
      <4> QED
        BY <1>1, <4>2, <4>3
    <3>6. i \in 1 .. parsed
      BY <3>1, <3>5 DEF Inv, Taken
    <3> QED
      BY <2>1, <3>1, <3>2, <3>4, <3>6 DEF Inv, Forwarding
  <2> QED
    BY <1>2, <1>6, <1>11, <2>1 DEF Forwarding
<1>21. ForwardedExactly'
  BY <1>6, SentKept DEF Inv
<1> QED
  BY <1>12, <1>14, <1>15, <1>16, <1>17, <1>18, <1>19, <1>20, <1>21 DEF Inv

\* cm_readcb starts.
LEMMA ReadBeginsStep ==
  ASSUME Inv, ReadBegins
  PROVE  Inv'
<1>1. PICK a \in 1 .. Total - fed :
         LET n == IF a < Block THEN a ELSE Block
         IN  /\ TakeBlock(a)
             /\ cut' = (cut \/ (fed > 0 /\ HeaderAt(n) # HeaderAt(Prefix)))
             /\ IF HeaderAt(n)
                THEN /\ framer' = framer_reset(framer)
                     /\ parser' = NewParser(fed)
                     /\ parsed' = Complete(fed)
                ELSE UNCHANGED <<framer, parser, parsed>>
  BY DEF ReadBegins
<1>2. PICK n : n = IF a < Block THEN a ELSE Block
  OBVIOUS
<1>3. /\ TakeBlock(a) /\ pc = "wait" /\ UNCHANGED <<stream, sent>>
      /\ cut' = (cut \/ (fed > 0 /\ HeaderAt(n) # HeaderAt(Prefix)))
  BY <1>1, <1>2 DEF ReadBegins
<1>4. a \in Nat /\ 1 <= a /\ a <= Total - fed /\ cut \in BOOLEAN
  BY TotalType DEF Inv, Taken
<1>5. CASE HeaderAt(n)
  <2>1. framer' = framer_create /\ parser' = NewParser(fed) /\ parsed' = Complete(fed)
    BY <1>1, <1>2, <1>5 DEF framer_reset
  <2>2. cut' \in BOOLEAN /\ (cut => cut')
    BY <1>3, <1>4
  <2> QED
    BY <1>3, <1>4, <1>5, <2>1, <2>2, ResetStep
<1>6. CASE ~HeaderAt(n)
  <2>1. UNCHANGED <<framer, parser, parsed>>
    BY <1>1, <1>2, <1>6
  <2> QED
    BY <1>3, <1>4, <1>6, <2>1, ReadOnStep
<1> QED
  BY <1>5, <1>6

-----------------------------------------------------------------------------
(***************************************************************************)
(* The other steps of cm_readcb that parse nothing                         *)
(***************************************************************************)

\* What is said of the stream alone stays true when it does not change.
LEMMA Frozen ==
  ASSUME stream' = stream
  PROVE  /\ ServerInv => ServerInv'
         /\ Total' = Total /\ Ends' = Ends
         /\ \A s : DepthAt(s)' = DepthAt(s)
         /\ \A i : IsHeader(i)' <=> IsHeader(i)
         /\ \A i : Renews(i)' <=> Renews(i)
         /\ \A s, k, m : OpenAt(s, k, m)' <=> OpenAt(s, k, m)
         /\ \A i : Misled(i)' <=> Misled(i)
         /\ \A i : Begin(i)' = Begin(i) /\ Stanza(i)' = Stanza(i)
<1>1. Total' = Total /\ Ends' = Ends
  BY DEF Total, Ends
<1>2. \A s : DepthAt(s)' = DepthAt(s)
  BY DEF DepthAt, After
<1>3. /\ \A i : IsHeader(i)' <=> IsHeader(i)
      /\ \A i : Renews(i)' <=> Renews(i)
  BY DEF IsHeader, Renews
<1>4. \A s, k, m : OpenAt(s, k, m)' <=> OpenAt(s, k, m)
  BY DEF OpenAt
<1>5. \A i : Misled(i)' <=> Misled(i)
  BY DEF Misled
<1>6. \A i : Begin(i)' = Begin(i) /\ Stanza(i)' = Stanza(i)
  BY DEF Begin, Stanza
<1>7. ServerInv => ServerInv'
  BY <1>1 DEF ServerInv, Placed, Nested, Opened, Matched, OpenAt,
       DepthAt, After, IsHeader, Renews
<1> QED
  BY <1>1, <1>2, <1>3, <1>4, <1>5, <1>6, <1>7

\* The loop over the frames is over.
LEMMA ReadEndsStep ==
  ASSUME Inv, ReadEnds
  PROVE  Inv'
<1>1. /\ pc = "read" /\ pc' = "wait" /\ framer.frames = <<>>
      /\ stream' = stream /\ fed' = fed /\ parsed' = parsed /\ parser' = parser
      /\ framer' = framer /\ avail' = avail /\ block' = block /\ sent' = sent
      /\ cut' = cut
  BY DEF ReadEnds
<1>2. ServerInv'
  BY <1>1, Frozen DEF Inv
<1>3. Total' = Total /\ Ends' = Ends /\ DepthAt(parsed)' = DepthAt(parsed)
        /\ (Misled(parsed)' <=> Misled(parsed))
  BY <1>1 DEF Total, Ends, DepthAt, After, Misled
<1>4. Taken'
  <2>1. fed # 0
    BY <1>1 DEF Inv, Taken, Untouched
  <2>2. parser'.base < fed'
    BY <1>1 DEF Inv, Taken, Untouched
  <2> QED
    BY <1>1, <1>3, <2>2 DEF Inv, Taken, Renews, IsHeader
<1>5. Levelled'
  BY <1>1, <1>3 DEF Inv, Levelled, IsHeader
<1>6. Framed'
  <2>1. Kept' = Kept
    BY <1>1 DEF Kept
  <2>2. Past(framer.buffer_index)'
    BY <1>1 DEF Inv, Framed, Past
  <2> QED
    BY <1>1, <2>1, <2>2 DEF Inv, Framed
<1>7. Pointed'
  BY <1>1, <1>3 DEF Inv, Pointed, Clear, Past, OpenAt
<1>8. Honest'
  BY <1>1 DEF Honest
<1>9. Delivered'
  BY <1>1 DEF Inv, Delivered
<1>10. Sound'
  BY <1>1, <1>3 DEF Inv, Sound, Pending, IsHeader, InStep, OpenAt
<1>11. Forwarding'
  <2>1. \A i : (Misled(i)' <=> Misled(i)) /\ Stanza(i)' = Stanza(i)
    BY <1>1, Frozen
  <2> QED
    BY <1>1, <1>3, <2>1 DEF Inv, Forwarding
<1>12. ForwardedExactly'
  BY <1>1, SentKept DEF Inv
<1> QED
  BY <1>2, <1>4, <1>5, <1>6, <1>7, <1>8, <1>9, <1>10, <1>11, <1>12 DEF Inv

\* The elements of a concatenation.
LEMMA ConcatAt ==
  ASSUME NEW S, NEW s \in Seq(S), NEW t \in Seq(S)
  PROVE  /\ s \o t \in Seq(S) /\ Len(s \o t) = Len(s) + Len(t)
         /\ \A i \in 1 .. Len(s) : (s \o t)[i] = s[i]
         /\ \A i \in 1 .. Len(t) : (s \o t)[Len(s) + i] = t[i]
  OBVIOUS

\* Sequences with the same elements are equal.
LEMMA SameSeq ==
  ASSUME NEW S, NEW s \in Seq(S), NEW t \in Seq(S), Len(s) = Len(t),
         \A i \in 1 .. Len(s) : s[i] = t[i]
  PROVE  s = t
  OBVIOUS

\* Two runs of bytes that meet make one.
LEMMA RunJoin ==
  ASSUME NEW a \in Nat, NEW b \in Nat, NEW c \in Nat, a <= b, b <= c
  PROVE  Run(a, b) \o Run(b, c) = Run(a, c)
<1>0. a <= c
  OBVIOUS
<1>1. PICK s : s = Run(a, b)
  OBVIOUS
<1>2. PICK t : t = Run(b, c)
  OBVIOUS
<1>3. PICK u : u = Run(a, c)
  OBVIOUS
<1>4. s \in Seq(1 .. c) /\ Len(s) = b - a /\ \A i \in 1 .. b - a : s[i] = a + i
  <2>1. s \in Seq(1 .. b) /\ Len(s) = b - a /\ \A i \in 1 .. b - a : s[i] = a + i
    BY <1>1, RunFacts
  <2> QED
    BY <2>1, SeqGrows
<1>5. t \in Seq(1 .. c) /\ Len(t) = c - b /\ \A i \in 1 .. c - b : t[i] = b + i
  BY <1>2, RunFacts
<1>6. u \in Seq(1 .. c) /\ Len(u) = c - a /\ \A i \in 1 .. c - a : u[i] = a + i
  BY <1>0, <1>3, RunFacts
<1>7. PICK v : v = s \o t
  OBVIOUS
<1>8. /\ v \in Seq(1 .. c) /\ Len(v) = Len(s) + Len(t)
      /\ \A i \in 1 .. Len(s) : v[i] = s[i]
      /\ \A i \in 1 .. Len(t) : v[Len(s) + i] = t[i]
  <2>1. s \in Seq(1 .. c) /\ t \in Seq(1 .. c)
    BY <1>4, <1>5
  <2>2. /\ s \o t \in Seq(1 .. c) /\ Len(s \o t) = Len(s) + Len(t)
        /\ \A i \in 1 .. Len(s) : (s \o t)[i] = s[i]
        /\ \A i \in 1 .. Len(t) : (s \o t)[Len(s) + i] = t[i]
    BY <2>1
  <2> QED
    BY <1>7, <2>2, Zenon
<1>9. Len(v) = c - a
  BY <1>4, <1>5, <1>8
<1>10. ASSUME NEW i \in 1 .. c - a PROVE v[i] = u[i]
  <2>1. u[i] = a + i
    BY <1>6
  <2>2. CASE i <= b - a
    <3>1. i \in 1 .. b - a
      BY <2>2
    <3> QED
      BY <1>4, <1>8, <2>1, <3>1
  <2>3. CASE i > b - a
    <3>1. PICK k \in 1 .. c - b : i = (b - a) + k
      BY <2>3
    <3>2. v[(b - a) + k] = b + k
      BY <1>4, <1>5, <1>8
    <3>3. b + k = a + i
      BY <3>1
    <3> QED
      BY <2>1, <3>1, <3>2, <3>3
  <2> QED
    BY <2>2, <2>3
<1>11. v = u
  BY <1>6, <1>8, <1>9, <1>10, SameSeq
<1> QED
  BY <1>1, <1>2, <1>3, <1>7, <1>11

\* SubSeq, under a name that keeps the provers from expanding it.
Part(s, p, q) == SubSeq(s, p, q)

\* Bytes p to q of a run.
LEMMA RunPart ==
  ASSUME NEW a \in Nat, NEW b \in Nat, NEW p \in Nat, NEW q \in Nat,
         NEW c \in Nat, NEW d \in Nat,
         a <= b, 1 <= p, p <= q + 1, q <= b - a, c = a + p - 1, d = a + q
  PROVE  Part(Run(a, b), p, q) = Run(c, d)
<1>1. PICK x \in Nat : x = p - 1
  OBVIOUS
<1>2. p = x + 1 /\ c = a + x /\ x <= q /\ c <= d /\ d - c = q - x
  BY <1>1
<1>3. PICK s \in Seq(1 .. b) : /\ s = Run(a, b) /\ Len(s) = b - a
                              /\ \A i \in 1 .. b - a : s[i] = a + i
  <2>1. /\ Run(a, b) \in Seq(1 .. b) /\ Len(Run(a, b)) = b - a
        /\ \A i \in 1 .. b - a : Run(a, b)[i] = a + i
    BY RunFacts
  <2> QED
    BY <2>1
<1>4. PICK r \in Seq(1 .. d) : /\ r = Run(c, d) /\ Len(r) = q - x
                              /\ \A i \in 1 .. q - x : r[i] = c + i
  <2>1. /\ Run(c, d) \in Seq(1 .. d) /\ Len(Run(c, d)) = d - c
        /\ \A i \in 1 .. d - c : Run(c, d)[i] = c + i
    BY <1>2, RunFacts
  <2> QED
    BY <1>2, <2>1
<1>5. PICK t : t = SubSeq(s, x + 1, q)
  OBVIOUS
<1>6. t \in Seq(1 .. b) /\ Len(t) = q - x
  BY SMTT(30), <1>2, <1>3, <1>5
<1>7. ASSUME NEW i \in 1 .. q - x PROVE t[i] = r[i]
  <2>1. t[i] = s[(x + 1) + i - 1]
    BY <1>2, <1>3, <1>5
  <2>2. (x + 1) + i - 1 = x + i /\ x + i \in 1 .. b - a
    BY <1>2
  <2>3. s[x + i] = a + (x + i)
    BY <1>3, <2>2
  <2> QED
    BY <1>2, <1>4, <2>1, <2>2, <2>3
<1>8. d <= b
  OBVIOUS
<1>9. r \in Seq(1 .. b)
  BY <1>8, SeqGrows
<1>10. t = r
  BY <1>4, <1>6, <1>7, <1>9, SameSeq
<1> QED
  BY <1>2, <1>3, <1>4, <1>5, <1>10 DEF Part

\* The block joins the buffer.
LEMMA AppendStep ==
  ASSUME Inv, AppendBlock
  PROVE  Inv'
<1>1. /\ pc = "parse" /\ pc' = "read" /\ ~parser.broken /\ ~MoreTokens
      /\ stream' = stream /\ fed' = fed /\ parsed' = parsed /\ parser' = parser
      /\ avail' = avail /\ block' = block /\ sent' = sent /\ cut' = cut
      /\ framer' = [framer EXCEPT !.buffer = @ \o block]
  BY DEF AppendBlock
<1>2. /\ framer \in [level : Int, index : Nat, buffer_index : Nat,
                     frames : Seq(Frame),
                     buffer : Seq(1 .. fed)]
      /\ fed \in Nat /\ parser.base \in Nat /\ block \in Seq(1 .. fed)
      /\ Len(stream) \in Nat /\ parsed \in 0 .. Len(stream)
  BY DEF Inv, Framed, Taken, ServerInv
<1>3. /\ framer'.level = framer.level /\ framer'.index = framer.index
      /\ framer'.frames = framer.frames
      /\ framer'.buffer_index = framer.buffer_index
      /\ framer'.buffer = framer.buffer \o block
      /\ framer' \in [level : Int, index : Nat, buffer_index : Nat,
                      frames : Seq(Frame),
                      buffer : Seq(1 .. fed)]
  <2>1. framer.buffer \in Seq(1 .. fed)
    BY <1>2
  <2>2. framer.buffer \o block \in Seq(1 .. fed)
    BY <1>2, <2>1, ConcatAt
  <2>3. PICK b \in Seq(1 .. fed) : b = framer.buffer \o block
    BY <2>2
  <2>4. framer' = [framer EXCEPT !.buffer = b]
    BY <1>1, <2>3
  <2> QED
    BY <1>2, <2>3, <2>4
<1>4. ServerInv'
  BY <1>1, Frozen DEF Inv
<1>5. Total' = Total /\ Ends' = Ends /\ DepthAt(parsed)' = DepthAt(parsed)
        /\ (Misled(parsed)' <=> Misled(parsed))
  BY <1>1 DEF Total, Ends, DepthAt, After, Misled
<1>6. ASSUME NEW i \in parsed + 1 .. Len(stream) PROVE fed < stream[i].to
  <2>1. parsed < Len(stream) /\ parsed + 1 \in 1 .. Len(stream) /\ i \in 1 .. Len(stream)
    BY <1>2
  <2>2. /\ stream[parsed + 1].to \in Nat /\ stream[i].to \in Nat
        /\ stream[i].from \in Nat /\ stream[i].from <= stream[i].to
    BY <2>1, TotalType DEF Inv
  <2>3. fed < stream[parsed + 1].to
    <3>1. ~(stream[parsed + 1].to <= fed)
      <4>1. ~MoreTokens
        BY <1>1
      <4> QED
        BY <2>1, <4>1, Zenon DEF MoreTokens
    <3>2. stream[parsed + 1].to \in Nat /\ fed \in Nat
      BY <1>2, <2>2
    <3> QED
      BY <3>1, <3>2, SMTT(30)
  <2>4. CASE i = parsed + 1
    BY <2>3, <2>4
  <2>5. CASE parsed + 1 < i
    <3>1. stream[parsed + 1].to < stream[i].from
      BY <2>1, <2>5 DEF Inv, ServerInv, Placed
    <3>2. fed \in Nat
      BY <1>2
    <3> QED
      BY <2>2, <2>3, <3>1, <3>2
  <2> QED
    BY <1>2, <2>4, <2>5
<1>7. Taken'
  <2>1. parser'.base < fed'
    BY <1>1 DEF Inv, Taken, Untouched
  <2>2. \A i \in 1 .. Len(stream) :
           Renews(i) => stream[i].from - 1 <= fed /\ stream[i].from - 1 # fed
    BY <1>1 DEF Inv, Taken
  <2>3. \A i : Renews(i)' <=> Renews(i)
    BY <1>1, Frozen
  <2> QED
    BY <1>1, <1>5, <1>6, <2>1, <2>2, <2>3 DEF Inv, Taken
<1>8. Levelled'
  BY <1>1, <1>3, <1>5 DEF Inv, Levelled, IsHeader
<1>9. Framed'
  <2>1. PICK s \in Nat : s = parser.base + framer.buffer_index
    BY <1>2
  <2>2. Kept = fed - Len(block) /\ Kept' = fed
    BY <1>1 DEF Kept
  <2>3. PICK b \in Nat : b = fed - Len(block) /\ s <= b /\ b <= fed
    <3>1. Len(block) \in Nat
      BY <1>2
    <3>2. s <= fed - Len(block)
      BY <1>1, <2>1, <2>2 DEF Inv, Framed
    <3> QED
      BY <1>2, <2>1, <3>1, <3>2
  <2>4. framer.buffer = Run(s, b) /\ block = Run(b, fed)
    BY <1>1, <2>1, <2>2, <2>3 DEF Inv, Framed
  <2>5. framer.buffer \o block = Run(s, fed)
    <3>1. Run(s, b) \o Run(b, fed) = Run(s, fed)
      BY <1>2, <2>3, RunJoin
    <3> QED
      BY <2>4, <3>1
  <2>6. /\ parser'.base + framer'.buffer_index <= Kept'
        /\ framer'.buffer = Run(parser'.base + framer'.buffer_index, Kept')
    <3>1. parser'.base + framer'.buffer_index = s /\ Kept' = fed
      BY <1>1, <1>3, <2>1, <2>2
    <3>2. s <= fed
      BY <1>2, <2>3
    <3> QED
      BY <1>3, <2>5, <3>1, <3>2
  <2>7. Past(framer.buffer_index)'
    BY <1>1, <1>3 DEF Inv, Framed, Past
  <2>8. \A n \in 1 .. Len(framer.frames) :
          /\ framer'.buffer_index <= framer'.frames[n].index
          /\ Past(FrameEnd(framer.frames[n]))'
    BY <1>1, <1>3 DEF Inv, Framed, Past, FrameEnd
  <2>9. \A m, n \in 1 .. Len(framer'.frames) :
          m < n => FrameEnd(framer'.frames[m]) <= framer'.frames[n].index
    BY <1>3 DEF Inv, Framed
  <2> QED
    BY <1>1, <1>2, <1>3, <2>6, <2>7, <2>8, <2>9 DEF Framed
<1>10. Pointed'
  BY <1>1, <1>3, <1>5 DEF Inv, Pointed, Clear, Past, OpenAt
<1>11. \A i, n : Exact(i, framer.frames[n])' <=> Exact(i, framer.frames[n])
  BY <1>1, <1>3, Frozen DEF Exact
<1>12. \A i : (Misled(i)' <=> Misled(i)) /\ Stanza(i)' = Stanza(i)
  BY <1>1, Frozen
<1>13. Honest'
  BY <1>1, <1>3, <1>5, <1>11, <1>12 DEF Inv, Honest
<1>14. Delivered'
  BY <1>1, <1>3 DEF Inv, Delivered
<1>15. Sound'
  BY <1>1, <1>3, <1>5 DEF Inv, Sound, Pending, IsHeader, InStep, OpenAt
<1>16. Forwarding'
  BY <1>1, <1>3, <1>5, <1>11, <1>12 DEF Inv, Forwarding
<1>17. ForwardedExactly'
  BY <1>1, SentKept DEF Inv
<1> QED
  BY <1>4, <1>7, <1>8, <1>9, <1>10, <1>13, <1>14, <1>15, <1>16, <1>17 DEF Inv

-----------------------------------------------------------------------------
(***************************************************************************)
(* Sending a frame                                                         *)
(***************************************************************************)

\* The smaller of a frame's size and the capacity of data_buffer.
Trimmed(size) == IF size < Capacity THEN size ELSE Capacity

\* A frame that holds what a token ends has its bytes.
LEMMA StanzaIs ==
  ASSUME NEW i, NEW fr, fr.index \in Nat, fr.size \in Nat, parser.base \in Nat,
         stream[i].to \in Nat, Exact(i, fr)
  PROVE  Stanza(i) = Run(parser.base + fr.index,
                         parser.base + fr.index + Trimmed(fr.size))
<1>1. PICK x \in Nat, s \in Nat :
         x = parser.base + fr.index /\ s = Trimmed(fr.size)
  BY BoundsAssumption DEF Trimmed
<1>2. /\ Begin(i) = x + 1 /\ stream[i].to - Begin(i) + 1 = fr.size
      /\ (IF stream[i].to - Begin(i) + 1 < Capacity
          THEN stream[i].to - Begin(i) + 1 ELSE Capacity) = s
  BY <1>1 DEF Exact, Trimmed
<1>3. Stanza(i) = [k \in 1 .. s |-> Begin(i) + k - 1]
  BY <1>2 DEF Stanza
<1>4. \A k \in 1 .. s : Begin(i) + k - 1 = x + k
  BY <1>2
<1>5. (x + s) - x = s
  OBVIOUS
<1>6. Run(x, x + s) = [k \in 1 .. s |-> x + k]
  BY <1>5 DEF Run
<1>7. Stanza(i) = Run(x, x + s)
  BY <1>3, <1>4, <1>6
<1> QED
  BY <1>1, <1>7

\* The first frame, and what taking it leaves.
LEMMA TakeFrame ==
  ASSUME Framed, Taken, pc = "read", framer.frames # <<>>
  PROVE  LET fr == framer.frames[1]
             to == FrameEnd(fr)
             g  == framer_get_frame2(framer)
         IN  /\ fr.index \in Nat /\ fr.size \in Nat /\ to \in Nat
             /\ framer.buffer_index <= to
             /\ FrameBytes(framer) = Run(parser.base + fr.index,
                                         parser.base + fr.index + Trimmed(fr.size))
             /\ g \in [level : Int, index : Nat, buffer_index : Nat,
                       frames : Seq(Frame),
                       buffer : Seq(1 .. fed)]
             /\ g.level = framer.level /\ g.index = framer.index
             /\ g.buffer_index = to /\ g.frames = Tail(framer.frames)
             /\ g.buffer = Run(parser.base + to, fed)
             /\ parser.base + to <= fed
<1>0. /\ framer \in [level : Int, index : Nat, buffer_index : Nat,
                     frames : Seq(Frame),
                     buffer : Seq(1 .. fed)]
      /\ fed \in Nat /\ parser.base \in Nat /\ ~parser.broken
  BY DEF Framed, Taken
<1>1. PICK fs \in Seq(Frame) :
         fs = framer.frames /\ fs # <<>>
  BY <1>0
<1>2. 1 \in 1 .. Len(fs)
  BY <1>1
<1>3. PICK fr \in Frame : fr = fs[1]
  <2>1. fs[1] \in Frame
    BY <1>2
  <2> QED
    BY <2>1
<1>4. PICK bi \in Nat, base \in Nat, f \in Nat :
         bi = framer.buffer_index /\ base = parser.base /\ f = fed
  BY <1>0
<1>5. PICK x \in Nat, sz \in Nat : x = fr.index /\ sz = fr.size
  BY DEF Frame
<1>6. bi <= x /\ base + (x + sz) <= f /\ FrameEnd(fr) = x + sz
  BY <1>1, <1>2, <1>3, <1>4, <1>5 DEF Framed, Past, FrameEnd
<1>7. PICK delta \in Nat : delta = x - bi
  BY <1>6
<1>8. (IF framer.frames[1].index > framer.buffer_index
       THEN framer.frames[1].index - framer.buffer_index ELSE 0) = delta
  <2>1. /\ framer.frames[1].index = x /\ framer.buffer_index = bi
    BY <1>1, <1>3, <1>4, <1>5
  <2>2. (IF x > bi THEN x - bi ELSE 0) = delta
    BY <1>6, <1>7
  <2> QED
    BY <2>1, <2>2
<1>9. PICK s \in Nat : s = Trimmed(sz) /\ s <= sz
  BY BoundsAssumption DEF Trimmed
<1>10. PICK A \in Nat, n \in Nat : A = base + bi /\ n = f - A
  BY <1>6
<1>11. framer.buffer = Run(A, f)
  BY <1>0, <1>4, <1>10 DEF Framed, Kept
<1>12. PICK e \in Nat, t \in Nat : e = delta + s /\ t = delta + sz
  OBVIOUS
<1>13. A <= f /\ delta <= e /\ e <= t /\ t <= n /\ n <= f - A /\ e <= f - A
  BY <1>6, <1>7, <1>9, <1>10, <1>12
<1>14. /\ A + delta = base + x /\ A + e = base + x + s
       /\ A + t = base + (x + sz) /\ A + n = f /\ bi + delta + sz = x + sz
  BY <1>7, <1>10, <1>12
<1>15. FrameBytes(framer) = SubSeq(framer.buffer, delta + 1, e)
  BY <1>1, <1>3, <1>5, <1>8, <1>9, <1>12 DEF FrameBytes, Trimmed
<1>16. SubSeq(Run(A, f), delta + 1, e) = Run(A + delta, A + e)
  <2>1. PICK p \in Nat, c \in Nat, d \in Nat :
           p = delta + 1 /\ c = A + delta /\ d = A + e
    OBVIOUS
  <2>2. /\ A <= f /\ 1 <= p /\ p <= e + 1 /\ e <= f - A
        /\ c = A + p - 1 /\ d = A + e
    BY <1>13, <2>1
  <2>3. Part(Run(A, f), p, e) = Run(c, d)
    BY <2>2, RunPart
  <2> QED
    BY <2>1, <2>3 DEF Part
<1>17. FrameBytes(framer) = Run(base + x, base + x + s)
  BY <1>11, <1>14, <1>15, <1>16
<1>18. SubSeq(Run(A, f), t + 1, n) = Run(A + t, A + n)
  <2>1. PICK p \in Nat, c \in Nat, d \in Nat :
           p = t + 1 /\ c = A + t /\ d = A + n
    OBVIOUS
  <2>2. /\ A <= f /\ 1 <= p /\ p <= n + 1 /\ n <= f - A
        /\ c = A + p - 1 /\ d = A + n
    BY <1>13, <2>1
  <2>3. Part(Run(A, f), p, n) = Run(c, d)
    BY <2>2, RunPart
  <2> QED
    BY <2>1, <2>3 DEF Part
<1>19. Len(Run(A, f)) = n
  BY <1>10, <1>13, RunFacts
<1>20. Without(framer.buffer, t) = Run(base + (x + sz), f)
  BY <1>11, <1>14, <1>18, <1>19 DEF Without
<1>21. PICK buf \in Seq(1 .. f) : buf = Run(base + (x + sz), f)
  <2>1. PICK y \in Nat : y = base + (x + sz) /\ y <= f
    BY <1>6
  <2>2. Run(y, f) \in Seq(1 .. f)
    BY <2>1, RunFacts
  <2> QED
    BY <2>1, <2>2
<1>22. PICK tl \in Seq(Frame) : tl = Tail(fs)
  <2>1. Tail(fs) \in Seq(Frame)
    BY <1>1
  <2> QED
    BY <2>1
<1>23. framer_get_frame2(framer) =
         [framer EXCEPT !.buffer = Without(framer.buffer, delta + fr.size),
                        !.frames = Tail(framer.frames),
                        !.buffer_index = framer.buffer_index + delta + fr.size]
  BY <1>1, <1>3, <1>8 DEF framer_get_frame2
<1>24. framer_get_frame2(framer) =
         [framer EXCEPT !.buffer = buf, !.frames = tl, !.buffer_index = x + sz]
  BY <1>1, <1>4, <1>5, <1>12, <1>14, <1>20, <1>21, <1>22, <1>23
<1>25. PICK g : g = framer_get_frame2(framer)
  OBVIOUS
<1>26. x + sz \in Nat /\ buf \in Seq(1 .. fed)
  BY <1>4
<1>27. /\ g \in [level : Int, index : Nat, buffer_index : Nat,
                 frames : Seq(Frame),
                 buffer : Seq(1 .. fed)]
       /\ g.level = framer.level /\ g.index = framer.index
       /\ g.buffer_index = x + sz /\ g.frames = tl /\ g.buffer = buf
  BY <1>0, <1>24, <1>25, <1>26
<1>28. framer.buffer_index <= x + sz
  BY <1>4, <1>6
<1> QED
  BY <1>1, <1>3, <1>4, <1>5, <1>6, <1>9, <1>17, <1>21, <1>22, <1>25, <1>27, <1>28

\* The other frames, after the first one has been taken.
LEMMA TailFrames ==
  ASSUME NEW fs \in Seq(Frame), fs # <<>>
  PROVE  /\ Tail(fs) \in Seq(Frame) /\ Len(Tail(fs)) = Len(fs) - 1
         /\ \A n \in 1 .. Len(Tail(fs)) :
               n + 1 \in 1 .. Len(fs) /\ Tail(fs)[n] = fs[n + 1]
  OBVIOUS

\* A frame is sent.
LEMMA WriteFrameStep ==
  ASSUME Inv, WriteFrame
  PROVE  Inv'
<1>1. /\ pc = "read" /\ pc' = pc /\ framer.frames # <<>>
      /\ stream' = stream /\ fed' = fed /\ parsed' = parsed /\ parser' = parser
      /\ avail' = avail /\ block' = block /\ cut' = cut
      /\ sent' = Append(sent, FrameBytes(framer))
      /\ framer' = framer_get_frame2(framer)
  BY DEF WriteFrame, Drained
<1>2. PICK fs \in Seq(Frame) : fs = framer.frames /\ fs # <<>>
  BY <1>1 DEF Inv, Framed
<1>3. PICK gs \in Seq(Frame) : gs = Tail(fs)
  BY <1>2, TailFrames
<1>4. /\ Len(gs) = Len(fs) - 1
      /\ \A n \in 1 .. Len(gs) : n + 1 \in 1 .. Len(fs) /\ gs[n] = fs[n + 1]
      /\ 1 \in 1 .. Len(fs) /\ Len(fs) \in Nat
  BY <1>2, <1>3, TailFrames
<1>5. PICK base \in Nat, f \in Nat, bi \in Nat, fr \in Frame :
         /\ base = parser.base /\ f = fed /\ bi = framer.buffer_index
         /\ fr = fs[1]
  <2>1. fs[1] \in Frame
    BY <1>4
  <2> QED
    BY <2>1 DEF Inv, Framed, Taken
<1>6. PICK x \in Nat, sz \in Nat : x = fr.index /\ sz = fr.size
  BY DEF Frame
<1>7. PICK s \in Nat, e \in Nat : s = Trimmed(sz) /\ s <= sz /\ e = x + sz
  BY BoundsAssumption DEF Trimmed
<1>8. FrameEnd(fr) = e
  BY <1>6, <1>7 DEF FrameEnd
<1>9. PICK R : R = Run(base + x, base + x + s)
  OBVIOUS
<1>10. /\ bi <= e /\ base + e <= f
       /\ FrameBytes(framer) = R
       /\ framer' \in [level : Int, index : Nat, buffer_index : Nat,
                       frames : Seq(Frame),
                       buffer : Seq(1 .. fed)]
       /\ framer'.level = framer.level /\ framer'.index = framer.index
       /\ framer'.buffer_index = e /\ framer'.frames = gs
       /\ framer'.buffer = Run(base + e, fed)
  BY <1>1, <1>2, <1>3, <1>5, <1>6, <1>7, <1>8, <1>9, TakeFrame DEF Inv
<1>11. bi <= x
  BY <1>2, <1>4, <1>5, <1>6 DEF Inv, Framed
<1>12. /\ R \in Seq(1 .. f) /\ Len(R) = s
       /\ \A i \in 1 .. s : R[i] = base + x + i
  <2>1. PICK a \in Nat, b \in Nat : a = base + x /\ b = base + x + s
    OBVIOUS
  <2>2. a <= b /\ b <= f /\ b - a = s
    BY SMTT(30), <1>7, <1>10, <2>1
  <2>3. R \in Seq(1 .. b) /\ Len(R) = s /\ \A i \in 1 .. s : R[i] = a + i
    <3>1. /\ Run(a, b) \in Seq(1 .. b) /\ Len(Run(a, b)) = b - a
          /\ \A i \in 1 .. b - a : Run(a, b)[i] = a + i
      BY <2>2, RunFacts
    <3>2. R = Run(a, b)
      BY <1>9, <2>1
    <3> QED
      BY <2>2, <3>1, <3>2
  <2>4. R \in Seq(1 .. f)
    BY <2>2, <2>3, SeqGrows
  <2> QED
    BY <2>1, <2>3, <2>4
<1>13. PICK M \in Nat : M = Len(sent) /\ sent \in Seq(Seq(1 .. f))
  BY <1>5 DEF Inv, Delivered
<1>14. /\ sent' \in Seq(Seq(1 .. f)) /\ Len(sent') = M + 1
       /\ \A n \in 1 .. M : sent'[n] = sent[n]
       /\ sent'[M + 1] = R
  BY <1>1, <1>10, <1>12, <1>13
<1>15. PICK p \in Nat, N \in Nat : p = parsed /\ N = Len(stream) /\ p <= N
  <2>1. Len(stream) \in Nat /\ parsed \in 0 .. Len(stream)
    BY DEF Inv, Taken, ServerInv
  <2> QED
    BY <2>1
<1>16. /\ ServerInv' /\ Total' = Total /\ Ends' = Ends
       /\ DepthAt(parsed)' = DepthAt(parsed)
       /\ (Misled(parsed)' <=> Misled(parsed))
  BY <1>1, Frozen DEF Inv, DepthAt, Misled, After
<1>17. /\ \A i : (Misled(i)' <=> Misled(i)) /\ Stanza(i)' = Stanza(i)
       /\ \A i : Renews(i)' <=> Renews(i)
       /\ \A i, g : Exact(i, g)' <=> Exact(i, g)
  BY <1>1, Frozen DEF Exact
<1>18. Taken'
  <2>1. parser'.base < fed'
    BY <1>1 DEF Inv, Taken, Untouched
  <2> QED
    BY <1>1, <1>16, <1>17, <2>1 DEF Inv, Taken
<1>19. Levelled'
  BY <1>1, <1>10, <1>16 DEF Inv, Levelled, IsHeader
<1>20. ASSUME NEW n \in 1 .. Len(gs)
       PROVE  /\ e <= gs[n].index /\ Past(FrameEnd(gs[n]))'
              /\ n + 1 \in 1 .. Len(fs) /\ gs[n] = fs[n + 1]
  <2>1. n + 1 \in 1 .. Len(fs) /\ gs[n] = fs[n + 1] /\ 1 < n + 1
    BY <1>4
  <2>2. FrameEnd(fs[1]) <= fs[n + 1].index
    BY <1>2, <1>4, <2>1 DEF Inv, Framed
  <2>3. Past(FrameEnd(fs[n + 1]))
    BY <1>2, <2>1 DEF Inv, Framed
  <2>4. Past(FrameEnd(fs[n + 1]))'
    BY <1>1, <2>3 DEF Past
  <2> QED
    BY <1>5, <1>8, <2>1, <2>2, <2>4
<1>21. Framed'
  <2>1. Past(framer.buffer_index)'
    <3>1. Past(e)
      BY <1>2, <1>4, <1>5, <1>8 DEF Inv, Framed
    <3>2. Past(e)'
      BY <1>1, <3>1 DEF Past
    <3> QED
      BY <1>10, <3>2 DEF Past
  <2>2. \A n \in 1 .. Len(framer'.frames) :
          /\ framer'.buffer_index <= framer'.frames[n].index
          /\ Past(FrameEnd(framer.frames[n]))'
    <3> SUFFICES ASSUME NEW n \in 1 .. Len(gs)
                 PROVE  e <= gs[n].index /\ Past(FrameEnd(framer.frames[n]))'
      BY <1>10
    <3>1. e <= gs[n].index /\ Past(FrameEnd(gs[n]))'
      BY <1>20
    <3> QED
      BY <1>10, <3>1 DEF Past, FrameEnd
  <2>3. \A m, n \in 1 .. Len(framer'.frames) :
          m < n => FrameEnd(framer'.frames[m]) <= framer'.frames[n].index
    <3> SUFFICES ASSUME NEW m \in 1 .. Len(gs), NEW n \in 1 .. Len(gs), m < n
                 PROVE  FrameEnd(gs[m]) <= gs[n].index
      BY <1>10
    <3>1. m + 1 \in 1 .. Len(fs) /\ n + 1 \in 1 .. Len(fs) /\ m + 1 < n + 1
      BY <1>4
    <3>2. FrameEnd(fs[m + 1]) <= fs[n + 1].index
      BY <1>2, <3>1 DEF Inv, Framed
    <3> QED
      BY <1>4, <3>2
  <2>4. Kept' = fed
    BY <1>1 DEF Kept
  <2>5. parser'.base + framer'.buffer_index = base + e
    BY <1>1, <1>5, <1>10
  <2>6. /\ parser'.base + framer'.buffer_index <= Kept'
        /\ framer'.buffer = Run(parser'.base + framer'.buffer_index, Kept')
    BY <1>5, <1>10, <2>4, <2>5
  <2>7. /\ framer' \in [level : Int, index : Nat, buffer_index : Nat,
                       frames : Seq(Frame),
                       buffer : Seq(1 .. fed')]
        /\ block' \in Seq(1 .. fed') /\ pc' # "parse"
    BY <1>1, <1>10 DEF Inv, Framed
  <2> QED
    BY <2>1, <2>2, <2>3, <2>6, <2>7 DEF Framed
<1>22. Pointed'
  <2> SUFFICES ASSUME framer'.level >= 2 PROVE Pointed'
    BY DEF Pointed
  <2>1. framer.level >= 2
    BY <1>10
  <2>2. Clear(framer.index) /\ Past(framer.index)
    BY <2>1 DEF Inv, Pointed
  <2>3. e <= framer.index
    BY <1>2, <1>4, <1>5, <1>8, <2>2 DEF Clear
  <2>4. \A n \in 1 .. Len(gs) : FrameEnd(gs[n]) <= framer.index
    BY <1>2, <1>4, <2>2 DEF Clear
  <2>5. Clear(framer.index)'
    BY <1>10, <2>3, <2>4 DEF Clear
  <2>6. Past(framer.index)'
    BY <1>1, <1>10, <2>2 DEF Past
  <2>7. \E j \in 1 .. parsed, k \in Int :
          /\ k = DepthAt(parsed) - framer.level + 1
          /\ OpenAt(parsed, k, j)
          /\ stream[j].kind = "open"
          /\ stream[j].from = parser.base + framer.index + 1
    BY <2>1 DEF Inv, Pointed
  <2>8. \A k, j : OpenAt(parsed, k, j)' <=> OpenAt(parsed, k, j)
    BY <1>1 DEF OpenAt
  <2> QED
    BY <1>1, <1>10, <1>16, <2>5, <2>6, <2>7, <2>8 DEF Pointed
<1>23. Honest'
  <2> SUFFICES ASSUME NEW n \in 1 .. Len(gs)
               PROVE  \E i \in 1 .. p :
                        \/ Exact(i, gs[n])' /\ (i \in Ends' \/ Misled(i)')
                        \/ Misled(i)' /\ gs[n].size = 0
    BY <1>1, <1>10, <1>15 DEF Honest, Exact
  <2>1. n + 1 \in 1 .. Len(fs) /\ gs[n] = fs[n + 1]
    BY <1>4
  <2>2. \E i \in 1 .. p :
          \/ Exact(i, fs[n + 1]) /\ (i \in Ends \/ Misled(i))
          \/ Misled(i) /\ fs[n + 1].size = 0
    BY <1>2, <1>15, <2>1 DEF Inv, Honest
  <2> QED
    BY <1>16, <1>17, <2>1, <2>2
<1>24. Delivered'
  <2>1. ASSUME NEW n \in 1 .. M + 1, NEW y \in 1 .. Len(sent'[n])
        PROVE  sent'[n][y] <= base + e
    <3>1. CASE n \in 1 .. M
      <4>1. sent'[n] = sent[n] /\ y \in 1 .. Len(sent[n])
        BY <1>14, <3>1
      <4>2. sent[n][y] <= base + bi
        BY <1>5, <1>13, <3>1, <4>1 DEF Inv, Delivered
      <4>3. PICK sn \in Seq(1 .. f) : sn = sent[n]
        BY <1>13, <3>1
      <4>4. sn[y] \in 1 .. f
        BY <4>1, <4>3
      <4>5. sn[y] <= base + bi
        BY <4>2, <4>3
      <4>6. sn[y] <= base + e
        BY <1>10, <4>4, <4>5
      <4> QED
        BY <4>1, <4>3, <4>6
    <3>2. CASE n = M + 1
      <4>1. y \in 1 .. s /\ sent'[n] = R
        BY <1>12, <1>14, <3>2
      <4>2. R[y] = base + x + y
        BY <1>12, <4>1
      <4>3. base + x + y <= base + e
        BY <1>7, <4>1
      <4> QED
        BY <4>1, <4>2, <4>3
    <3> QED
      BY <3>1, <3>2
  <2>2. parser'.base + framer'.buffer_index = base + e
    BY <1>1, <1>5, <1>10
  <2>3. sent' \in Seq(Seq(1 .. fed'))
    BY <1>1, <1>5, <1>14
  <2> QED
    BY <1>14, <2>1, <2>2, <2>3 DEF Delivered
<1>25. Sound'
  BY <1>1, <1>10, <1>16 DEF Inv, Sound, Pending, IsHeader, InStep, OpenAt
<1>26. ASSUME NEW i \in 1 .. N, Exact(i, fr) PROVE R = Stanza(i)
  <2>1. i \in 1 .. Len(stream)
    BY <1>15
  <2>2. stream[i].to \in Nat
    BY <2>1, BeginType DEF Inv
  <2>3. Stanza(i) = Run(parser.base + fr.index,
                        parser.base + fr.index + Trimmed(fr.size))
    BY <1>5, <1>6, <1>26, <2>2, StanzaIs
  <2> QED
    BY <1>5, <1>6, <1>7, <1>9, <2>3
<1>27. Forwarding'
  <2>1. pc' # "wait"
    BY <1>1
  <2> SUFFICES ASSUME ~cut, NEW i \in 1 .. p, i \in Ends, ~Misled(i)
               PROVE  \/ \E n \in 1 .. M + 1 : sent'[n] = Stanza(i)
                      \/ \E n \in 1 .. Len(gs) : Exact(i, gs[n])'
    BY <1>1, <1>10, <1>14, <1>15, <1>16, <1>17, <2>1 DEF Forwarding, Exact
  <2>2. \/ \E n \in 1 .. M : sent[n] = Stanza(i)
        \/ \E n \in 1 .. Len(fs) : Exact(i, fs[n])
    BY <1>2, <1>13, <1>15 DEF Inv, Forwarding
  <2>3. CASE \E n \in 1 .. M : sent[n] = Stanza(i)
    <3>1. PICK n \in 1 .. M : sent[n] = Stanza(i)
      BY <2>3
    <3>2. n \in 1 .. M + 1 /\ sent'[n] = Stanza(i)
      BY <1>14, <3>1
    <3> QED
      BY <3>2
  <2>4. CASE \E n \in 1 .. Len(fs) : Exact(i, fs[n])
    <3>1. PICK n \in 1 .. Len(fs) : Exact(i, fs[n])
      BY <2>4
    <3>2. CASE n = 1
      <4>1. Exact(i, fr) /\ i \in 1 .. N
        BY <1>5, <1>15, <3>1, <3>2
      <4>2. sent'[M + 1] = Stanza(i) /\ M + 1 \in 1 .. M + 1
        BY <1>14, <1>26, <4>1
      <4> QED
        BY <4>2
    <3>3. CASE n # 1
      <4>1. PICK m \in Nat : m = n - 1 /\ m \in 1 .. Len(gs) /\ n = m + 1
        BY <1>4, <3>3
      <4>2. gs[m] = fs[n]
        BY <1>4, <4>1
      <4>3. Exact(i, gs[m])'
        BY <1>17, <3>1, <4>2
      <4> QED
        BY <4>1, <4>3
    <3> QED
      BY <3>2, <3>3
  <2> QED
    BY <2>2, <2>3, <2>4
<1>28. ForwardedExactly'
  <2>1. ASSUME NEW n \in 1 .. M + 1
        PROVE  \/ \E i \in Ends : sent'[n] = Stanza(i)
               \/ \E i \in 1 .. N :
                     Misled(i) /\ sent'[n] \in {Stanza(i), <<>>}
    <3>1. CASE n \in 1 .. M
      BY <1>13, <1>14, <1>15, <3>1 DEF Inv, ForwardedExactly
    <3>2. CASE n = M + 1
      <4>1. sent'[n] = R
        BY <1>14, <3>2
      <4>2. PICK i \in 1 .. p :
              \/ Exact(i, fr) /\ (i \in Ends \/ Misled(i))
              \/ Misled(i) /\ sz = 0
        BY <1>2, <1>4, <1>5, <1>6, <1>15 DEF Inv, Honest
      <4>3. i \in 1 .. N
        BY <1>15
      <4>4. CASE Exact(i, fr) /\ (i \in Ends \/ Misled(i))
        BY <1>26, <4>1, <4>3, <4>4
      <4>5. CASE Misled(i) /\ sz = 0
        <5>1. Len(R) = 0
          BY <1>7, <1>12, <4>5
        <5>2. R = <<>>
          BY <1>12, <5>1
        <5> QED
          BY <4>1, <4>3, <4>5, <5>2
      <4> QED
        BY <4>2, <4>4, <4>5
    <3> QED
      BY <3>1, <3>2
  <2>2. ASSUME NEW m \in 1 .. M + 1, NEW n \in 1 .. M + 1, m < n,
               NEW y \in 1 .. Len(sent'[m]), NEW z \in 1 .. Len(sent'[n])
        PROVE  sent'[m][y] < sent'[n][z]
    <3>1. m \in 1 .. M /\ sent'[m] = sent[m]
      BY SMTT(30), <1>14, <2>2
    <3>2. CASE n \in 1 .. M
      BY <1>13, <1>14, <2>2, <3>1, <3>2 DEF Inv, ForwardedExactly
    <3>3. CASE n = M + 1
      <4>1. z \in 1 .. s /\ sent'[n] = R
        BY <1>12, <1>14, <3>3
      <4>2. R[z] = base + x + z
        BY <1>12, <4>1
      <4>3. sent[m][y] <= base + bi
        BY <1>5, <1>13, <3>1 DEF Inv, Delivered
      <4>4. PICK sm \in Seq(1 .. f) : sm = sent[m]
        BY <1>13, <3>1
      <4>5. sm[y] \in 1 .. f
        BY SMTT(30), <3>1, <4>4
      <4>6. sm[y] <= base + bi
        BY <4>3, <4>4
      <4>7. sm[y] < base + x + z
        BY <1>11, <4>1, <4>5, <4>6
      <4> QED
        BY <3>1, <4>1, <4>2, <4>4, <4>7
    <3> QED
      BY <3>2, <3>3
  <2>3. Len(stream') = N
    BY <1>1, <1>15
  <2> QED
    BY <1>14, <1>16, <1>17, <2>1, <2>2, <2>3 DEF ForwardedExactly
<1> QED
  BY <1>16, <1>18, <1>19, <1>21, <1>22, <1>23, <1>24, <1>25, <1>27, <1>28 DEF Inv

-----------------------------------------------------------------------------
(***************************************************************************)
(* The next token                                                          *)
(***************************************************************************)

\* Where the next token begins and ends, for the parser; it is behind all that
\* has been framed.
LEMMA NextToken ==
  ASSUME Inv, pc = "parse", ~parser.broken, MoreTokens
  PROVE  /\ parsed \in Nat /\ parsed + 1 \in 1 .. Len(stream)
         /\ stream[parsed + 1] \in Token
         /\ fed \in Nat /\ parser.base \in Nat
         /\ stream[parsed + 1].from \in Nat /\ stream[parsed + 1].to \in Nat
         /\ parser.base < stream[parsed + 1].from
         /\ stream[parsed + 1].from <= stream[parsed + 1].to
         /\ stream[parsed + 1].to <= fed
         /\ \A i \in parsed + 2 .. Len(stream) :
               /\ stream[i].from \in Nat
               /\ stream[parsed + 1].to < stream[i].from
         /\ \A x \in Nat : parser.base + x + 1 >= stream[parsed + 1].from =>
               Clear(x)
<1>1. PICK N \in Nat, p \in Nat : N = Len(stream) /\ p = parsed /\ p < N
  <2>1. Len(stream) \in Nat /\ parsed \in 0 .. Len(stream) /\ parsed < Len(stream)
    BY DEF Inv, Taken, ServerInv, MoreTokens
  <2> QED
    BY <2>1
<1>2. p + 1 \in 1 .. N
  BY <1>1
<1>3. /\ stream[p + 1].from \in Nat /\ stream[p + 1].to \in Nat
      /\ stream[p + 1].from <= stream[p + 1].to
  BY <1>1, <1>2, TotalType DEF Inv
<1>4. stream[p + 1] \in Token
  BY <1>1, <1>2, TokenFields DEF Inv, ServerInv
<1>5. fed \in Nat /\ parser.base \in Nat /\ stream[p + 1].to <= fed
  BY <1>1 DEF Inv, Taken, MoreTokens
<1>6. parser.base < stream[p + 1].from
  BY <1>1, <1>2 DEF Inv, Taken
<1>7. ASSUME NEW i \in p + 2 .. N
      PROVE  stream[i].from \in Nat /\ stream[p + 1].to < stream[i].from
  <2>1. i \in 1 .. N /\ p + 1 < i
    BY <1>1
  <2> QED
    BY <1>1, <1>2, <2>1, TotalType DEF Inv, ServerInv, Placed
<1>8. ASSUME NEW x \in Nat, parser.base + x + 1 >= stream[p + 1].from
      PROVE  Clear(x)
  <2>1. p + 1 \in parsed + 1 .. Len(stream)
    BY <1>1
  <2>2. ASSUME NEW y, Past(y) PROVE y <= x
    <3>1. y \in Nat /\ parser.base + y < stream[p + 1].from
      BY <2>1, <2>2 DEF Past
    <3> QED
      BY <1>3, <1>5, <1>8, <3>1
  <2>3. /\ Past(framer.buffer_index)
        /\ \A n \in 1 .. Len(framer.frames) : Past(FrameEnd(framer.frames[n]))
    BY DEF Inv, Framed
  <2> QED
    BY <2>2, <2>3 DEF Clear
<1> QED
  BY <1>1, <1>2, <1>3, <1>4, <1>5, <1>6, <1>7, <1>8

\* What makes a token well-formed, by its kind.
LEMMA WellFormedCases ==
  ASSUME NEW p, NEW t
  PROVE  /\ t.kind = "decl" => (WellFormed(p, t) <=> t.from = p.base + 1)
         /\ t.kind \in Starts \cup Empties =>
               (WellFormed(p, t) <=> p.stack # <<>> \/ ~p.root)
         /\ t.kind \in Closes =>
               (WellFormed(p, t) <=> /\ p.stack # <<>>
                                     /\ p.stack[Len(p.stack)] = Opener(t.kind))
         /\ t.kind = "space" => WellFormed(p, t)
<1>1. ASSUME t.kind = "decl" PROVE WellFormed(p, t) <=> t.from = p.base + 1
  BY <1>1, Zenon DEF WellFormed, Starts, Empties, Closes
<1>2. ASSUME t.kind \in Starts \cup Empties
      PROVE  WellFormed(p, t) <=> p.stack # <<>> \/ ~p.root
  <2>1. t.kind # "decl" /\ t.kind \notin Closes /\ t.kind # "space"
    BY <1>2 DEF Starts, Empties, Closes
  <2> QED
    BY <1>2, <2>1, Zenon DEF WellFormed
<1>3. ASSUME t.kind \in Closes
      PROVE  WellFormed(p, t) <=> /\ p.stack # <<>>
                                  /\ p.stack[Len(p.stack)] = Opener(t.kind)
  <2>1. t.kind # "decl" /\ t.kind \notin Starts \cup Empties /\ t.kind # "space"
    BY <1>3 DEF Starts, Empties, Closes
  <2> QED
    BY <1>3, <2>1, Zenon DEF WellFormed
<1>4. ASSUME t.kind = "space" PROVE WellFormed(p, t)
  <2>1. t.kind # "decl" /\ t.kind \notin Starts \cup Empties /\ t.kind \notin Closes
    BY <1>4 DEF Starts, Empties, Closes
  <2> QED
    BY <1>4, <2>1, Zenon DEF WellFormed
<1> QED
  BY <1>1, <1>2, <1>3, <1>4, Zenon

\* Until a header has been missed, the parser accepts every token that the
\* server sends.
LEMMA TokenSound ==
  ASSUME Inv, ~cut, pc = "parse", MoreTokens
  PROVE  /\ WellFormed(parser, stream[parsed + 1])
         /\ IsHeader(parsed + 1) => Pending(parsed + 1)
         /\ ~IsHeader(parsed + 1) => InStep
<1>1. ~parser.broken
  BY DEF Inv, Sound
<1>2. PICK N \in Nat, p \in Nat, q \in Nat :
         N = Len(stream) /\ p = parsed /\ q = p + 1 /\ q \in 1 .. N
  <2>1. Len(stream) \in Nat
    BY DEF Inv, ServerInv
  <2> QED
    BY <1>1, <2>1, NextToken
<1>3. /\ stream[q] \in Token /\ stream[q].from <= fed /\ stream[q].kind \in Kind
  <2>1. /\ stream[q] \in Token /\ stream[q].from \in Nat /\ stream[q].to \in Nat
        /\ stream[q].from <= stream[q].to /\ stream[q].to <= fed /\ fed \in Nat
    BY <1>1, <1>2, NextToken
  <2> QED
    BY <2>1 DEF Token
<1>4. CASE IsHeader(q)
  <2>1. Pending(q)
    BY <1>2, <1>3, <1>4 DEF Pending
  <2>2. /\ ~parser.root
        /\ stream[q].kind = "decl" => stream[q].from = parser.base + 1
    <3>1. p < q
      BY <1>2
    <3> QED
      BY <1>2, <2>1, <3>1 DEF Inv, Sound
  <2>3. ASSUME stream[q].kind = "decl" PROVE WellFormed(parser, stream[q])
    BY <2>2, <2>3, WellFormedCases, Zenon
  <2>4. ASSUME stream[q].kind = "stream" PROVE WellFormed(parser, stream[q])
    <3>1. stream[q].kind \in Starts \cup Empties
      BY <2>4 DEF Starts
    <3> QED
      BY <2>2, <3>1, WellFormedCases, Zenon
  <2>5. WellFormed(parser, stream[q])
    BY <1>4, <2>3, <2>4 DEF IsHeader
  <2> QED
    BY <1>2, <1>4, <2>1, <2>5
<1>5. CASE ~IsHeader(q)
  <2>1. /\ q > 1 /\ stream[q].depth = DepthAt(q - 1) /\ stream[q].depth >= 1
        /\ stream[q - 1].kind # "decl" /\ q - 1 = p
    BY <1>2, <1>5 DEF Inv, ServerInv, Nested
  <2>2. ASSUME NEW i \in 1 .. N, Pending(i) PROVE FALSE
    <3>1. IsHeader(i)
      BY <2>2 DEF Pending
    <3>2. p < i
      BY <1>2, <2>1, <2>2 DEF Pending
    <3>3. i # q
      BY <1>5, <3>1
    <3>4. ~Renews(i)
      <4>1. Renews(i) => i - 1 <= p
        BY <1>1, <1>2 DEF Inv, Taken
      <4> QED
        BY <1>2, <3>2, <3>3, <4>1
    <3>5. i > 1 /\ stream[i - 1].kind = "decl"
      BY <3>1, <3>4 DEF Renews
    <3>6. i - 1 \in 1 .. N
      BY <3>5
    <3>7. Renews(i - 1)
      BY <1>2, <3>5, <3>6 DEF Inv, ServerInv, Nested
    <3>8. (i - 1) - 1 <= p
      BY <1>1, <1>2, <3>6, <3>7 DEF Inv, Taken
    <3>9. i - 1 = q
      BY <1>2, <3>2, <3>3, <3>8
    <3> QED
      BY <1>5, <3>5, <3>9 DEF IsHeader
  <2>3. InStep
    BY <1>2, <2>2 DEF Inv, Sound
  <2>4. PICK d \in Nat : d = stream[q].depth /\ d = DepthAt(p) /\ d >= 1
    BY <1>3, <2>1 DEF Token
  <2>5. Len(parser.stack) = d /\ parser.stack \in Seq(Starts)
    BY <1>2, <2>3, <2>4 DEF Inv, InStep, Levelled
  <2>6. parser.stack # <<>>
    BY <2>4, <2>5
  <2>7. CASE stream[q].kind \in Starts \cup Empties
    <3>1. stream[q].kind # "decl"
      BY <1>5 DEF IsHeader
    <3>2. WellFormed(parser, stream[q])
      BY <2>6, <2>7, WellFormedCases, Zenon
    <3> QED
      BY <1>2, <1>5, <2>3, <3>2
  <2>8. CASE stream[q].kind \in Closes
    <3>1. PICK m \in 1 .. q - 1 : OpenAt(q - 1, stream[q].depth - 1, m)
      BY <1>2, <2>8, CloseDepth DEF Inv
    <3>2. d - 1 \in Nat /\ (d - 1) + 1 = stream[q].depth
            /\ OpenAt(q - 1, d - 1, m)
      BY <2>4, <3>1
    <3>3. stream[m].kind = Opener(stream[q].kind)
      BY <1>2, <2>8, <3>2 DEF Inv, ServerInv, Matched
    <3>4. d \in 1 .. Len(parser.stack) /\ m \in 1 .. p
      BY <2>1, <2>4, <2>5
    <3>5. parser.stack[d] = stream[m].kind
      BY <1>2, <2>1, <2>3, <3>2, <3>4 DEF InStep
    <3>6. stream[q].kind # "decl" /\ stream[q].kind \notin Starts \cup Empties
      BY <2>8 DEF Closes, Starts, Empties
    <3>7. WellFormed(parser, stream[q])
      BY <2>5, <2>6, <2>8, <3>3, <3>5, <3>6 DEF WellFormed
    <3> QED
      BY <1>2, <1>5, <2>3, <3>7
  <2>9. CASE stream[q].kind = "space"
    <3>1. WellFormed(parser, stream[q])
      BY <2>9 DEF WellFormed, Starts, Empties, Closes
    <3> QED
      BY <1>2, <1>5, <2>3, <3>1
  <2>10. stream[q].kind \in (Starts \cup Empties) \cup Closes \cup {"space"}
    BY <1>3, <1>5 DEF IsHeader, Kind, Plain, Namesake, Starts, Empties, Closes
  <2> QED
    BY <2>7, <2>8, <2>9, <2>10
<1> QED
  BY <1>4, <1>5

\* The parser refuses a token: only after a header has been missed.
LEMMA ParseErrorStep ==
  ASSUME Inv, ParseError
  PROVE  Inv'
<1>1. /\ pc = "parse" /\ pc' = "wait" /\ avail' = 0
      /\ stream' = stream /\ fed' = fed /\ parsed' = parsed
      /\ framer' = framer /\ block' = block /\ sent' = sent /\ cut' = cut
      /\ parser' = [parser EXCEPT !.broken = TRUE]
  BY DEF ParseError
<1>2. cut
  <2> SUFFICES ASSUME ~cut PROVE FALSE
    OBVIOUS
  <2>1. ~parser.broken
    BY DEF Inv, Sound
  <2>2. MoreTokens /\ ~WellFormed(parser, stream[parsed + 1])
    BY <2>1 DEF ParseError
  <2> QED
    BY <1>1, <2>2, TokenSound
<1>3. /\ parser' \in [base : Nat, stack : Seq(Starts), root : BOOLEAN,
                      broken : BOOLEAN]
      /\ parser'.base = parser.base /\ parser'.stack = parser.stack
      /\ parser'.broken
  BY <1>1 DEF Inv, Levelled
<1>4. /\ ServerInv' /\ Total' = Total /\ Ends' = Ends
      /\ DepthAt(parsed)' = DepthAt(parsed)
      /\ (Misled(parsed)' <=> Misled(parsed))
  BY <1>1, Frozen DEF Inv, DepthAt, Misled, After
<1>5. /\ \A i : (Misled(i)' <=> Misled(i)) /\ Stanza(i)' = Stanza(i)
      /\ \A i : Renews(i)' <=> Renews(i)
      /\ \A i, g : Exact(i, g)' <=> Exact(i, g)
  BY <1>1, <1>3, Frozen DEF Exact
<1>6. Taken'
  <2>1. parser'.base < fed'
    BY <1>1, <1>3 DEF Inv, Taken, Untouched
  <2>2. avail' \in Nat /\ avail' <= Total' - fed'
    BY <1>1, <1>4, TotalType DEF Inv, Taken
  <2> QED
    BY <1>1, <1>3, <1>4, <1>5, <2>1, <2>2 DEF Inv, Taken
<1>7. Levelled'
  BY <1>1, <1>3, <1>4 DEF Inv, Levelled, IsHeader
<1>8. \A x : Past(x)' <=> Past(x)
  BY <1>1, <1>3 DEF Past
<1>9. Framed'
  <2>1. Past(framer.buffer_index)'
    BY <1>1, <1>3 DEF Inv, Framed, Past
  <2>2. \A n \in 1 .. Len(framer.frames) :
          /\ framer'.buffer_index <= framer'.frames[n].index
          /\ Past(FrameEnd(framer.frames[n]))'
    BY <1>1, <1>3 DEF Inv, Framed, Past, FrameEnd
  <2> QED
    BY <1>1, <1>3, <2>1, <2>2 DEF Inv, Framed
<1>10. Pointed'
  BY <1>1, <1>3, <1>4 DEF Inv, Pointed, Clear, Past, OpenAt
<1>11. Honest'
  BY <1>1, <1>4, <1>5 DEF Inv, Honest
<1>12. Delivered'
  BY <1>1, <1>3 DEF Inv, Delivered
<1>13. Sound' /\ Forwarding'
  BY <1>1, <1>2, <1>3 DEF Sound, Forwarding
<1>14. ForwardedExactly'
  BY <1>1, SentKept DEF Inv
<1> QED
  BY <1>4, <1>6, <1>7, <1>9, <1>10, <1>11, <1>12, <1>13, <1>14 DEF Inv

-----------------------------------------------------------------------------
(***************************************************************************)
(* The callbacks                                                           *)
(***************************************************************************)

\* The framer_t that cm_readcb may hold.
Framers ==
    [level : Int, index : Nat, buffer_index : Nat, frames : Seq(Frame),
     buffer : Seq(1 .. fed)]

\* The frames after one more.
LEMMA AppendFrame ==
  ASSUME NEW fs \in Seq(Frame), NEW x \in Nat, NEW s \in Nat
  PROVE  Append(fs, [index |-> x, size |-> s]) \in Seq(Frame)
<1>1. [index |-> x, size |-> s] \in Frame
  BY DEF Frame
<1> QED
  BY <1>1

\* g is f after framer_start.
Started(f, kind, x, s, g) ==
    /\ g \in Framers
    /\ g.buffer = f.buffer /\ g.buffer_index = f.buffer_index
    /\ Stream(kind) =>
          /\ g.level = 1 /\ g.index = f.index
          /\ g.frames = Append(f.frames, [index |-> x, size |-> s])
    /\ ~Stream(kind) =>
          /\ g.level = f.level + 1 /\ g.frames = f.frames
          /\ g.index = IF f.level = 1 THEN x ELSE f.index

\* g is f after framer_end.
Ended(f, kind, x, s, g) ==
    /\ g \in Framers
    /\ g.buffer = f.buffer /\ g.buffer_index = f.buffer_index
    /\ g.level = f.level - 1 /\ g.index = f.index
    /\ f.level = 2 =>
          g.frames = Append(f.frames, [index |-> f.index,
                                       size |-> x + s - f.index])
    /\ f.level # 2 /\ Stream(kind) =>
          g.frames = Append(f.frames, [index |-> x, size |-> s])
    /\ f.level # 2 /\ ~Stream(kind) => g.frames = f.frames

\* framer_start.
LEMMA StartCases ==
  ASSUME NEW f \in Framers, NEW kind, NEW x \in Nat, NEW s \in Nat,
         NEW g, g = framer_start(f, kind, x, s)
  PROVE  Started(f, kind, x, s, g)
<1>1. CASE Stream(kind)
  <2>1. PICK gs \in Seq(Frame) :
           gs = Append(f.frames, [index |-> x, size |-> s])
    BY AppendFrame DEF Framers
  <2>0. PICK l \in Int : l = 1
    OBVIOUS
  <2>2. g = [f EXCEPT !.frames = gs, !.level = l]
    BY <1>1, <2>0, <2>1 DEF framer_start, framer_add_frame
  <2>3. g \in Framers
    BY <2>2 DEF Framers
  <2>4. /\ g.level = l /\ g.index = f.index /\ g.frames = gs
        /\ g.buffer = f.buffer /\ g.buffer_index = f.buffer_index
    BY <2>2 DEF Framers
  <2> QED
    BY <1>1, <2>0, <2>1, <2>3, <2>4 DEF Started
<1>2. CASE ~Stream(kind)
  <2>1. g = [f EXCEPT !.index = IF f.level = 1 THEN x ELSE f.index,
                      !.level = f.level + 1]
    BY <1>2 DEF framer_start, Framers
  <2>2. PICK i \in Nat : i = IF f.level = 1 THEN x ELSE f.index
    BY DEF Framers
  <2>3. PICK l \in Int : l = f.level + 1
    BY DEF Framers
  <2>4. g = [f EXCEPT !.index = i, !.level = l]
    BY <2>1, <2>2, <2>3
  <2>5. g \in Framers
    BY <2>4 DEF Framers
  <2>6. /\ g.level = l /\ g.index = i /\ g.frames = f.frames
        /\ g.buffer = f.buffer /\ g.buffer_index = f.buffer_index
    BY <2>4 DEF Framers
  <2> QED
    BY <1>2, <2>2, <2>3, <2>5, <2>6 DEF Started
<1> QED
  BY <1>1, <1>2

\* framer_end.
LEMMA EndCases ==
  ASSUME NEW f \in Framers, NEW kind, NEW x \in Nat, NEW s \in Nat,
         f.level = 2 => f.index <= x + s,
         NEW g, g = framer_end(f, kind, x, s)
  PROVE  Ended(f, kind, x, s, g)
<1>0. f.level - 1 \in Int
  BY DEF Framers
<1>1. PICK h \in Framers : h = [f EXCEPT !.level = f.level - 1]
  <2>1. [f EXCEPT !.level = f.level - 1] \in Framers
    BY <1>0 DEF Framers
  <2> QED
    BY <2>1
<1>2. /\ h.level = f.level - 1 /\ h.index = f.index /\ h.frames = f.frames
      /\ h.buffer = f.buffer /\ h.buffer_index = f.buffer_index
      /\ f.level \in Int /\ f.index \in Nat /\ f.frames \in Seq(Frame)
  BY <1>1 DEF Framers
<1>3. g = CASE h.level = 1 -> framer_add_frame(h, h.index, x + s - h.index)
            [] h.level # 1 /\ Stream(kind) -> framer_add_frame(h, x, s)
            [] OTHER -> h
  BY <1>1 DEF framer_end
<1>4. CASE f.level = 2
  <2>1. h.level = 1 /\ x + s - f.index \in Nat
    BY <1>2, <1>4
  <2>2. PICK gs \in Seq(Frame) :
           gs = Append(f.frames, [index |-> f.index, size |-> x + s - f.index])
    BY <1>2, <2>1, AppendFrame
  <2>3. g = framer_add_frame(h, h.index, x + s - h.index)
    BY <1>3, <2>1
  <2>4. g = [h EXCEPT !.frames = gs]
    BY <1>2, <2>2, <2>3 DEF framer_add_frame
  <2> QED
    <3>1. g \in Framers
      BY <2>4 DEF Framers
    <3>2. /\ g.level = h.level /\ g.index = h.index /\ g.frames = gs
          /\ g.buffer = h.buffer /\ g.buffer_index = h.buffer_index
      BY <2>4 DEF Framers
    <3> QED
      BY <1>2, <1>4, <2>2, <3>1, <3>2 DEF Ended
<1>5. CASE f.level # 2 /\ Stream(kind)
  <2>1. h.level # 1
    BY <1>2, <1>5
  <2>2. PICK gs \in Seq(Frame) :
           gs = Append(f.frames, [index |-> x, size |-> s])
    BY <1>2, AppendFrame
  <2>3. g = framer_add_frame(h, x, s)
    BY <1>3, <1>5, <2>1
  <2>4. g = [h EXCEPT !.frames = gs]
    BY <1>2, <2>2, <2>3 DEF framer_add_frame
  <2> QED
    <3>1. g \in Framers
      BY <2>4 DEF Framers
    <3>2. /\ g.level = h.level /\ g.index = h.index /\ g.frames = gs
          /\ g.buffer = h.buffer /\ g.buffer_index = h.buffer_index
      BY <2>4 DEF Framers
    <3> QED
      BY <1>2, <1>5, <2>2, <3>1, <3>2 DEF Ended
<1>6. CASE f.level # 2 /\ ~Stream(kind)
  <2>1. h.level # 1
    BY <1>2, <1>6
  <2>2. g = h
    BY <1>3, <1>6, <2>1
  <2> QED
    BY <1>2, <1>6, <2>2 DEF Ended
<1> QED
  BY <1>4, <1>5, <1>6

\* Frame fr may be added for token q.
Holds(q, fr) ==
    /\ fr \in Frame
    /\ Clear(fr.index)
    /\ parser.base + FrameEnd(fr) <= stream[q].to
    /\ \/ Exact(q, fr) /\ (q \in Ends \/ Misled(q))
       \/ Misled(q) /\ fr.size = 0

\* gs are the frames after the callbacks for token q.
NewFrames(q, gs) ==
    /\ gs \in Seq(Frame)
    /\ Len(framer.frames) <= Len(gs)
    /\ \A n \in 1 .. Len(framer.frames) : gs[n] = framer.frames[n]
    /\ \A n \in Len(framer.frames) + 1 .. Len(gs) : Holds(q, gs[n])
    /\ \A m, n \in Len(framer.frames) + 1 .. Len(gs) :
          m < n => FrameEnd(gs[m]) <= gs[n].index
    /\ q \in Ends /\ ~Misled(q) =>
          \E n \in Len(framer.frames) + 1 .. Len(gs) : Exact(q, gs[n])

\* A token that ends nothing adds no frame.
LEMMA NoFrame ==
  ASSUME framer.frames \in Seq(Frame), NEW q, q \in Ends => Misled(q)
  PROVE  NewFrames(q, framer.frames)
  BY DEF NewFrames

\* A token that ends something adds a frame.
LEMMA OneFrame ==
  ASSUME framer.frames \in Seq(Frame), NEW q, NEW fr, Holds(q, fr), Exact(q, fr)
  PROVE  NewFrames(q, Append(framer.frames, fr))
<1>1. PICK fs \in Seq(Frame), L \in Nat : fs = framer.frames /\ L = Len(fs)
  OBVIOUS
<1>2. fr \in Frame
  BY DEF Holds
<1>3. PICK gs \in Seq(Frame) : gs = Append(fs, fr)
  <2>1. Append(fs, fr) \in Seq(Frame)
    BY <1>2
  <2> QED
    BY <2>1
<1>4. /\ Len(gs) = L + 1 /\ gs[L + 1] = fr
      /\ \A n \in 1 .. L : gs[n] = fs[n]
  BY <1>1, <1>2, <1>3
<1>5. \A n \in L + 1 .. L + 1 : n = L + 1
  OBVIOUS
<1>6. L + 1 \in L + 1 .. L + 1 /\ L <= L + 1
  OBVIOUS
<1>7. \A m, n \in L + 1 .. L + 1 : ~(m < n)
  OBVIOUS
<1>8. NewFrames(q, gs)
  BY <1>1, <1>4, <1>5, <1>6, <1>7 DEF NewFrames
<1> QED
  BY <1>1, <1>3, <1>8

\* The empty element of a namesake adds two frames.
LEMMA TwoFrames ==
  ASSUME framer.frames \in Seq(Frame), NEW q, NEW fr, NEW gr,
         Holds(q, fr), Exact(q, fr), Holds(q, gr), FrameEnd(fr) <= gr.index
  PROVE  NewFrames(q, Append(Append(framer.frames, fr), gr))
<1>1. PICK fs \in Seq(Frame), L \in Nat : fs = framer.frames /\ L = Len(fs)
  OBVIOUS
<1>2. fr \in Frame /\ gr \in Frame
  BY DEF Holds
<1>3. PICK hs \in Seq(Frame) : hs = Append(fs, fr)
  <2>1. Append(fs, fr) \in Seq(Frame)
    BY <1>2
  <2> QED
    BY <2>1
<1>4. PICK gs \in Seq(Frame) : gs = Append(hs, gr)
  <2>1. Append(hs, gr) \in Seq(Frame)
    BY <1>2
  <2> QED
    BY <2>1
<1>5. /\ Len(hs) = L + 1 /\ hs[L + 1] = fr
      /\ \A n \in 1 .. L : hs[n] = fs[n]
  BY <1>1, <1>2, <1>3
<1>6. /\ Len(gs) = L + 2 /\ gs[L + 2] = gr
      /\ \A n \in 1 .. L + 1 : gs[n] = hs[n]
  BY <1>2, <1>4, <1>5
<1>7. gs[L + 1] = fr /\ \A n \in 1 .. L : gs[n] = fs[n]
  BY <1>5, <1>6
<1>8. \A n \in L + 1 .. L + 2 : n = L + 1 \/ n = L + 2
  OBVIOUS
<1>9. L + 1 \in L + 1 .. L + 2 /\ L <= L + 2
  OBVIOUS
<1>10. \A m, n \in L + 1 .. L + 2 : m < n => m = L + 1 /\ n = L + 2
  OBVIOUS
<1>11. \A n \in L + 1 .. L + 2 : Holds(q, gs[n])
  BY <1>6, <1>7, <1>8
<1>12. \A m, n \in L + 1 .. L + 2 : m < n => FrameEnd(gs[m]) <= gs[n].index
  BY <1>6, <1>7, <1>10
<1>13. NewFrames(q, gs)
  BY <1>1, <1>6, <1>7, <1>9, <1>11, <1>12 DEF NewFrames
<1> QED
  BY <1>1, <1>3, <1>4, <1>13

\* The level after a token.
LevelAfter(kind, level) ==
    CASE kind \in {"stream", "inner"} -> 1
      [] kind = "innerempty"          -> 0
      [] kind = "open"                -> level + 1
      [] kind \in Closes              -> level - 1
      [] kind \in {"decl", "empty", "space"} -> level

\* Its alternatives.
LEMMA LevelCases ==
  ASSUME NEW kind, NEW level
  PROVE  /\ kind \in {"stream", "inner"} => LevelAfter(kind, level) = 1
         /\ kind = "innerempty" => LevelAfter(kind, level) = 0
         /\ kind = "open" => LevelAfter(kind, level) = level + 1
         /\ kind \in Closes => LevelAfter(kind, level) = level - 1
         /\ kind \in {"decl", "empty", "space"} => LevelAfter(kind, level) = level
  BY DEF LevelAfter, Closes

\* A namesake misleads the framer until the next stream element.
LEMMA MisledNext ==
  ASSUME NEW p \in Nat
  PROVE  /\ stream[p + 1].kind # "stream" /\ Misled(p) => Misled(p + 1)
         /\ stream[p + 1].kind \in Namesake => Misled(p + 1)
<1>1. ASSUME stream[p + 1].kind # "stream", Misled(p) PROVE Misled(p + 1)
  <2>1. PICK j \in 1 .. p : /\ stream[j].kind \in Namesake
                            /\ \A k \in j .. p : stream[k].kind # "stream"
    BY <1>1 DEF Misled
  <2>2. \A k \in j .. p + 1 : stream[k].kind # "stream"
    BY <1>1, <2>1
  <2>3. j \in 1 .. p + 1
    OBVIOUS
  <2> QED
    BY <2>1, <2>2, <2>3 DEF Misled
<1>2. ASSUME stream[p + 1].kind \in Namesake PROVE Misled(p + 1)
  <2>1. \A k \in p + 1 .. p + 1 : stream[k].kind # "stream"
    BY <1>2 DEF Namesake
  <2>2. p + 1 \in 1 .. p + 1
    OBVIOUS
  <2> QED
    BY <1>2, <2>1, <2>2 DEF Misled
<1> QED
  BY <1>1, <1>2

\* What is known of the level and the depth when a token is accepted.
LEMMA TokenLevel ==
  ASSUME Inv, pc = "parse", ~parser.broken, MoreTokens,
         WellFormed(parser, stream[parsed + 1]),
         NEW q, q = parsed + 1
  PROVE  /\ stream[q].kind = "decl" => framer.level = 0 /\ DepthAt(q) = 0
         /\ stream[q].kind = "stream" => DepthAt(q) = 1
         /\ ~IsHeader(q) =>
               /\ stream[q].depth = DepthAt(parsed) /\ stream[q].depth >= 1
               /\ Misled(parsed) \/ framer.level = DepthAt(parsed)
               /\ Misled(parsed) => Misled(q)
               /\ stream[q].kind \in Namesake => Misled(q)
               /\ stream[q].kind \in Starts => DepthAt(q) = DepthAt(parsed) + 1
               /\ stream[q].kind \in Closes => DepthAt(q) = DepthAt(parsed) - 1
               /\ stream[q].kind \notin Starts \cup Closes =>
                     DepthAt(q) = DepthAt(parsed)
         /\ stream[q].kind \in {"end", "innerend"} => framer.level <= 1
         /\ framer.level \in Int /\ DepthAt(parsed) \in 0 .. MaxDepth
         /\ DepthAt(q) \in 0 .. MaxDepth
<1>1. PICK p \in Nat : p = parsed /\ q = p + 1
  BY NextToken
<1>2. /\ q \in 1 .. Len(stream) /\ stream[q] \in Token
      /\ q \in parsed + 1 .. Len(stream) /\ Len(stream) \in Nat
  BY <1>1, NextToken DEF Inv, ServerInv
<1>3. /\ stream[q].kind \in Kind /\ stream[q].depth \in Nat
      /\ DepthAt(q) = After(stream[q])
  BY <1>1, <1>2 DEF Token, DepthAt
<1>4. /\ framer.level \in Int /\ DepthAt(parsed) \in 0 .. MaxDepth
      /\ DepthAt(q) \in 0 .. MaxDepth
  <2>1. parsed \in 0 .. Len(stream) /\ q \in 0 .. Len(stream)
    BY <1>2 DEF Inv, Taken
  <2> QED
    BY <2>1, DepthType DEF Inv, ServerInv, Levelled
<1>5. ASSUME stream[q].kind = "decl" PROVE framer.level = 0 /\ DepthAt(q) = 0
  <2>1. stream[q].from = parser.base + 1
    <3>1. WellFormed(parser, stream[q])
      BY <1>1
    <3> QED
      BY <1>5, <3>1, WellFormedCases, Zenon
  <2>2. stream[q].depth = 0
    BY <1>2, <1>5 DEF Inv, ServerInv, Nested, IsHeader
  <2>3. DepthAt(q) = 0
    BY <1>2, <1>3, <1>5, <2>2, AfterCases DEF Starts, Closes
  <2> QED
    BY <1>2, <2>1, <2>3 DEF Inv, Levelled
<1>6. ASSUME stream[q].kind = "stream" PROVE DepthAt(q) = 1
  <2>1. stream[q].depth = 0
    BY <1>2, <1>6 DEF Inv, ServerInv, Nested, IsHeader
  <2> QED
    BY <1>2, <1>3, <1>6, <2>1, AfterCases DEF Starts, Closes
<1>7. ASSUME ~IsHeader(q)
      PROVE  /\ stream[q].depth = DepthAt(parsed) /\ stream[q].depth >= 1
             /\ Misled(parsed) \/ framer.level = DepthAt(parsed)
             /\ Misled(parsed) => Misled(q)
             /\ stream[q].kind \in Namesake => Misled(q)
             /\ stream[q].kind \in Starts => DepthAt(q) = DepthAt(parsed) + 1
             /\ stream[q].kind \in Closes => DepthAt(q) = DepthAt(parsed) - 1
             /\ stream[q].kind \notin Starts \cup Closes =>
                   DepthAt(q) = DepthAt(parsed)
  <2>1. stream[q].depth = DepthAt(q - 1) /\ stream[q].depth >= 1
    BY <1>2, <1>7 DEF Inv, ServerInv, Nested
  <2>2. q - 1 = parsed
    BY <1>1
  <2>3. Misled(parsed) \/ framer.level = DepthAt(parsed)
    BY <1>1, <1>7 DEF Inv, Levelled
  <2>4. /\ Misled(parsed) => Misled(q)
        /\ stream[q].kind \in Namesake => Misled(q)
    BY <1>1, <1>7, MisledNext DEF IsHeader
  <2>5. stream[q].depth = DepthAt(parsed)
    BY <2>1, <2>2
  <2> QED
    BY <1>2, <1>3, <2>1, <2>3, <2>4, <2>5, AfterCases
<1>8. ASSUME stream[q].kind \in {"end", "innerend"} PROVE framer.level <= 1
  <2>1. stream[q].kind \in Closes
    BY <1>8 DEF Closes
  <2>2. WellFormed(parser, stream[q])
    BY <1>1
  <2>3. /\ parser.stack # <<>>
        /\ parser.stack[Len(parser.stack)] = Opener(stream[q].kind)
    BY <2>1, <2>2, WellFormedCases, Zenon
  <2>4. Stream(Opener(stream[q].kind))
    BY <1>8 DEF Stream, Opener, Namesake
  <2>5. PICK l \in Nat : l = Len(parser.stack) /\ l \in 1 .. Len(parser.stack)
    <3>1. parser.stack \in Seq(Starts)
      BY DEF Inv, Levelled
    <3> QED
      BY <2>3, <3>1
  <2>6. framer.level <= Len(parser.stack) - l + 1
    BY <2>3, <2>4, <2>5 DEF Inv, Levelled
  <2> QED
    BY <1>4, <2>5, <2>6
<1> QED
  BY <1>4, <1>5, <1>6, <1>7, <1>8

\* The framer g after the callbacks for token q.
Reported(q, g) ==
    /\ g \in Framers
    /\ g.buffer = framer.buffer /\ g.buffer_index = framer.buffer_index
    /\ NewFrames(q, g.frames)
    /\ g.level = LevelAfter(stream[q].kind, framer.level)
    /\ g.level >= 2 =>
          /\ g.frames = framer.frames
          /\ g.index = IF stream[q].kind = "open" /\ framer.level = 1
                       THEN stream[q].from - parser.base - 1 ELSE framer.index

\* The callbacks that Callbacks makes, by the kind of the token.
LEMMA CallbackCases ==
  ASSUME NEW t, NEW x, x = t.from - parser.base - 1,
         NEW s, s = t.to - t.from + 1
  PROVE  /\ t.kind \in Starts =>
               Callbacks(framer, t) = framer_start(framer, t.kind, x, s)
         /\ t.kind \in Closes =>
               Callbacks(framer, t) = framer_end(framer, t.kind, x, s)
         /\ t.kind \in Empties =>
               Callbacks(framer, t) =
                   framer_end(framer_start(framer, t.kind, x, s),
                              t.kind, x + s, 0)
         /\ t.kind \in {"decl", "space"} => Callbacks(framer, t) = framer
<1>1. /\ t.kind \in Starts => t.kind \notin Closes /\ t.kind \notin Empties
      /\ t.kind \in Closes => t.kind \notin Starts /\ t.kind \notin Empties
      /\ t.kind \in Empties => t.kind \notin Starts /\ t.kind \notin Closes
      /\ t.kind \in {"decl", "space"} =>
            t.kind \notin Starts /\ t.kind \notin Closes /\ t.kind \notin Empties
  BY DEF Starts, Closes, Empties
<1>2. Callbacks(framer, t) =
        CASE t.kind \in Starts -> framer_start(framer, t.kind, x, s)
          [] t.kind \in Closes -> framer_end(framer, t.kind, x, s)
          [] t.kind \in Empties ->
                framer_end(framer_start(framer, t.kind, x, s),
                           t.kind, x + s, 0)
          [] OTHER -> framer
  BY DEF Callbacks
<1> QED
  BY <1>1, <1>2

\* A frame with the bytes of token q, which is a whole tag or element.
LEMMA TagHolds ==
  ASSUME Inv, pc = "parse", ~parser.broken, MoreTokens,
         NEW q, q = parsed + 1, stream[q].kind # "close",
         NEW x \in Nat, x = stream[q].from - parser.base - 1,
         NEW s \in Nat, s = stream[q].to - stream[q].from + 1,
         NEW fr \in Frame, fr.index = x, fr.size = s
  PROVE  /\ Exact(q, fr) /\ FrameEnd(fr) = x + s
         /\ q \in Ends \/ Misled(q) => Holds(q, fr)
<1>1. /\ stream[q].from \in Nat /\ stream[q].to \in Nat /\ parser.base \in Nat
  BY NextToken
<1>2. Begin(q) = stream[q].from
  BY DEF Begin
<1>3. Exact(q, fr)
  BY <1>1, <1>2 DEF Exact
<1>4. FrameEnd(fr) = x + s /\ parser.base + (x + s) = stream[q].to
  <2>1. FrameEnd(fr) = x + s
    BY DEF FrameEnd
  <2>2. PICK a \in Nat, b \in Nat, c \in Nat :
           /\ a = stream[q].from /\ b = stream[q].to /\ c = parser.base
           /\ x = a - c - 1 /\ s = b - a + 1
    BY <1>1
  <2>3. \A i, j \in Nat : i = a - c - 1 /\ j = b - a + 1 => c + (i + j) = b
    OBVIOUS
  <2>4. c + (x + s) = b
    BY <2>2, <2>3, Zenon
  <2> QED
    BY <2>1, <2>2, <2>4
<1>5. Clear(x)
  <2>1. parser.base + x + 1 >= stream[parsed + 1].from
    BY <1>1
  <2> QED
    BY <2>1, NextToken
<1>6. parser.base + FrameEnd(fr) <= stream[q].to
  BY <1>1, <1>4
<1> QED
  BY <1>3, <1>4, <1>5, <1>6 DEF Holds

\* Every token that is accepted is reported as it should be.
LEMMA CallbackStep ==
  ASSUME Inv, pc = "parse", ~parser.broken, MoreTokens,
         WellFormed(parser, stream[parsed + 1]),
         NEW q, q = parsed + 1, NEW g, g = Callbacks(framer, stream[q])
  PROVE  Reported(q, g)
<1>1. /\ stream[q].from \in Nat /\ stream[q].to \in Nat /\ parser.base \in Nat
      /\ parser.base < stream[q].from /\ stream[q].from <= stream[q].to
      /\ q \in 1 .. Len(stream) /\ stream[q].kind \in Kind
  BY NextToken DEF Token
<1>2. PICK x \in Nat, s \in Nat : /\ x = stream[q].from - parser.base - 1
                                  /\ s = stream[q].to - stream[q].from + 1
  BY SMTT(30), <1>1
<1>a. PICK a \in Nat, b \in Nat, c \in Nat :
         /\ a = stream[q].from /\ b = stream[q].to /\ c = parser.base
         /\ x = a - c - 1 /\ s = b - a + 1
  BY <1>1, <1>2
<1>b. c + (x + s) = b /\ c + x + 1 = a
  BY <1>a
<1>3. /\ framer \in Framers /\ framer.frames \in Seq(Frame)
      /\ framer.level \in Int /\ framer.index \in Nat
  BY DEF Inv, Framed, Framers
<1>4. /\ stream[q].kind \in Starts => g = framer_start(framer, stream[q].kind, x, s)
      /\ stream[q].kind \in Closes => g = framer_end(framer, stream[q].kind, x, s)
      /\ stream[q].kind \in Empties =>
            g = framer_end(framer_start(framer, stream[q].kind, x, s),
                           stream[q].kind, x + s, 0)
      /\ stream[q].kind \in {"decl", "space"} => g = framer
  BY <1>2, CallbackCases
<1>5. PICK fr \in Frame : /\ fr = [index |-> x, size |-> s]
                          /\ fr.index = x /\ fr.size = s
  <2>1. PICK fr : fr = [index |-> x, size |-> s]
    OBVIOUS
  <2>2. fr.index = x /\ fr.size = s
    BY <2>1
  <2>3. fr \in Frame
    BY <2>1 DEF Frame
  <2> QED
    BY <2>1, <2>2, <2>3
<1>6. ASSUME stream[q].kind # "close"
      PROVE  /\ Exact(q, fr) /\ FrameEnd(fr) = x + s
             /\ q \in Ends \/ Misled(q) => Holds(q, fr)
  BY <1>2, <1>5, <1>6, TagHolds
<1>7. /\ ~IsHeader(q) =>
            /\ stream[q].depth = DepthAt(parsed)
            /\ Misled(parsed) \/ framer.level = DepthAt(parsed)
            /\ Misled(parsed) => Misled(q)
            /\ stream[q].kind \in Namesake => Misled(q)
      /\ stream[q].kind \in {"end", "innerend"} => framer.level <= 1
  BY TokenLevel
<1>8. CASE stream[q].kind \in {"decl", "space"}
  <2>1. g = framer /\ q \notin Ends
    BY <1>4, <1>8 DEF Ends
  <2>2. NewFrames(q, framer.frames)
    BY <1>3, <2>1, NoFrame
  <2>3. LevelAfter(stream[q].kind, framer.level) = framer.level
    BY <1>8, LevelCases
  <2>4. stream[q].kind # "open"
    BY <1>8
  <2> QED
    BY <1>3, <2>1, <2>2, <2>3, <2>4 DEF Reported
<1>9. CASE stream[q].kind \in {"stream", "inner"}
  <2>1. g = framer_start(framer, stream[q].kind, x, s) /\ Stream(stream[q].kind)
    BY <1>4, <1>9 DEF Starts, Stream, Namesake
  <2>2. /\ g \in Framers /\ g.level = 1
        /\ g.buffer = framer.buffer /\ g.buffer_index = framer.buffer_index
        /\ g.frames = Append(framer.frames, fr)
    <3>1. Started(framer, stream[q].kind, x, s, g)
      BY <1>3, <2>1, StartCases
    <3> QED
      BY <1>5, <2>1, <3>1 DEF Started
  <2>3. Exact(q, fr) /\ Holds(q, fr)
    <3>1. q \in Ends \/ Misled(q)
      <4>1. CASE stream[q].kind = "stream"
        BY <1>1, <4>1 DEF Ends
      <4>2. CASE stream[q].kind = "inner"
        BY <1>7, <4>2 DEF IsHeader, Namesake
      <4> QED
        BY <1>9, <4>1, <4>2
    <3> QED
      BY <1>6, <1>9, <3>1
  <2>4. NewFrames(q, g.frames)
    BY <1>3, <2>2, <2>3, OneFrame
  <2>5. LevelAfter(stream[q].kind, framer.level) = 1
    BY <1>9, LevelCases
  <2> QED
    BY <2>2, <2>4, <2>5 DEF Reported
<1>10. CASE stream[q].kind = "open"
  <2>1. /\ g = framer_start(framer, stream[q].kind, x, s) /\ ~Stream(stream[q].kind)
        /\ q \notin Ends
    BY <1>4, <1>10 DEF Starts, Stream, Namesake, Ends
  <2>2. /\ g \in Framers /\ g.level = framer.level + 1
        /\ g.buffer = framer.buffer /\ g.buffer_index = framer.buffer_index
        /\ g.frames = framer.frames
        /\ g.index = IF framer.level = 1 THEN x ELSE framer.index
    <3>1. Started(framer, stream[q].kind, x, s, g)
      BY <1>3, <2>1, StartCases
    <3> QED
      BY <2>1, <3>1 DEF Started
  <2>3. NewFrames(q, g.frames)
    BY <1>3, <2>1, <2>2, NoFrame
  <2>4. LevelAfter(stream[q].kind, framer.level) = framer.level + 1
    BY <1>10, LevelCases
  <2> QED
    BY <1>2, <1>10, <2>2, <2>3, <2>4 DEF Reported
<1>11. CASE stream[q].kind = "empty"
  <2>1. PICK h : h = framer_start(framer, stream[q].kind, x, s)
    OBVIOUS
  <2>2. ~Stream(stream[q].kind) /\ stream[q].kind \in Empties
    BY <1>11 DEF Stream, Namesake, Empties
  <2>3. /\ h \in Framers /\ h.level = framer.level + 1
        /\ h.buffer = framer.buffer /\ h.buffer_index = framer.buffer_index
        /\ h.frames = framer.frames
        /\ h.index = IF framer.level = 1 THEN x ELSE framer.index
    <3>1. Started(framer, stream[q].kind, x, s, h)
      BY <1>3, <2>1, StartCases
    <3> QED
      BY <2>2, <3>1 DEF Started
  <2>4. PICK y \in Nat : y = x + s
    OBVIOUS
  <2>5. g = framer_end(h, stream[q].kind, y, 0)
    BY <1>4, <2>1, <2>2, <2>4
  <2>6. h.level = 2 => h.index = x /\ h.index <= y + 0
    BY <1>2, <1>3, <2>3, <2>4
  <2>7. /\ g \in Framers /\ g.buffer = h.buffer /\ g.buffer_index = h.buffer_index
        /\ g.level = h.level - 1 /\ g.index = h.index
        /\ h.level = 2 =>
              g.frames = Append(h.frames, [index |-> h.index,
                                           size |-> y + 0 - h.index])
        /\ h.level # 2 => g.frames = h.frames
    <3>1. Ended(h, stream[q].kind, y, 0, g)
      BY <2>3, <2>5, <2>6, EndCases
    <3> QED
      BY <2>2, <3>1 DEF Ended
  <2>8. g.level = framer.level
    BY <1>3, <2>3, <2>7
  <2>9. LevelAfter(stream[q].kind, framer.level) = framer.level
    BY <1>11, LevelCases
  <2>10. ~IsHeader(q)
    BY <1>11 DEF IsHeader
  <2>11. NewFrames(q, g.frames)
    <3>1. CASE framer.level = 1
      <4>1. y + 0 - x = s
        BY <2>4
      <4>2. h.level = 2 /\ h.index = x
        BY <2>3, <3>1
      <4>3. g.frames = Append(framer.frames, fr)
        BY <1>5, <2>3, <2>7, <4>1, <4>2
      <4>4. q \in Ends \/ Misled(q)
        BY <1>1, <1>7, <1>11, <2>10, <3>1 DEF Ends
      <4>5. Exact(q, fr) /\ Holds(q, fr)
        BY <1>6, <1>11, <4>4
      <4> QED
        BY <1>3, <4>3, <4>5, OneFrame
    <3>2. CASE framer.level # 1
      <4>1. g.frames = framer.frames
        BY <1>3, <2>3, <2>7, <3>2
      <4>2. q \in Ends => Misled(q)
        BY <1>7, <1>11, <2>10, <3>2 DEF Ends
      <4> QED
        BY <1>3, <4>1, <4>2, NoFrame
    <3> QED
      BY <3>1, <3>2
  <2>12. g.level >= 2 => g.frames = framer.frames /\ g.index = framer.index
    BY <1>3, <2>3, <2>7, <2>8
  <2> QED
    BY <1>11, <2>3, <2>7, <2>8, <2>9, <2>11, <2>12 DEF Reported
<1>12. CASE stream[q].kind = "innerempty"
  <2>1. PICK h : h = framer_start(framer, stream[q].kind, x, s)
    OBVIOUS
  <2>2. Stream(stream[q].kind) /\ stream[q].kind \in Empties
    BY <1>12 DEF Stream, Namesake, Empties
  <2>3. /\ h \in Framers /\ h.level = 1
        /\ h.buffer = framer.buffer /\ h.buffer_index = framer.buffer_index
        /\ h.frames = Append(framer.frames, fr)
    <3>1. Started(framer, stream[q].kind, x, s, h)
      BY <1>3, <2>1, StartCases
    <3> QED
      BY <1>5, <2>2, <3>1 DEF Started
  <2>4. PICK y \in Nat : y = x + s
    OBVIOUS
  <2>5. g = framer_end(h, stream[q].kind, y, 0)
    BY <1>4, <2>1, <2>2, <2>4
  <2>6. PICK gr \in Frame : /\ gr = [index |-> y, size |-> 0]
                            /\ gr.index = y /\ gr.size = 0
    <3>1. PICK gr : gr = [index |-> y, size |-> 0]
      OBVIOUS
    <3>2. gr.index = y /\ gr.size = 0
      BY <3>1
    <3>3. gr \in Frame
      BY <3>1 DEF Frame
    <3> QED
      BY <3>1, <3>2, <3>3
  <2>7. /\ g \in Framers /\ g.buffer = h.buffer /\ g.buffer_index = h.buffer_index
        /\ g.level = 1 - 1
        /\ g.frames = Append(h.frames, gr)
    <3>1. h.level # 2
      BY <2>3
    <3>2. Ended(h, stream[q].kind, y, 0, g)
      BY <2>3, <2>5, <3>1, EndCases
    <3> QED
      BY <2>2, <2>3, <2>6, <3>1, <3>2 DEF Ended
  <2>8. Misled(q)
    BY <1>7, <1>12 DEF IsHeader, Namesake
  <2>9. Exact(q, fr) /\ Holds(q, fr) /\ FrameEnd(fr) = y
    BY <1>6, <1>12, <2>4, <2>8
  <2>10. Holds(q, gr)
    <3>0. c + y + 1 >= a /\ c + y = b
      BY <1>b, <2>4
    <3>1. parser.base + y + 1 >= stream[parsed + 1].from /\ parser.base + y = stream[q].to
      BY <1>a, <3>0
    <3>2. Clear(y)
      BY <3>1, NextToken
    <3>3. FrameEnd(gr) = y
      BY <2>6 DEF FrameEnd
    <3>4. parser.base + FrameEnd(gr) <= stream[q].to
      BY <1>1, <3>1, <3>3
    <3> QED
      BY <2>6, <2>8, <3>2, <3>4 DEF Holds
  <2>11. NewFrames(q, g.frames)
    <3>1. FrameEnd(fr) <= gr.index
      BY <2>6, <2>9
    <3>2. g.frames = Append(Append(framer.frames, fr), gr)
      BY <2>3, <2>7
    <3> QED
      BY <1>3, <2>9, <2>10, <3>1, <3>2, TwoFrames
  <2>12. LevelAfter(stream[q].kind, framer.level) = 0
    BY <1>12, LevelCases
  <2> QED
    BY <2>3, <2>7, <2>11, <2>12 DEF Reported
<1>13. CASE stream[q].kind \in {"end", "innerend"}
  <2>1. g = framer_end(framer, stream[q].kind, x, s) /\ Stream(stream[q].kind)
    BY <1>4, <1>13 DEF Closes, Stream, Namesake
  <2>2. framer.level <= 1 /\ framer.level # 2
    BY <1>3, <1>7, <1>13
  <2>3. /\ g \in Framers /\ g.level = framer.level - 1
        /\ g.buffer = framer.buffer /\ g.buffer_index = framer.buffer_index
        /\ g.frames = Append(framer.frames, fr)
    <3>1. Ended(framer, stream[q].kind, x, s, g)
      BY <1>3, <2>1, <2>2, EndCases
    <3> QED
      BY <1>5, <2>1, <2>2, <3>1 DEF Ended
  <2>4. q \in Ends \/ Misled(q)
    <3>1. CASE stream[q].kind = "end"
      BY <1>1, <3>1 DEF Ends
    <3>2. CASE stream[q].kind = "innerend"
      BY <1>7, <3>2 DEF IsHeader, Namesake
    <3> QED
      BY <1>13, <3>1, <3>2
  <2>5. Exact(q, fr) /\ Holds(q, fr)
    BY <1>6, <1>13, <2>4
  <2>6. NewFrames(q, g.frames)
    BY <1>3, <2>3, <2>5, OneFrame
  <2>7. LevelAfter(stream[q].kind, framer.level) = framer.level - 1
    BY <1>13, LevelCases DEF Closes
  <2>8. ~(g.level >= 2)
    BY <1>3, <2>2, <2>3
  <2> QED
    BY <2>3, <2>6, <2>7, <2>8 DEF Reported
<1>14. CASE stream[q].kind = "close"
  <2>1. /\ g = framer_end(framer, stream[q].kind, x, s) /\ ~Stream(stream[q].kind)
        /\ stream[q].kind \in Closes /\ ~IsHeader(q)
    BY <1>4, <1>14 DEF Closes, Stream, Namesake, IsHeader
  <2>2. LevelAfter(stream[q].kind, framer.level) = framer.level - 1
    BY <2>1, LevelCases
  <2>3. CASE framer.level = 2
    <3>1. /\ Clear(framer.index) /\ Past(framer.index)
          /\ \E j \in 1 .. parsed, k \in Int :
                /\ k = DepthAt(parsed) - framer.level + 1
                /\ OpenAt(parsed, k, j)
                /\ stream[j].kind = "open"
                /\ stream[j].from = parser.base + framer.index + 1
      BY <2>3 DEF Inv, Pointed
    <3>2. PICK j \in 1 .. parsed, k \in Int :
                /\ k = DepthAt(parsed) - framer.level + 1
                /\ OpenAt(parsed, k, j)
                /\ stream[j].kind = "open"
                /\ stream[j].from = parser.base + framer.index + 1
      BY <3>1
    <3>3. DepthAt(parsed) \in Int /\ parsed \in Nat
      BY TokenLevel, NextToken, BoundsAssumption
    <3>4. k = stream[q].depth - 1 /\ q - 1 = parsed
      BY <1>7, <2>1, <2>3, <3>2, <3>3
    <3>5. Begin(q) = stream[j].from
      BY <1>1, <1>14, <3>2, <3>4, BeginIs DEF Inv
    <3>6. PICK i \in Nat : i = framer.index
      BY <1>3
    <3>7. Begin(q) = parser.base + i + 1 /\ Begin(q) <= stream[q].to
      BY <1>1, <3>2, <3>5, <3>6, BeginType DEF Inv
    <3>8. PICK e \in Nat : e = x + s - i /\ i <= x + s /\ e = stream[q].to - Begin(q) + 1
      <4>1. Begin(q) = c + i + 1 /\ c + i + 1 <= b
        BY <1>a, <3>7
      <4>2. PICK e \in Nat : e = x + s - i /\ i <= x + s /\ e = b - (c + i + 1) + 1
        BY <1>b, <4>1
      <4> QED
        BY <1>a, <4>1, <4>2
    <3>9. PICK gr \in Frame : /\ gr = [index |-> i, size |-> e]
                              /\ gr.index = i /\ gr.size = e
      <4>1. PICK gr : gr = [index |-> i, size |-> e]
        OBVIOUS
      <4>2. gr.index = i /\ gr.size = e
        BY <4>1
      <4>3. gr \in Frame
        BY <4>1 DEF Frame
      <4> QED
        BY <4>1, <4>2, <4>3
    <3>10. /\ g \in Framers /\ g.level = framer.level - 1
           /\ g.buffer = framer.buffer /\ g.buffer_index = framer.buffer_index
           /\ g.frames = Append(framer.frames, gr)
      <4>1. Ended(framer, stream[q].kind, x, s, g)
        BY <1>3, <2>1, <3>6, <3>8, EndCases
      <4> QED
        BY <2>3, <3>6, <3>8, <3>9, <4>1 DEF Ended
    <3>11. Exact(q, gr)
      BY <3>7, <3>8, <3>9 DEF Exact
    <3>12. q \in Ends \/ Misled(q)
      BY <1>1, <1>7, <1>14, <2>1, <2>3 DEF Ends
    <3>13. FrameEnd(gr) = x + s /\ parser.base + (x + s) = stream[q].to
      <4>1. i + e = x + s
        BY <3>8
      <4> QED
        BY <1>a, <1>b, <3>9, <4>1 DEF FrameEnd
    <3>14. Holds(q, gr)
      <4>1. parser.base + FrameEnd(gr) <= stream[q].to
        BY <1>1, <3>13
      <4> QED
        BY <3>1, <3>6, <3>9, <3>11, <3>12, <4>1 DEF Holds
    <3>15. NewFrames(q, g.frames)
      BY <1>3, <3>10, <3>11, <3>14, OneFrame
    <3>16. ~(g.level >= 2)
      BY <2>3, <3>10
    <3> QED
      BY <2>2, <3>10, <3>15, <3>16 DEF Reported
  <2>4. CASE framer.level # 2
    <3>1. /\ g \in Framers /\ g.level = framer.level - 1 /\ g.index = framer.index
          /\ g.buffer = framer.buffer /\ g.buffer_index = framer.buffer_index
          /\ g.frames = framer.frames
      <4>1. Ended(framer, stream[q].kind, x, s, g)
        BY <1>3, <2>1, <2>4, EndCases
      <4> QED
        BY <2>1, <2>4, <4>1 DEF Ended
    <3>2. q \in Ends => Misled(q)
      BY <1>7, <1>14, <2>1, <2>4 DEF Ends
    <3>3. NewFrames(q, g.frames)
      BY <1>3, <3>1, <3>2, NoFrame
    <3> QED
      BY <1>14, <2>2, <3>1, <3>3 DEF Reported
  <2> QED
    BY <2>3, <2>4
<1> QED
  BY <1>1, <1>8, <1>9, <1>10, <1>11, <1>12, <1>13, <1>14
     DEF Kind, Plain, Namesake

\* The XML parsers that there may be.
Parsers == [base : Nat, stack : Seq(Starts), root : BOOLEAN, broken : BOOLEAN]

\* The parser r after a token of this kind.
Advanced(p, kind, r) ==
    /\ r \in Parsers /\ r.base = p.base /\ r.broken = p.broken
    /\ kind \in Starts =>
          /\ Len(r.stack) = Len(p.stack) + 1
          /\ \A k \in 1 .. Len(p.stack) : r.stack[k] = p.stack[k]
          /\ r.stack[Len(p.stack) + 1] = kind
    /\ kind \in Closes =>
          /\ Len(r.stack) = Len(p.stack) - 1
          /\ \A k \in 1 .. Len(p.stack) - 1 : r.stack[k] = p.stack[k]
    /\ kind \in Empties => r.stack = p.stack
    /\ kind \in {"decl", "space"} => r = p

\* What the parser does with a token that it accepts.
LEMMA ParsedCases ==
  ASSUME NEW p \in Parsers, NEW t, WellFormed(p, t), NEW r, r = Parsed(p, t)
  PROVE  t.kind \in Kind => Advanced(p, t.kind, r)
<1>1. /\ t.kind \in Starts => t.kind \notin Closes /\ t.kind \notin Empties
      /\ t.kind \in Closes => t.kind \notin Starts /\ t.kind \notin Empties
      /\ t.kind \in Empties => t.kind \notin Starts /\ t.kind \notin Closes
      /\ t.kind \in {"decl", "space"} =>
            t.kind \notin Starts /\ t.kind \notin Closes /\ t.kind \notin Empties
      /\ t.kind \in Starts \cup Closes \cup Empties => t.kind \notin {"decl", "space"}
  BY DEF Starts, Closes, Empties
<1>2. PICK st \in Seq(Starts) : st = p.stack
  BY DEF Parsers
<1>3. CASE t.kind \in Starts
  <2>1. r = [p EXCEPT !.stack = Append(p.stack, t.kind), !.root = TRUE]
    BY <1>1, <1>3 DEF Parsed
  <2>2. PICK ts \in Seq(Starts) : /\ ts = Append(st, t.kind) /\ Len(ts) = Len(st) + 1
                                  /\ \A k \in 1 .. Len(st) : ts[k] = st[k]
                                  /\ ts[Len(st) + 1] = t.kind
    <3>1. /\ Append(st, t.kind) \in Seq(Starts)
          /\ Len(Append(st, t.kind)) = Len(st) + 1
          /\ \A k \in 1 .. Len(st) : Append(st, t.kind)[k] = st[k]
          /\ Append(st, t.kind)[Len(st) + 1] = t.kind
      BY <1>3
    <3> QED
      BY <3>1
  <2>3. r = [p EXCEPT !.stack = ts, !.root = TRUE]
    BY <1>2, <2>1, <2>2
  <2>4. r \in Parsers /\ r.base = p.base /\ r.broken = p.broken /\ r.stack = ts
    BY <2>3 DEF Parsers
  <2> QED
    BY <1>1, <1>2, <1>3, <2>2, <2>4 DEF Advanced
<1>4. CASE t.kind \in Empties
  <2>1. r = [p EXCEPT !.root = TRUE]
    BY <1>1, <1>4 DEF Parsed
  <2>2. r \in Parsers /\ r.base = p.base /\ r.broken = p.broken /\ r.stack = p.stack
    BY <2>1 DEF Parsers
  <2> QED
    BY <1>1, <1>4, <2>2 DEF Advanced
<1>5. CASE t.kind \in Closes
  <2>1. r = [p EXCEPT !.stack = SubSeq(p.stack, 1, Len(p.stack) - 1)]
    BY <1>1, <1>5 DEF Parsed
  <2>2. st # <<>>
    BY <1>2, <1>5, WellFormedCases, Zenon
  <2>3. PICK ts \in Seq(Starts) : /\ ts = SubSeq(st, 1, Len(st) - 1)
                                  /\ Len(ts) = Len(st) - 1
                                  /\ \A k \in 1 .. Len(st) - 1 : ts[k] = st[k]
    <3>1. /\ SubSeq(st, 1, Len(st) - 1) \in Seq(Starts)
          /\ Len(SubSeq(st, 1, Len(st) - 1)) = Len(st) - 1
          /\ \A k \in 1 .. Len(st) - 1 : SubSeq(st, 1, Len(st) - 1)[k] = st[k]
      <4>0. Len(st) \in Nat /\ Len(st) # 0
        BY <2>2
      <4>1. PICK m \in Nat : m = Len(st) - 1 /\ m <= Len(st)
        BY SMTT(30), <4>0
      <4>2. /\ SubSeq(st, 1, m) \in Seq(Starts) /\ Len(SubSeq(st, 1, m)) = m
            /\ \A k \in 1 .. m : SubSeq(st, 1, m)[k] = st[k]
        BY <4>1
      <4> QED
        BY <4>1, <4>2
    <3> QED
      BY <3>1
  <2>4. r = [p EXCEPT !.stack = ts]
    BY <1>2, <2>1, <2>3
  <2>5. r \in Parsers /\ r.base = p.base /\ r.broken = p.broken /\ r.stack = ts
    BY <2>4 DEF Parsers
  <2> QED
    BY <1>1, <1>2, <1>5, <2>3, <2>5 DEF Advanced
<1>6. CASE t.kind \in {"decl", "space"}
  <2>1. r = p
    BY <1>1, <1>6 DEF Parsed
  <2> QED
    BY <1>1, <1>6, <2>1 DEF Advanced
<1> QED
  BY <1>3, <1>4, <1>5, <1>6 DEF Kind, Plain, Namesake, Starts, Closes, Empties

\* The level stays in step with the depth and the parser's stack.
LEMMA LevelStep ==
  ASSUME Inv, pc = "parse", ~parser.broken, MoreTokens,
         WellFormed(parser, stream[parsed + 1]), NEW q, q = parsed + 1,
         NEW l, l = LevelAfter(stream[q].kind, framer.level),
         NEW r, Advanced(parser, stream[q].kind, r)
  PROVE  /\ l \in Int /\ DepthAt(q) - MaxDepth <= l /\ l <= DepthAt(q)
         /\ Misled(q) \/ l = DepthAt(q)
         /\ \A k \in 1 .. Len(r.stack) :
               Stream(r.stack[k]) => l <= Len(r.stack) - k + 1
<1>1. PICK v \in Int, d \in Nat, e \in Nat, M \in Nat :
         /\ v = framer.level /\ d = DepthAt(parsed) /\ e = DepthAt(q)
         /\ M = MaxDepth /\ e <= M
  BY TokenLevel, BoundsAssumption
<1>2. d - M <= v /\ v <= d
  BY <1>1 DEF Inv, Levelled
<1>3. stream[q].kind \in Kind
  BY NextToken DEF Token
<1>4. PICK st \in Seq(Starts), ts \in Seq(Starts), n \in Nat :
         st = parser.stack /\ ts = r.stack /\ n = Len(st)
  <2>1. parser.stack \in Seq(Starts)
    BY DEF Inv, Levelled
  <2>2. r.stack \in Seq(Starts)
    BY DEF Advanced, Parsers
  <2> QED
    BY <2>1, <2>2
<1>5. \A k \in 1 .. n : Stream(st[k]) => v <= n - k + 1
  BY <1>1, <1>4 DEF Inv, Levelled
<1>6. CASE stream[q].kind = "decl"
  <2>1. v = 0 /\ e = 0 /\ l = v
    BY <1>1, <1>6, TokenLevel, LevelCases
  <2>2. ts = st
    BY <1>4, <1>6 DEF Advanced
  <2>3. l = e /\ l <= e /\ e - M <= l /\ l \in Int
    BY <2>1
  <2> QED
    BY <1>1, <1>4, <1>5, <2>1, <2>2, <2>3
<1>7. CASE stream[q].kind \in {"stream", "inner"}
  <2>1. l = 1
    BY <1>7, LevelCases
  <2>2. e >= 1 /\ (Misled(q) \/ l = e)
    <3>1. CASE stream[q].kind = "stream"
      BY <1>1, <2>1, <3>1, TokenLevel
    <3>2. CASE stream[q].kind = "inner"
      <4>1. ~IsHeader(q) /\ stream[q].kind \in Starts /\ stream[q].kind \in Namesake
        BY <3>2 DEF IsHeader, Starts, Namesake
      <4> QED
        BY <1>1, <4>1, TokenLevel
    <3> QED
      BY <1>7, <3>1, <3>2
  <2>3. \A k \in 1 .. Len(ts) : l <= Len(ts) - k + 1
    BY <2>1
  <2>4. l <= e /\ e - M <= l /\ l \in Int
    BY <1>1, <2>1, <2>2
  <2> QED
    BY <1>1, <1>4, <2>2, <2>3, <2>4
<1>8. CASE stream[q].kind = "innerempty"
  <2>1. l = 0
    BY <1>8, LevelCases
  <2>2. ~IsHeader(q) /\ stream[q].kind \in Namesake
    BY <1>8 DEF IsHeader, Namesake
  <2>3. Misled(q)
    BY <2>2, TokenLevel
  <2>4. \A k \in 1 .. Len(ts) : l <= Len(ts) - k + 1
    BY <2>1
  <2>5. l <= e /\ e - M <= l /\ l \in Int
    BY <1>1, <2>1
  <2> QED
    BY <1>1, <1>4, <2>3, <2>4, <2>5
<1>9. CASE stream[q].kind = "open"
  <2>1. ~IsHeader(q) /\ stream[q].kind \in Starts
    BY <1>9 DEF IsHeader, Starts
  <2>2. l = v + 1 /\ e = d + 1 /\ (Misled(q) \/ v = d)
    BY <1>1, <1>9, <2>1, TokenLevel, LevelCases
  <2>3. /\ Len(ts) = n + 1 /\ ts[n + 1] = "open"
        /\ \A k \in 1 .. n : ts[k] = st[k]
    BY <1>4, <1>9, <2>1 DEF Advanced
  <2>4. ~Stream(ts[n + 1])
    BY <2>3 DEF Stream, Namesake
  <2>5. ASSUME NEW k \in 1 .. Len(ts), Stream(ts[k])
        PROVE  l <= Len(ts) - k + 1
    <3>1. k \in 1 .. n
      BY <2>3, <2>4, <2>5
    <3>2. v <= n - k + 1
      BY <1>5, <2>3, <2>5, <3>1
    <3> QED
      BY <2>2, <2>3, <3>2
  <2>6. l <= e /\ e - M <= l /\ l \in Int /\ (Misled(q) \/ l = e)
    BY <1>2, <2>2
  <2> QED
    BY <1>1, <1>4, <2>5, <2>6
<1>10. CASE stream[q].kind \in Closes
  <2>1. ~IsHeader(q)
    BY <1>10 DEF IsHeader, Closes
  <2>2. l = v - 1 /\ e = d - 1 /\ (Misled(q) \/ v = d)
    BY <1>1, <1>10, <2>1, TokenLevel, LevelCases
  <2>3. /\ Len(ts) = n - 1 /\ \A k \in 1 .. n - 1 : ts[k] = st[k]
    BY <1>4, <1>10 DEF Advanced
  <2>5. ASSUME NEW k \in 1 .. Len(ts), Stream(ts[k])
        PROVE  l <= Len(ts) - k + 1
    <3>1. k \in 1 .. n /\ k \in 1 .. n - 1
      BY <2>3
    <3>2. v <= n - k + 1
      BY <1>5, <2>3, <2>5, <3>1
    <3> QED
      BY <2>2, <2>3, <3>2
  <2>6. l <= e /\ e - M <= l /\ l \in Int /\ (Misled(q) \/ l = e)
    BY <1>2, <2>2
  <2> QED
    BY <1>1, <1>4, <2>5, <2>6
<1>11. CASE stream[q].kind \in {"empty", "space"}
  <2>1. ~IsHeader(q) /\ stream[q].kind \notin Starts \cup Closes
    BY <1>11 DEF IsHeader, Starts, Closes
  <2>2. l = v /\ e = d /\ (Misled(q) \/ v = d)
    BY <1>1, <1>11, <2>1, TokenLevel, LevelCases
  <2>3. ts = st
    BY <1>4, <1>11 DEF Advanced, Empties
  <2>4. l <= e /\ e - M <= l /\ l \in Int /\ (Misled(q) \/ l = e)
    BY <1>2, <2>2
  <2> QED
    BY <1>1, <1>4, <1>5, <2>2, <2>3, <2>4
<1> QED
  BY <1>3, <1>6, <1>7, <1>8, <1>9, <1>10, <1>11
     DEF Kind, Plain, Namesake, Closes

\* A header is left to parse only behind a declaration.
LEMMA PendingAfter ==
  ASSUME Inv, ~parser.broken, NEW q, q = parsed + 1, q \in 1 .. Len(stream),
         NEW i \in 1 .. Len(stream), IsHeader(i), q < i
  PROVE  stream[q].kind = "decl" /\ stream[i].kind # "decl"
<1>1. PICK N \in Nat, p \in Nat : N = Len(stream) /\ p = parsed /\ q = p + 1
  <2>1. Len(stream) \in Nat /\ parsed \in 0 .. Len(stream)
    BY DEF Inv, ServerInv, Taken
  <2> QED
    BY <2>1
<1>2. ~Renews(i)
  <2>1. Renews(i) => i - 1 <= p
    BY <1>1 DEF Inv, Taken
  <2>2. ~(i - 1 <= p)
    BY <1>1
  <2> QED
    BY <2>1, <2>2
<1>3. stream[i].kind # "decl"
  BY <1>2 DEF Inv, ServerInv, Nested
<1>4. i > 1 /\ stream[i - 1].kind = "decl"
  BY <1>2 DEF Renews
<1>5. i - 1 \in 1 .. Len(stream)
  BY <1>1, <1>4
<1>6. Renews(i - 1)
  BY <1>4, <1>5 DEF Inv, ServerInv, Nested
<1>7. (i - 1) - 1 <= p
  BY <1>1, <1>5, <1>6 DEF Inv, Taken
<1>8. i - 1 = q
  BY <1>1, <1>7
<1> QED
  BY <1>3, <1>4, <1>8

\* The start tags that are open after a token.
LEMMA OpenAfter ==
  ASSUME NEW p \in Nat, NEW q, q = p + 1, NEW k \in Int
  PROVE  /\ \A m \in 1 .. p :
               /\ OpenAt(p, k, m)
               /\ stream[q].kind \in Starts => stream[q].depth > k
               => OpenAt(q, k, m)
         /\ \A m \in 1 .. p : OpenAt(q, k, m) => OpenAt(p, k, m)
         /\ stream[q].kind \in Starts /\ stream[q].depth = k => OpenAt(q, k, q)
<1>1. ASSUME NEW m \in 1 .. p, OpenAt(p, k, m),
             stream[q].kind \in Starts => stream[q].depth > k
      PROVE  OpenAt(q, k, m)
  <2>1. m \in 1 .. q
    OBVIOUS
  <2>2. ASSUME NEW x \in m + 1 .. q, stream[x].kind \in Starts
        PROVE  stream[x].depth > k
    <3>1. CASE x = q
      BY <1>1, <2>2, <3>1
    <3>2. CASE x # q
      <4>1. x \in m + 1 .. p
        BY <3>2
      <4> QED
        BY <1>1, <2>2, <4>1 DEF OpenAt
    <3> QED
      BY <3>1, <3>2
  <2> QED
    BY <1>1, <2>1, <2>2 DEF OpenAt
<1>2. ASSUME NEW m \in 1 .. p, OpenAt(q, k, m) PROVE OpenAt(p, k, m)
  <2>1. \A x \in m + 1 .. p : x \in m + 1 .. q
    OBVIOUS
  <2> QED
    BY <1>2, <2>1 DEF OpenAt
<1>3. ASSUME stream[q].kind \in Starts, stream[q].depth = k PROVE OpenAt(q, k, q)
  <2>1. q \in 1 .. q /\ \A x \in q + 1 .. q : FALSE
    OBVIOUS
  <2> QED
    BY <1>3, <2>1 DEF OpenAt
<1> QED
  BY <1>1, <1>2, <1>3

\* The parser's stack follows the elements that are open for the server.
LEMMA StackStep ==
  ASSUME Inv, ~cut, pc = "parse", MoreTokens, NEW q, q = parsed + 1,
         stream[q].kind # "decl",
         NEW r, Advanced(parser, stream[q].kind, r)
  PROVE  /\ Len(r.stack) = DepthAt(q)
         /\ \A k \in 1 .. Len(r.stack), m \in 1 .. q :
               OpenAt(q, k - 1, m) => r.stack[k] = stream[m].kind
<1>1. ~parser.broken /\ WellFormed(parser, stream[parsed + 1])
  BY TokenSound DEF Inv, Sound
<1>2. PICK N \in Nat, p \in Nat : N = Len(stream) /\ p = parsed /\ q = p + 1 /\ q \in 1 .. N
  <2>1. Len(stream) \in Nat
    BY DEF Inv, ServerInv
  <2> QED
    BY <1>1, <2>1, NextToken
<1>3. stream[q].kind \in Kind
  BY <1>1, NextToken DEF Token
<1>4. PICK st \in Seq(Starts), ts \in Seq(Starts), n \in Nat :
         st = parser.stack /\ ts = r.stack /\ n = Len(st)
  <2>1. parser.stack \in Seq(Starts)
    BY DEF Inv, Levelled
  <2>2. r.stack \in Seq(Starts)
    BY DEF Advanced, Parsers
  <2> QED
    BY <2>1, <2>2
<1>5. CASE stream[q].kind = "stream"
  <2>1. IsHeader(q) /\ stream[q].kind \in Starts
    BY <1>5 DEF IsHeader, Starts
  <2>2. Pending(q)
    BY <1>2, <2>1, TokenSound
  <2>3. st = <<>>
    BY <1>2, <1>4, <2>2 DEF Inv, Sound
  <2>4. n = 0
    BY <1>4, <2>3
  <2>5. Len(ts) = 1 /\ ts[1] = "stream"
    BY <1>4, <1>5, <2>1, <2>4 DEF Advanced
  <2>6. DepthAt(q) = 1
    BY <1>1, <1>5, TokenLevel
  <2>a. PICK z \in Int : z = 0
    OBVIOUS
  <2>7. OpenAt(q, z, q)
    <3>1. stream[q].depth = z
      BY <1>2, <2>1, <2>a DEF Inv, ServerInv, Nested
    <3> QED
      BY <1>2, <2>1, <3>1, OpenAfter
  <2>8. ASSUME NEW k \in 1 .. Len(ts), NEW m \in 1 .. q, OpenAt(q, k - 1, m)
        PROVE  ts[k] = stream[m].kind
    <3>1. k = 1 /\ k - 1 = 0
      BY <2>5
    <3>2. OpenAt(q, z, m)
      BY <2>8, <2>a, <3>1
    <3>3. q \in Nat /\ q \in 1 .. q
      BY <1>2
    <3>4. m = q
      BY <2>7, <3>2, <3>3, OpenUnique
    <3> QED
      BY <1>5, <2>5, <3>1, <3>4
  <2> QED
    BY <1>4, <2>5, <2>6, <2>8
<1>6. CASE stream[q].kind # "stream"
  <2>1. ~IsHeader(q)
    BY <1>6 DEF IsHeader
  <2>2. InStep
    BY <1>2, <2>1, TokenSound
  <2>3. /\ n = DepthAt(p)
        /\ \A k \in 1 .. n, m \in 1 .. p :
              OpenAt(p, k - 1, m) => st[k] = stream[m].kind
    BY <1>2, <1>4, <2>2 DEF InStep
  <2>4. /\ stream[q].depth = n
        /\ stream[q].kind \in Starts => DepthAt(q) = n + 1
        /\ stream[q].kind \in Closes => DepthAt(q) = n - 1
        /\ stream[q].kind \notin Starts \cup Closes => DepthAt(q) = n
    BY <1>1, <1>2, <2>1, <2>3, TokenLevel
  <2>5. ASSUME NEW k \in 1 .. n, NEW m \in 1 .. p, OpenAt(q, k - 1, m)
        PROVE  st[k] = stream[m].kind
    <3>1. OpenAt(p, k - 1, m)
      <4>1. k - 1 \in Int
        OBVIOUS
      <4> QED
        BY <1>2, <2>5, <4>1, OpenAfter
    <3> QED
      BY <2>3, <3>1
  <2>6. ASSUME stream[q].kind \notin Starts, NEW k, NEW m \in 1 .. q, OpenAt(q, k, m)
        PROVE  m \in 1 .. p
    <3>1. m # q
      BY <2>6 DEF OpenAt
    <3> QED
      BY <1>2, <3>1
  <2>7. CASE stream[q].kind \in Starts
    <3>1. /\ Len(ts) = n + 1 /\ ts[n + 1] = stream[q].kind
          /\ \A k \in 1 .. n : ts[k] = st[k]
      BY <1>4, <2>7 DEF Advanced
    <3>2. ASSUME NEW k \in 1 .. Len(ts), NEW m \in 1 .. q, OpenAt(q, k - 1, m)
          PROVE  ts[k] = stream[m].kind
      <4>1. CASE k = n + 1
        <5>1. k - 1 = n /\ n \in Int
          BY <4>1
        <5>2. OpenAt(q, n, q) /\ OpenAt(q, n, m)
          BY <1>2, <2>4, <2>7, <3>2, <5>1, OpenAfter
        <5>3. q \in Nat /\ q \in 1 .. q
          BY <1>2
        <5>4. m = q
          BY <5>1, <5>2, <5>3, OpenUnique
        <5> QED
          BY <3>1, <4>1, <5>4
      <4>2. CASE k # n + 1
        <5>1. k \in 1 .. n
          BY <3>1, <4>2
        <5>2. m # q
          <6>1. stream[m].depth = k - 1
            BY <3>2 DEF OpenAt
          <6> QED
            BY <2>4, <5>1, <6>1
        <5>3. m \in 1 .. p
          BY <1>2, <5>2
        <5> QED
          BY <2>5, <3>1, <3>2, <5>1, <5>3
      <4> QED
        BY <4>1, <4>2
    <3> QED
      BY <1>4, <2>4, <2>7, <3>1, <3>2
  <2>8. CASE stream[q].kind \in Closes
    <3>0. stream[q].kind \notin Starts
      BY <2>8 DEF Starts, Closes
    <3>1. Len(ts) = n - 1 /\ \A k \in 1 .. n - 1 : ts[k] = st[k]
      BY <1>4, <2>8 DEF Advanced
    <3>2. ASSUME NEW k \in 1 .. Len(ts), NEW m \in 1 .. q, OpenAt(q, k - 1, m)
          PROVE  ts[k] = stream[m].kind
      <4>1. k \in 1 .. n /\ k \in 1 .. n - 1 /\ m \in 1 .. p
        BY <2>6, <3>0, <3>1, <3>2
      <4> QED
        BY <2>5, <3>1, <3>2, <4>1
    <3> QED
      BY <1>4, <2>4, <2>8, <3>1, <3>2
  <2>9. CASE stream[q].kind \notin Starts \cup Closes
    <3>1. ts = st
      BY <1>3, <1>4, <2>1, <2>9
         DEF Advanced, Kind, Plain, Namesake, Starts, Closes, Empties, IsHeader
    <3>2. ASSUME NEW k \in 1 .. Len(ts), NEW m \in 1 .. q, OpenAt(q, k - 1, m)
          PROVE  ts[k] = stream[m].kind
      <4>1. k \in 1 .. n /\ m \in 1 .. p
        BY <1>4, <2>6, <2>9, <3>1, <3>2
      <4> QED
        BY <2>5, <3>1, <3>2, <4>1
    <3> QED
      BY <1>4, <2>4, <2>9, <3>1, <3>2
  <2> QED
    BY <2>7, <2>8, <2>9
<1> QED
  BY <1>5, <1>6

\* One more token is parsed.
LEMMA ParseTokenStep ==
  ASSUME Inv, ParseToken
  PROVE  Inv'
<1>0. PICK N \in Nat, p \in Nat, q \in Nat :
         N = Len(stream) /\ p = parsed /\ q = p + 1
  <2>1. Len(stream) \in Nat /\ parsed \in 0 .. Len(stream)
    BY DEF Inv, ServerInv, Taken
  <2>2. parsed \in Nat /\ parsed + 1 \in Nat
    BY <2>1
  <2> QED
    BY <2>1, <2>2
<1>1. /\ pc = "parse" /\ ~parser.broken /\ MoreTokens
      /\ WellFormed(parser, stream[parsed + 1])
      /\ parser' = Parsed(parser, stream[q])
      /\ framer' = Callbacks(framer, stream[q])
      /\ parsed' = q
      /\ stream' = stream /\ fed' = fed /\ avail' = avail /\ block' = block
      /\ pc' = pc /\ sent' = sent /\ cut' = cut
  BY <1>0 DEF ParseToken
<1>2. /\ q \in 1 .. N /\ q \in parsed + 1 .. Len(stream) /\ stream[q].kind \in Kind
      /\ fed \in Nat /\ parser.base \in Nat
      /\ stream[q].from \in Nat /\ stream[q].to \in Nat
      /\ parser.base < stream[q].from /\ stream[q].from <= stream[q].to
      /\ stream[q].to <= fed
      /\ \A i \in q + 1 .. N :
            stream[i].from \in Nat /\ stream[q].to < stream[i].from
  <2>1. parsed + 2 = q + 1
    BY <1>0
  <2> QED
    BY <1>0, <1>1, <2>1, NextToken DEF Token
<1>3. Reported(q, framer')
  BY <1>0, <1>1, CallbackStep
<1>4. Advanced(parser, stream[q].kind, parser')
  <2>1. parser \in Parsers
    BY DEF Inv, Levelled, Parsers
  <2> QED
    BY <1>0, <1>1, <1>2, <2>1, ParsedCases
<1>5. /\ parser' \in Parsers /\ parser'.base = parser.base /\ ~parser'.broken
  BY <1>1, <1>4 DEF Advanced
<1>6. PICK fs \in Seq(Frame), gs \in Seq(Frame), L \in Nat, K \in Nat :
         /\ fs = framer.frames /\ gs = framer'.frames
         /\ L = Len(fs) /\ K = Len(gs)
  <2>1. framer.frames \in Seq(Frame) /\ framer'.frames \in Seq(Frame)
    BY <1>3 DEF Inv, Framed, Reported, NewFrames
  <2> QED
    BY <2>1
<1>7. /\ framer' \in Framers /\ framer'.buffer = framer.buffer
      /\ framer'.buffer_index = framer.buffer_index
      /\ framer'.level = LevelAfter(stream[q].kind, framer.level)
      /\ L <= K /\ \A n \in 1 .. L : gs[n] = fs[n]
      /\ \A n \in L + 1 .. K : Holds(q, gs[n])
      /\ \A m, n \in L + 1 .. K : m < n => FrameEnd(gs[m]) <= gs[n].index
      /\ q \in Ends /\ ~Misled(q) => \E n \in L + 1 .. K : Exact(q, gs[n])
  BY <1>3, <1>6 DEF Reported, NewFrames
<1>8. /\ ServerInv' /\ Total' = Total /\ Ends' = Ends
      /\ \A i : Renews(i)' <=> Renews(i)
      /\ \A i : (Misled(i)' <=> Misled(i)) /\ Stanza(i)' = Stanza(i)
      /\ \A s, k, m : OpenAt(s, k, m)' <=> OpenAt(s, k, m)
      /\ \A i, fr : Exact(i, fr)' <=> Exact(i, fr)
  BY <1>1, <1>5, Frozen DEF Inv, Exact
<1>9. DepthAt(parsed)' = DepthAt(q) /\ (Misled(parsed)' <=> Misled(q))
  BY <1>1 DEF DepthAt, After, Misled
<1>10. Taken'
  <2>1. parser'.base < fed'
    BY <1>1, <1>5 DEF Inv, Taken, Untouched
  <2>2. \A i \in 1 .. parsed' : stream'[i].to <= fed'
    <3> SUFFICES ASSUME NEW i \in 1 .. q PROVE stream[i].to <= fed
      BY <1>1
    <3>1. CASE i = q
      BY <1>2, <3>1
    <3>2. CASE i # q
      <4>1. i \in 1 .. parsed
        BY <1>0, <3>2
      <4> QED
        BY <4>1 DEF Inv, Taken
    <3> QED
      BY <3>1, <3>2
  <2>3. \A i \in parsed' + 1 .. Len(stream') : parser'.base < stream'[i].from
    <3> SUFFICES ASSUME NEW i \in q + 1 .. N PROVE parser.base < stream[i].from
      BY <1>0, <1>1, <1>5
    <3>1. i \in parsed + 1 .. Len(stream)
      BY <1>0
    <3> QED
      BY <3>1 DEF Inv, Taken
  <2>4. \A i \in 1 .. Len(stream') : Renews(i)' => i - 1 <= parsed'
    <3> SUFFICES ASSUME NEW i \in 1 .. N, Renews(i) PROVE i - 1 <= q
      BY <1>0, <1>1, <1>8
    <3>1. i - 1 <= p
      BY <1>0, <1>1 DEF Inv, Taken
    <3> QED
      BY <1>0, <3>1
  <2>5. \A i \in 1 .. Len(stream') :
          Renews(i)' => /\ stream'[i].from - 1 <= fed'
                        /\ stream'[i].from - 1 = fed' => pc' = "wait"
    BY <1>1, <1>8 DEF Inv, Taken
  <2>6. parsed' \in 0 .. Len(stream')
    BY <1>0, <1>1, <1>2
  <2>7. /\ fed' \in Nat /\ fed' <= Total' /\ avail' \in Nat
        /\ avail' <= Total' - fed' /\ pc' = "parse" /\ cut' \in BOOLEAN
        /\ parser'.base \in Nat
    BY <1>1, <1>2, <1>5, <1>8 DEF Inv, Taken
  <2> QED
    BY <1>5, <2>1, <2>2, <2>3, <2>4, <2>5, <2>6, <2>7 DEF Taken
<1>11. /\ framer'.level \in Int /\ DepthAt(q) - MaxDepth <= framer'.level
       /\ framer'.level <= DepthAt(q)
       /\ Misled(q) \/ framer'.level = DepthAt(q)
       /\ \A k \in 1 .. Len(parser'.stack) :
             Stream(parser'.stack[k]) =>
                 framer'.level <= Len(parser'.stack) - k + 1
  BY <1>0, <1>1, <1>4, <1>7, LevelStep
<1>12. Levelled'
  <2>1. ASSUME NEW i \in parsed' + 1 .. Len(stream')
        PROVE  stream'[i].from # parser'.base + 1
    <3>1. i \in q + 1 .. N
      BY <1>0, <1>1, <2>1
    <3>2. stream[i].from \in Nat /\ stream[q].to < stream[i].from
      BY <1>2, <3>1
    <3>3. stream[i].from # parser.base + 1
      BY <1>2, <3>2
    <3> QED
      BY <1>1, <1>5, <3>3
  <2> QED
    BY <1>5, <1>9, <1>11, <2>1 DEF Levelled, Parsers
<1>13. ASSUME NEW x, Past(x) PROVE Past(x)'
  <2>1. \A i \in q + 1 .. N : i \in parsed + 1 .. Len(stream)
    BY <1>0
  <2> QED
    BY <1>0, <1>1, <1>5, <1>13, <2>1 DEF Past
<1>14. ASSUME NEW x \in Nat, parser.base + x <= stream[q].to PROVE Past(x)'
  <2>1. parser.base + x <= fed
    BY <1>2, <1>14
  <2>2. \A i \in q + 1 .. N : parser.base + x < stream[i].from
    BY SMTT(30), <1>2, <1>14
  <2> QED
    BY <1>0, <1>1, <1>5, <2>1, <2>2 DEF Past
<1>15. ASSUME NEW n \in 1 .. K
       PROVE  /\ framer.buffer_index <= gs[n].index
              /\ Past(FrameEnd(gs[n]))'
  <2>1. CASE n \in 1 .. L
    <3>1. gs[n] = fs[n] /\ framer.buffer_index <= fs[n].index /\ Past(FrameEnd(fs[n]))
      BY <1>6, <1>7, <2>1 DEF Inv, Framed
    <3>2. Past(FrameEnd(fs[n]))'
      BY <1>13, <3>1
    <3> QED
      BY <3>1, <3>2
  <2>2. CASE n \in L + 1 .. K
    <3>1. /\ gs[n] \in Frame /\ Clear(gs[n].index)
          /\ parser.base + FrameEnd(gs[n]) <= stream[q].to
      BY <1>7, <2>2 DEF Holds
    <3>2. FrameEnd(gs[n]) \in Nat
      BY <3>1 DEF Frame, FrameEnd
    <3>3. Past(FrameEnd(gs[n]))'
      BY <1>14, <3>1, <3>2
    <3> QED
      BY <3>1, <3>3 DEF Clear
  <2> QED
    BY <2>1, <2>2
<1>16. ASSUME NEW m \in 1 .. K, NEW n \in 1 .. K, m < n
       PROVE  FrameEnd(gs[m]) <= gs[n].index
  <2>1. CASE m \in 1 .. L /\ n \in 1 .. L
    BY <1>6, <1>7, <1>16, <2>1 DEF Inv, Framed
  <2>2. CASE m \in 1 .. L /\ n \in L + 1 .. K
    <3>1. Clear(gs[n].index)
      BY <1>7, <2>2 DEF Holds
    <3> QED
      BY <1>6, <1>7, <2>2, <3>1 DEF Clear
  <2>3. CASE m \in L + 1 .. K /\ n \in L + 1 .. K
    BY <1>7, <1>16, <2>3
  <2> QED
    BY <1>16, <2>1, <2>2, <2>3
<1>17. Framed'
  <2>1. Kept' = Kept
    BY <1>1 DEF Kept
  <2>2. Past(framer.buffer_index)'
    <3>1. PICK b : b = framer.buffer_index /\ Past(b)
      BY DEF Inv, Framed
    <3>2. Past(b)'
      BY <1>13, <3>1
    <3> QED
      BY <1>7, <3>1, <3>2 DEF Past
  <2>3. \A n \in 1 .. Len(framer'.frames) :
          /\ framer'.buffer_index <= framer'.frames[n].index
          /\ Past(FrameEnd(framer.frames[n]))'
    <3> SUFFICES ASSUME NEW n \in 1 .. K
                 PROVE  /\ framer'.buffer_index <= gs[n].index
                        /\ Past(FrameEnd(framer.frames[n]))'
      BY <1>6
    <3>1. framer.buffer_index <= gs[n].index /\ Past(FrameEnd(gs[n]))'
      BY <1>15
    <3> QED
      BY <1>6, <1>7, <3>1 DEF Past, FrameEnd
  <2>4. \A m, n \in 1 .. Len(framer'.frames) :
          m < n => FrameEnd(framer'.frames[m]) <= framer'.frames[n].index
    BY <1>6, <1>16
  <2>5. /\ framer' \in [level : Int, index : Nat, buffer_index : Nat,
                        frames : Seq(Frame),
                        buffer : Seq(1 .. fed')]
        /\ block' \in Seq(1 .. fed')
        /\ pc' = "parse" => block' = Run(fed' - Len(block'), fed')
    BY <1>1, <1>7 DEF Framers, Inv, Framed
  <2>6. /\ parser'.base + framer'.buffer_index <= Kept'
        /\ framer'.buffer = Run(parser'.base + framer'.buffer_index, Kept')
    BY <1>1, <1>5, <1>7, <2>1 DEF Inv, Framed
  <2> QED
    BY <2>2, <2>3, <2>4, <2>5, <2>6 DEF Framed
<1>18. Honest'
  <2> SUFFICES ASSUME NEW n \in 1 .. K
               PROVE  \E i \in 1 .. q :
                        \/ Exact(i, gs[n])' /\ (i \in Ends' \/ Misled(i)')
                        \/ Misled(i)' /\ gs[n].size = 0
    BY <1>1, <1>6 DEF Honest, Exact
  <2>1. CASE n \in 1 .. L
    <3>1. PICK i \in 1 .. p : \/ Exact(i, fs[n]) /\ (i \in Ends \/ Misled(i))
                              \/ Misled(i) /\ fs[n].size = 0
      BY <1>0, <1>6, <2>1 DEF Inv, Honest
    <3>2. i \in 1 .. q /\ gs[n] = fs[n]
      BY <1>0, <1>7, <2>1
    <3> QED
      BY <1>8, <3>1, <3>2
  <2>2. CASE n \in L + 1 .. K
    <3>1. \/ Exact(q, gs[n]) /\ (q \in Ends \/ Misled(q))
          \/ Misled(q) /\ gs[n].size = 0
      BY <1>7, <2>2 DEF Holds
    <3>2. q \in 1 .. q
      BY <1>2
    <3> QED
      BY <1>8, <3>1, <3>2
  <2> QED
    BY <2>1, <2>2
<1>19. Delivered'
  BY <1>1, <1>5, <1>7 DEF Inv, Delivered
<1>20. ForwardedExactly'
  BY <1>1, SentKept DEF Inv
<1>21. Forwarding'
  <2>1. pc' # "wait"
    BY <1>1
  <2> SUFFICES ASSUME ~cut, NEW i \in 1 .. q, i \in Ends, ~Misled(i)
               PROVE  \/ \E n \in 1 .. Len(sent) : sent[n] = Stanza(i)
                      \/ \E n \in 1 .. K : Exact(i, gs[n])'
    BY <1>1, <1>6, <1>8, <2>1 DEF Forwarding, Exact
  <2>2. CASE i = q
    <3>1. PICK n \in L + 1 .. K : Exact(q, gs[n])
      BY <1>7, <2>2
    <3>2. n \in 1 .. K /\ Exact(q, gs[n])'
      BY <1>8, <3>1
    <3> QED
      BY <2>2, <3>2
  <2>3. CASE i # q
    <3>1. i \in 1 .. p
      BY <1>0, <2>3
    <3>2. \/ \E n \in 1 .. Len(sent) : sent[n] = Stanza(i)
          \/ \E n \in 1 .. L : Exact(i, fs[n])
      BY <1>0, <1>6, <3>1 DEF Inv, Forwarding
    <3>3. CASE \E n \in 1 .. L : Exact(i, fs[n])
      <4>1. PICK n \in 1 .. L : Exact(i, fs[n])
        BY <3>3
      <4>2. n \in 1 .. K /\ gs[n] = fs[n]
        BY <1>7
      <4>3. Exact(i, gs[n])'
        BY <1>8, <4>1, <4>2
      <4> QED
        BY <4>2, <4>3
    <3> QED
      BY <3>2, <3>3
  <2> QED
    BY <2>2, <2>3
<1>22. Sound'
  <2> SUFFICES ASSUME ~cut
               PROVE  /\ \A i \in 1 .. Len(stream') :
                           Pending(i)' =>
                              /\ parser'.stack = <<>> /\ ~parser'.root
                              /\ framer'.level = 0
                              /\ stream'[i].kind = "decl" /\ parsed' < i =>
                                    stream'[i].from = parser'.base + 1
                      /\ (\A i \in 1 .. Len(stream') : ~Pending(i)') => InStep'
    BY <1>1, <1>5 DEF Sound
  <2>1. ASSUME NEW i \in 1 .. N, Pending(i)'
        PROVE  /\ stream[q].kind = "decl" /\ IsHeader(i)
               /\ stream[i].kind = "decl" => ~(q < i)
    <3>1. IsHeader(i) /\ (q < i \/ (i = q /\ stream[i].kind = "decl"))
      BY <1>1, <2>1 DEF Pending, IsHeader
    <3>2. CASE q < i
      BY <1>0, <1>1, <1>2, <3>1, <3>2, PendingAfter
    <3>3. CASE i = q /\ stream[i].kind = "decl"
      <4>1. ~(q < q)
        OBVIOUS
      <4> QED
        BY <3>1, <3>3, <4>1
    <3> QED
      BY <3>1, <3>2, <3>3
  <2>2. ASSUME stream[q].kind = "decl"
        PROVE  /\ parser'.stack = <<>> /\ ~parser'.root /\ framer'.level = 0
    <3>1. IsHeader(q)
      BY <2>2 DEF IsHeader
    <3>2. Pending(q)
      BY <1>0, <1>1, <3>1, TokenSound
    <3>3. parser.stack = <<>> /\ ~parser.root /\ framer.level = 0
      BY <1>0, <1>2, <3>2 DEF Inv, Sound
    <3>4. parser' = parser
      BY <1>4, <2>2 DEF Advanced
    <3>5. framer'.level = framer.level
      BY <1>7, <2>2, LevelCases
    <3> QED
      BY <3>3, <3>4, <3>5
  <2>3. ASSUME NEW i \in 1 .. N, Pending(i)'
        PROVE  /\ parser'.stack = <<>> /\ ~parser'.root /\ framer'.level = 0
               /\ stream'[i].kind = "decl" /\ parsed' < i =>
                     stream'[i].from = parser'.base + 1
    BY <1>1, <2>1, <2>2, <2>3
  <2>4. ASSUME \A i \in 1 .. N : ~Pending(i)' PROVE InStep'
    <3>1. stream[q].kind # "decl"
      BY <1>1, <1>2, <2>4 DEF Pending, IsHeader
    <3>2. /\ Len(parser'.stack) = DepthAt(q)
          /\ \A k \in 1 .. Len(parser'.stack), m \in 1 .. q :
                OpenAt(q, k - 1, m) => parser'.stack[k] = stream[m].kind
      BY SMTT(30), <1>0, <1>1, <1>4, <3>1, StackStep
    <3>3. \A k, m : OpenAt(parsed, k - 1, m)' <=> OpenAt(q, k - 1, m)
      BY <1>1 DEF OpenAt
    <3> QED
      BY <1>1, <1>9, <3>2, <3>3 DEF InStep
  <2> QED
    BY <1>0, <1>1, <2>3, <2>4
<1>23. Pointed'
  <2> SUFFICES ASSUME framer'.level >= 2 PROVE Pointed'
    BY DEF Pointed
  <2>1. /\ gs = fs
        /\ framer'.index = IF stream[q].kind = "open" /\ framer.level = 1
                           THEN stream[q].from - parser.base - 1 ELSE framer.index
    BY <1>3, <1>6 DEF Reported
  <2>2. PICK v \in Int, w \in Int, d \in Int, e \in Int :
           /\ v = framer.level /\ w = framer'.level
           /\ d = DepthAt(parsed) /\ e = DepthAt(q)
    BY SMTT(30), <1>0, <1>1, <1>11, TokenLevel, BoundsAssumption
  <2>3. CASE stream[q].kind = "open" /\ v = 1
    <3>1. PICK x \in Nat : /\ x = stream[q].from - parser.base - 1
                           /\ framer'.index = x /\ parser.base + x + 1 = stream[q].from
      BY <1>2, <2>1, <2>2, <2>3
    <3>2. Clear(x)
      <4>1. parser.base + x + 1 >= stream[parsed + 1].from
        BY <1>0, <1>2, <3>1
      <4> QED
        BY <1>1, <4>1, NextToken
    <3>3. Past(x)'
      <4>1. parser.base + x <= stream[q].to
        BY SMTT(30), <1>2, <3>1
      <4> QED
        BY <1>14, <4>1
    <3>4. ~IsHeader(q) /\ stream[q].kind \in Starts
      BY <2>3 DEF IsHeader, Starts
    <3>5. stream[q].depth = d /\ e = d + 1
      BY <1>0, <1>1, <2>2, <3>4, TokenLevel
    <3>6. w = v + 1
      BY <1>7, <2>2, <2>3, LevelCases
    <3>7. OpenAt(q, d, q)
      BY <1>0, <3>4, <3>5, OpenAfter
    <3>8. d = e - w + 1 /\ q \in 1 .. q
      BY <1>2, <2>3, <3>5, <3>6
    <3>9. Clear(framer.index)' /\ Past(framer.index)'
      BY <1>6, <1>7, <2>1, <3>1, <3>2, <3>3 DEF Clear, Past
    <3>10. OpenAt(parsed, d, q)'
      BY <1>1, <3>7 DEF OpenAt
    <3> QED
      BY <1>1, <1>5, <1>9, <2>2, <2>3, <3>1, <3>8, <3>9, <3>10 DEF Pointed
  <2>4. CASE ~(stream[q].kind = "open" /\ v = 1)
    <3>1. framer'.index = framer.index
      BY <2>1, <2>2, <2>4
    <3>2. ~IsHeader(q) /\ v >= 2 /\ w - v = e - d /\ (stream[q].kind \in Starts => stream[q].depth = d)
      <4>1. stream[q].kind \notin {"stream", "inner", "innerempty", "decl"}
        <5>1. stream[q].kind \in {"stream", "inner"} => w = 1
          BY <1>7, <2>2, LevelCases
        <5>2. stream[q].kind = "innerempty" => w = 0
          BY <1>7, <2>2, LevelCases
        <5>3. stream[q].kind = "decl" => w = 0
          BY <1>0, <1>1, <1>7, <2>2, LevelCases, TokenLevel
        <5>4. w >= 2
          BY <2>2
        <5> QED
          BY <5>1, <5>2, <5>3, <5>4
      <4>2. ~IsHeader(q)
        BY <4>1 DEF IsHeader
      <4>3. /\ stream[q].depth = d
            /\ stream[q].kind \in Starts => e = d + 1
            /\ stream[q].kind \in Closes => e = d - 1
            /\ stream[q].kind \notin Starts \cup Closes => e = d
        BY <1>0, <1>1, <2>2, <4>2, TokenLevel
      <4>4. CASE stream[q].kind = "open"
        <5>1. w = v + 1 /\ stream[q].kind \in Starts
          BY <1>7, <2>2, <4>4, LevelCases DEF Starts
        <5> QED
          BY SMTT(30), <2>2, <2>4, <4>2, <4>3, <4>4, <5>1
      <4>5. CASE stream[q].kind \in Closes
        <5>1. w = v - 1 /\ stream[q].kind \notin Starts
          BY <1>7, <2>2, <4>5, LevelCases DEF Closes, Starts
        <5> QED
          BY SMTT(30), <2>2, <4>2, <4>3, <4>5, <5>1
      <4>6. CASE stream[q].kind \in {"empty", "space"}
        <5>1. w = v /\ stream[q].kind \notin Starts \cup Closes
          BY <1>7, <2>2, <4>6, LevelCases DEF Closes, Starts
        <5> QED
          BY <2>2, <4>2, <4>3, <4>6, <5>1
      <4> QED
        BY <1>2, <4>1, <4>4, <4>5, <4>6 DEF Kind, Plain, Namesake, Closes
    <3>3. /\ Clear(framer.index) /\ Past(framer.index)
          /\ \E j \in 1 .. parsed, k \in Int :
                /\ k = DepthAt(parsed) - framer.level + 1
                /\ OpenAt(parsed, k, j)
                /\ stream[j].kind = "open"
                /\ stream[j].from = parser.base + framer.index + 1
      BY <2>2, <3>2 DEF Inv, Pointed
    <3>4. PICK j \in 1 .. p, k \in Int :
                /\ k = d - v + 1
                /\ OpenAt(p, k, j)
                /\ stream[j].kind = "open"
                /\ stream[j].from = parser.base + framer.index + 1
      BY <1>0, <2>2, <3>3
    <3>5. k = e - w + 1 /\ j \in 1 .. q
      <4>1. w - v = e - d /\ k = d - v + 1
        BY <3>2, <3>4
      <4>2. k = e - w + 1
        BY <4>1
      <4>3. j \in 1 .. q
        BY <1>0
      <4> QED
        BY <4>2, <4>3
    <3>6. OpenAt(q, k, j)
      <4>1. stream[q].kind \in Starts => stream[q].depth > k
        BY <3>2, <3>4
      <4> QED
        BY <1>0, <3>4, <4>1, OpenAfter
    <3>7. Clear(framer.index)' /\ Past(framer.index)'
      <4>1. PICK x : x = framer.index /\ Past(x)
        BY <3>3
      <4>2. Past(x)'
        BY <1>13, <4>1
      <4> QED
        BY <1>6, <1>7, <2>1, <3>1, <3>3, <4>1, <4>2 DEF Clear, Past
    <3>8. OpenAt(parsed, k, j)'
      BY <1>1, <3>6 DEF OpenAt
    <3> QED
      BY <1>1, <1>5, <1>9, <2>2, <3>1, <3>4, <3>5, <3>7, <3>8 DEF Pointed
  <2> QED
    BY <2>3, <2>4
<1> QED
  BY <1>8, <1>10, <1>12, <1>17, <1>18, <1>19, <1>20, <1>21, <1>22, <1>23 DEF Inv

-----------------------------------------------------------------------------
(***************************************************************************)
(* The theorems                                                            *)
(***************************************************************************)

\* Before anything has been sent.
LEMMA InitInv ==
  ASSUME Init
  PROVE  Inv
<1>1. /\ stream = <<>> /\ fed = 0 /\ parsed = 0 /\ parser = NewParser(0)
      /\ framer = framer_create /\ avail = 0 /\ block = <<>> /\ pc = "wait"
      /\ sent = <<>> /\ cut = FALSE
  BY DEF Init
<1>2. Len(stream) = 0 /\ stream \in Seq(Token) /\ Total = 0 /\ Len(sent) = 0
  BY <1>1 DEF Total
<1>3. /\ \A i \in 1 .. Len(stream) : FALSE
      /\ \A i \in parsed + 1 .. Len(stream) : FALSE
      /\ \A i \in 1 .. parsed : FALSE
      /\ \A s \in 0 .. Len(stream) : s = 0
  BY <1>1, <1>2
<1>4. DepthAt(0) = 0 /\ DepthAt(parsed) = 0
  BY <1>1 DEF DepthAt
<1>5. ServerInv
  <2>1. Placed /\ Nested /\ Matched
    BY <1>3 DEF Placed, Nested, Matched
  <2>2. Opened
    BY <1>3, <1>4 DEF Opened
  <2> QED
    BY <1>2, <2>1, <2>2 DEF ServerInv
<1>6. /\ parser.base = 0 /\ parser.stack = <<>> /\ ~parser.root /\ ~parser.broken
      /\ parser \in Parsers
  BY <1>1 DEF NewParser, Parsers
<1>7. /\ framer.level = 0 /\ framer.index = 0 /\ framer.frames = <<>>
      /\ framer.buffer = <<>> /\ framer.buffer_index = 0
  BY <1>1 DEF framer_create
<1>8. framer \in [level : Int, index : Nat, buffer_index : Nat,
                  frames : Seq(Frame), buffer : Seq(1 .. fed)]
  BY <1>1 DEF framer_create
<1>9. Taken
  <2>1. Untouched
    BY <1>1 DEF Untouched
  <2>2. /\ fed \in Nat /\ fed <= Total /\ avail \in Nat
        /\ avail <= Total - fed /\ parsed \in 0 .. Len(stream)
    BY <1>1, <1>2
  <2>3. /\ pc \in {"wait", "parse", "read"} /\ pc # "read"
        /\ parser.base \in Nat
    BY <1>1, <1>6
  <2>4. cut \in BOOLEAN
    BY <1>1, Zenon
  <2> QED
    BY <1>3, <2>1, <2>2, <2>3, <2>4 DEF Taken
<1>10. Levelled
  <2>1. \A k \in 1 .. Len(parser.stack) : FALSE
    BY <1>6
  <2>2. 0 - MaxDepth <= 0 /\ 0 <= 0 /\ 0 \in Int
    BY BoundsAssumption
  <2> QED
    BY <1>3, <1>4, <1>6, <1>7, <2>1, <2>2 DEF Levelled, Parsers
<1>11. Framed
  <2>1. Past(framer.buffer_index)
    BY <1>1, <1>3, <1>6, <1>7 DEF Past
  <2>2. \A n \in 1 .. Len(framer.frames) : FALSE
    BY <1>7
  <2>3. Kept = 0
    BY <1>1 DEF Kept
  <2>4. parser.base + framer.buffer_index = 0
    BY <1>6, <1>7
  <2>5. Run(0, 0) = <<>>
    <3>1. Run(0, 0) \in Seq(1 .. 0) /\ Len(Run(0, 0)) = 0
      BY RunFacts
    <3> QED
      BY <3>1
  <2>6. block \in Seq(1 .. fed) /\ pc # "parse"
    BY <1>1
  <2> QED
    BY <1>7, <1>8, <2>1, <2>2, <2>3, <2>4, <2>5, <2>6 DEF Framed
<1>12. Pointed
  BY <1>7 DEF Pointed
<1>13. Honest
  <2>1. \A n \in 1 .. Len(framer.frames) : FALSE
    BY <1>7
  <2> QED
    BY <2>1 DEF Honest
<1>14. \A n \in 1 .. Len(sent) : FALSE
  BY <1>2
<1>15. Delivered /\ ForwardedExactly
  <2>1. sent \in Seq(Seq(1 .. fed))
    BY <1>1
  <2> QED
    BY <1>14, <2>1 DEF Delivered, ForwardedExactly
<1>16. Sound
  <2>1. InStep
    <3>1. Len(parser.stack) = 0 /\ \A k \in 1 .. Len(parser.stack) : FALSE
      BY <1>6
    <3> QED
      BY <1>4, <3>1 DEF InStep
  <2> QED
    BY <1>3, <1>6, <2>1 DEF Sound
<1>17. Forwarding
  BY <1>3, <1>7 DEF Forwarding
<1> QED
  BY <1>5, <1>9, <1>10, <1>11, <1>12, <1>13, <1>15, <1>16, <1>17 DEF Inv

\* Nothing happens.
LEMMA StutterStep ==
  ASSUME Inv, UNCHANGED vars
  PROVE  Inv'
<1>1. /\ stream' = stream /\ fed' = fed /\ parsed' = parsed /\ parser' = parser
      /\ framer' = framer /\ avail' = avail /\ block' = block /\ pc' = pc
      /\ sent' = sent /\ cut' = cut
  BY DEF vars
<1>2. /\ ServerInv' /\ Total' = Total /\ Ends' = Ends
      /\ DepthAt(parsed)' = DepthAt(parsed)
      /\ (Misled(parsed)' <=> Misled(parsed))
  BY <1>1, Frozen DEF Inv, DepthAt, Misled, After
<1>3. /\ \A i : (Misled(i)' <=> Misled(i)) /\ Stanza(i)' = Stanza(i)
      /\ \A i : Renews(i)' <=> Renews(i)
      /\ \A i, g : Exact(i, g)' <=> Exact(i, g)
  BY <1>1, Frozen DEF Exact
<1>4. Taken'
  BY <1>1, <1>2, <1>3 DEF Inv, Taken, Untouched
<1>5. Levelled'
  BY <1>1, <1>2 DEF Inv, Levelled, IsHeader
<1>6. Framed'
  <2>1. Kept' = Kept
    BY <1>1 DEF Kept
  <2>2. Past(framer.buffer_index)'
    BY <1>1 DEF Inv, Framed, Past
  <2>3. \A n \in 1 .. Len(framer.frames) : Past(FrameEnd(framer.frames[n]))'
    BY <1>1 DEF Inv, Framed, Past, FrameEnd
  <2> QED
    BY <1>1, <2>1, <2>2, <2>3 DEF Inv, Framed
<1>7. Pointed'
  BY <1>1, <1>2 DEF Inv, Pointed, Clear, Past, OpenAt
<1>8. Honest'
  BY <1>1, <1>2, <1>3 DEF Inv, Honest
<1>9. Delivered'
  BY <1>1 DEF Inv, Delivered
<1>10. Sound'
  BY <1>1, <1>2 DEF Inv, Sound, Pending, IsHeader, InStep, OpenAt
<1>11. Forwarding'
  BY <1>1, <1>2, <1>3 DEF Inv, Forwarding
<1>12. ForwardedExactly'
  BY <1>1, SentKept DEF Inv
<1> QED
  BY <1>2, <1>4, <1>5, <1>6, <1>7, <1>8, <1>9, <1>10, <1>11, <1>12 DEF Inv

\* Every reachable state satisfies Inv.
LEMMA Invariance == Spec => []Inv
<1>1. Init => Inv
  BY InitInv
<1>2. Inv /\ [Next]_vars => Inv'
  <2> SUFFICES ASSUME Inv, [Next]_vars PROVE Inv'
    OBVIOUS
  <2>1. CASE ServerSend
    BY <2>1, SendStep
  <2>2. CASE ReadBegins
    BY <2>2, ReadBeginsStep
  <2>3. CASE NextBlock
    BY <2>3, NextBlockStep
  <2>4. CASE ParseToken
    BY <2>4, ParseTokenStep
  <2>5. CASE ParseError
    BY <2>5, ParseErrorStep
  <2>6. CASE AppendBlock
    BY <2>6, AppendStep
  <2>7. CASE WriteFrame
    BY <2>7, WriteFrameStep
  <2>8. CASE ReadEnds
    BY <2>8, ReadEndsStep
  <2>9. CASE UNCHANGED vars
    BY <2>9, StutterStep
  <2> QED
    BY <2>1, <2>2, <2>3, <2>4, <2>5, <2>6, <2>7, <2>8, <2>9 DEF Next
<1> QED
  BY <1>1, <1>2, PTL DEF Spec

\* The types, for every number of tokens, depth, block size and capacity; and
\* until a header has been missed the level is the number of elements that are
\* open for the parser, unless a namesake has reset it (framer_start,
\* framer_end).
THEOREM TypeCorrect == Spec => []TypeOK
<1>1. Inv => TypeOK
  <2> SUFFICES ASSUME Inv PROVE TypeOK
    OBVIOUS
  <2>1. /\ fed \in 0 .. Total /\ parser.base \in 0 .. fed
        /\ avail \in 0 .. Total - fed
    BY TotalType DEF Inv, Taken, Untouched, NewParser
  <2>2. PICK l \in Int, d \in Int, M \in Nat :
           /\ l = framer.level /\ d = DepthAt(parsed) /\ M = MaxDepth
           /\ d \in 0 .. M /\ d - M <= l /\ l <= d
    <3>1. parsed \in 0 .. Len(stream)
      BY DEF Inv, Taken
    <3>2. DepthAt(parsed) \in 0 .. MaxDepth
      BY <3>1, DepthType DEF Inv, ServerInv
    <3> QED
      BY <3>2, BoundsAssumption DEF Inv, Levelled
  <2>3. framer.level \in -MaxDepth .. MaxDepth
    BY <2>2
  <2>4. ~cut /\ ~Misled(parsed) => framer.level = Len(parser.stack)
    <3> SUFFICES ASSUME ~cut, ~Misled(parsed)
                 PROVE  framer.level = Len(parser.stack)
      OBVIOUS
    <3>1. CASE \E i \in 1 .. Len(stream) : Pending(i)
      <4>1. parser.stack = <<>> /\ framer.level = 0
        BY <3>1 DEF Inv, Sound
      <4> QED
        BY <4>1
    <3>2. CASE \A i \in 1 .. Len(stream) : ~Pending(i)
      <4>1. Len(parser.stack) = DepthAt(parsed)
        BY <3>2 DEF Inv, Sound, InStep
      <4>2. CASE framer.level = DepthAt(parsed)
        BY <4>1, <4>2
      <4>3. CASE /\ parsed < Len(stream) /\ IsHeader(parsed + 1)
                 /\ stream[parsed + 1].from = parser.base + 1
        <5>1. parsed + 1 \in 1 .. Len(stream) /\ parsed < parsed + 1
          BY <4>3 DEF Inv, Taken, ServerInv
        <5>2. ~(stream[parsed + 1].from <= fed)
          BY <3>2, <4>3, <5>1 DEF Pending
        <5>3. ~(parser.base < fed)
          BY <2>1, <4>3, <5>2 DEF Inv, Taken
        <5>4. Untouched
          BY <5>3 DEF Inv, Taken
        <5>5. framer.level = 0 /\ Len(parser.stack) = 0
          BY <5>4 DEF Untouched, framer_create, NewParser
        <5> QED
          BY <5>5
      <4> QED
        BY <4>2, <4>3 DEF Inv, Levelled
    <3> QED
      BY <3>1, <3>2
  <2>5. /\ stream \in Seq(Token) /\ parsed \in 0 .. Len(stream)
        /\ pc \in {"wait", "parse", "read"} /\ cut \in BOOLEAN
        /\ sent \in Seq(Seq(1 .. fed))
    BY DEF Inv, ServerInv, Taken, Delivered
  <2>6. parser.broken \in BOOLEAN
    BY DEF Inv, Levelled
  <2>7. /\ framer.index \in Nat /\ framer.buffer_index \in Nat
        /\ framer.frames \in Seq([index : Nat, size : Nat])
        /\ framer.buffer \in Seq(1 .. fed)
    BY DEF Inv, Framed, Frame
  <2> QED
    BY <2>1, <2>3, <2>4, <2>5, <2>6, <2>7 DEF TypeOK
<1> QED
  BY <1>1, Invariance, PTL

\* Every message to the browser is one stream header, one whole stanza or one
\* stream end, byte for byte and in order (framer_get_frame2, cm_readcb):
\* wherever reads and blocks cut the stream, for every block size and capacity.
THEOREM ForwardsExactly == Spec => []ForwardedExactly
<1>1. Inv => ForwardedExactly
  BY DEF Inv
<1> QED
  BY <1>1, Invariance, PTL

\* The parser's offsets and the buffer's stay in step, and no frame reaches
\* beyond the buffer (framer_add, framer_get_frame2, buffer_remove_data).
THEOREM StaysAligned == Spec => []BufferAligned
<1>1. Inv => BufferAligned
  <2> SUFFICES ASSUME Inv, pc # "parse", ~parser.broken
               PROVE  /\ framer.buffer =
                           [i \in 1 .. fed - parser.base - framer.buffer_index |->
                               parser.base + framer.buffer_index + i]
                      /\ \A n \in 1 .. Len(framer.frames) :
                           /\ framer.frames[n].index >= framer.buffer_index
                           /\ parser.base + framer.frames[n].index
                                + framer.frames[n].size <= fed
    BY DEF BufferAligned
  <2>1. PICK b \in Nat, x \in Nat, f \in Nat :
           b = parser.base /\ x = framer.buffer_index /\ f = fed
    BY DEF Inv, Framed, Taken
  <2>2. framer.buffer = Run(b + x, f)
    <3>1. Kept = fed
      BY DEF Kept
    <3> QED
      BY <2>1, <3>1 DEF Inv, Framed
  <2>3. f - (b + x) = f - b - x
    OBVIOUS
  <2>4. framer.buffer = [i \in 1 .. f - b - x |-> b + x + i]
    BY <2>2, <2>3 DEF Run
  <2>5. ASSUME NEW n \in 1 .. Len(framer.frames)
        PROVE  /\ framer.frames[n].index >= framer.buffer_index
               /\ parser.base + framer.frames[n].index
                    + framer.frames[n].size <= fed
    <3>1. PICK fs \in Seq(Frame) : fs = framer.frames
      BY DEF Inv, Framed
    <3>2. fs[n] \in Frame
      BY <3>1
    <3>3. PICK j \in Nat, s \in Nat : j = fs[n].index /\ s = fs[n].size
      BY <3>2 DEF Frame
    <3>4. x <= j /\ b + (j + s) <= f
      BY <2>1, <3>1, <3>3 DEF Inv, Framed, Past, FrameEnd
    <3>5. j >= x /\ b + j + s <= f
      BY <3>4
    <3> QED
      BY <2>1, <3>1, <3>3, <3>5
  <2> QED
    BY <2>1, <2>4, <2>5
<1> QED
  BY <1>1, Invariance, PTL

\* When cm_readcb returns, every message that ends in what it has read has been
\* sent, as long as no read has ended inside the first bytes of a restarted
\* stream and no namesake has come before it (cm_readcb).
THEOREM ForwardsAll == Spec => []AllForwarded
<1>1. Inv => AllForwarded
  <2> SUFFICES ASSUME Inv, pc = "wait", ~cut, NEW i \in Ends,
                      stream[i].to <= fed, ~Misled(i)
               PROVE  \E n \in 1 .. Len(sent) : sent[n] = Stanza(i)
    BY DEF AllForwarded
  <2>1. ~parser.broken
    BY DEF Inv, Sound
  <2>2. framer.frames = <<>>
    BY <2>1 DEF Inv, Forwarding
  <2>3. i \in 1 .. Len(stream) /\ stream[i].to \in Nat /\ fed \in Nat
    BY BeginType DEF Ends, Inv, Taken
  <2>4. i \in 1 .. parsed
    <3> SUFFICES ASSUME i \notin 1 .. parsed PROVE FALSE
      OBVIOUS
    <3>1. i \in parsed + 1 .. Len(stream)
      BY <2>3 DEF Inv, Taken, ServerInv
    <3>2. fed < stream[i].to
      BY <2>1, <3>1 DEF Inv, Taken
    <3> QED
      BY <2>3, <3>2
  <2>5. \/ \E n \in 1 .. Len(sent) : sent[n] = Stanza(i)
        \/ \E n \in 1 .. Len(framer.frames) : Exact(i, framer.frames[n])
    BY <2>4 DEF Inv, Forwarding
  <2>6. \A n \in 1 .. Len(framer.frames) : FALSE
    BY <2>2
  <2> QED
    BY <2>5, <2>6
<1> QED
  BY <1>1, Invariance, PTL

=============================================================================
