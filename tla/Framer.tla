-------------------------------- MODULE Framer --------------------------------
(***************************************************************************)
(* From the XMPP stream to WebSocket messages: framer_t (framer.c) cuts    *)
(* the bytes of the server into stanzas while cm_readcb (cmanager.c) feeds *)
(* it, in blocks, and sends each stanza to the browser.                    *)
(*                                                                         *)
(* The stream is a sequence of XML tokens, which the server adds one by    *)
(* one; a byte is its position in the whole stream, so that what is sent   *)
(* to the browser can be compared with what the server wrote.  Reads and   *)
(* blocks cut it anywhere.  The XML parser (expat) is external: it calls   *)
(* framer_start and framer_end for each token that is complete, in order,  *)
(* until one is not well-formed; from then on it answers every call with   *)
(* an error.                                                               *)
(***************************************************************************)
EXTENDS Integers, Sequences, FiniteSets

CONSTANTS
    MaxTokens,      \* bound: tokens the server sends
    MaxDepth,       \* bound: nesting of elements, the stream included
    MaxNamesakes,   \* bound: elements called stream in another namespace
    Block,          \* bytes cm_readcb takes at once: 1024 in the code
    Capacity        \* bytes of data_buffer: 65536 in the code

ASSUME BoundsAssumption ==
    /\ MaxTokens \in Nat /\ MaxDepth \in Nat \ {0} /\ MaxNamesakes \in Nat
    /\ Block \in Nat \ {0} /\ Capacity \in Nat \ {0}

VARIABLES
    stream,     \* the tokens the server has sent
    fed,        \* how many bytes of it cm_readcb has taken
    parsed,     \* how many tokens the parser has reported
    parser,     \* the XML parser
    framer,     \* the framer_t
    avail,      \* bytes of this read that cm_readcb has not taken yet
    block,      \* the bytes in its buf
    pc,         \* where cm_readcb is
    sent,       \* the frames given to wsconn_write, each as its bytes
    cut         \* a read has ended inside the prefix of a restarted stream

vars == <<stream, fed, parsed, parser, framer, avail, block, pc, sent, cut>>

-----------------------------------------------------------------------------
(***************************************************************************)
(* The stream                                                              *)
(***************************************************************************)

\* <?xml ?>, <stream:stream>, the start tag of another element, an empty one,
\* an end tag, </stream:stream>, and white space.
Plain == {"decl", "stream", "open", "empty", "close", "end", "space"}

\* The start tag, empty element and end tag of an element that is called stream
\* in a namespace of its own.
Namesake == {"inner", "innerempty", "innerend"}

Kind == Plain \cup Namesake

Starts == {"stream", "open", "inner"}
Closes == {"close", "end", "innerend"}
Empties == {"empty", "innerempty"}

\* The start tag that an end tag needs.
Opener(kind) ==
    CASE kind = "close" -> "open" [] kind = "end" -> "stream"
      [] kind = "innerend" -> "inner"

\* Sizes that let a read end inside every token, and inside a header's prefix.
Size(kind) == IF kind \in {"decl", "stream"} THEN 3 ELSE 2

\* The length of "<?xml" or "<stream:stream".
Prefix == 2

\* depth is the number of elements that are open before the token; from and to
\* are its first and last byte.
Token == [kind : Kind, depth : Nat, from : Nat, to : Nat]

Total == IF stream = <<>> THEN 0 ELSE stream[Len(stream)].to

Last == IF stream = <<>> THEN "none" ELSE stream[Len(stream)].kind

\* How many elements are open for the server.
Depth ==
    IF stream = <<>> THEN 0
    ELSE LET t == stream[Len(stream)]
         IN  CASE t.kind \in Starts -> t.depth + 1
               [] t.kind \in Closes -> t.depth - 1
               [] OTHER             -> t.depth

\* The element that is open innermost for the server.
Innermost ==
    LET open == {i \in 1 .. Len(stream) :
                    stream[i].kind \in Starts /\ stream[i].depth = Depth - 1}
    IN  stream[CHOOSE i \in open : \A j \in open : j <= i].kind

Namesakes ==
    Cardinality({i \in 1 .. Len(stream) :
                    stream[i].kind \in {"inner", "innerempty"}})

\* A server starts its stream over (after authentication) when the client asks
\* for it, so after all it sent before has been read.  The new stream replaces
\* the old one: its header is at depth 0.
Restart == Depth = 1 /\ fed = Total /\ pc = "wait"

CanStart == stream = <<>> \/ Restart

Send(kind, depth) ==
    /\ Len(stream) < MaxTokens
    /\ Last # "end"
    /\ stream' = Append(stream, [kind |-> kind, depth |-> depth,
                                 from |-> Total + 1, to |-> Total + Size(kind)])
    /\ UNCHANGED <<fed, parsed, parser, framer, avail, block, pc, sent, cut>>

\* What a server sends next.
ServerSend ==
    \/ CanStart /\ Last # "decl" /\ Send("decl", 0)
    \/ (CanStart \/ Last = "decl") /\ Send("stream", 0)
    \/ /\ Last # "decl"
       /\ Depth \in 1 .. MaxDepth
       /\ \/ Depth < MaxDepth /\ Send("open", Depth)
          \/ Send("empty", Depth)
          \/ /\ Namesakes < MaxNamesakes
             /\ \/ Depth < MaxDepth /\ Send("inner", Depth)
                \/ Send("innerempty", Depth)
          \/ Last # "space" /\ Send("space", Depth)
          \/ \E kind \in Closes : Opener(kind) = Innermost /\ Send(kind, Depth)

-----------------------------------------------------------------------------
(***************************************************************************)
(* The parser (external) and the framer                                    *)
(***************************************************************************)

\* base: where in the stream the parser was created.
NewParser(at) == [base |-> at, stack |-> <<>>, root |-> FALSE, broken |-> FALSE]

framer_create ==
    [level |-> 0, index |-> 0, frames |-> <<>>, buffer |-> <<>>,
     buffer_index |-> 0]

\* Token t is well-formed where it stands.
WellFormed(p, t) ==
    CASE t.kind = "decl"  -> t.from = p.base + 1
      [] t.kind \in Starts \cup Empties -> p.stack # <<>> \/ ~p.root
      [] t.kind \in Closes ->
            p.stack # <<>> /\ p.stack[Len(p.stack)] = Opener(t.kind)
      [] t.kind = "space" -> TRUE

\* The elements that are open for the parser after t.
Parsed(p, t) ==
    CASE t.kind \in Starts ->
            [p EXCEPT !.stack = Append(@, t.kind), !.root = TRUE]
      [] t.kind \in Empties -> [p EXCEPT !.root = TRUE]
      [] t.kind \in Closes ->
            [p EXCEPT !.stack = SubSeq(@, 1, Len(@) - 1)]
      [] OTHER -> p

framer_add_frame(f, index, size) ==
    [f EXCEPT !.frames = Append(@, [index |-> index, size |-> size])]

\* The name is "stream", whatever the namespace.
Stream(kind) == kind \in {"stream", "end"} \cup Namesake

\* Seeded fault: a stream element is not counted.
framer_start_NotCounted(f, kind, index, size) ==
    IF Stream(kind)
    THEN [framer_add_frame(f, index, size) EXCEPT !.level = 0]
    ELSE [f EXCEPT !.index = IF f.level = 1 THEN index ELSE @, !.level = @ + 1]

framer_start(f, kind, index, size) ==
    IF Stream(kind)
    THEN [framer_add_frame(f, index, size) EXCEPT !.level = 1]
    ELSE [f EXCEPT !.index = IF f.level = 1 THEN index ELSE @, !.level = @ + 1]

framer_end(f, kind, index, size) ==
    LET g == [f EXCEPT !.level = @ - 1]
    IN  CASE g.level = 1 ->
                framer_add_frame(g, g.index, index + size - g.index)
          [] g.level # 1 /\ Stream(kind) -> framer_add_frame(g, index, size)
          [] OTHER -> g

\* The callbacks for token t.  For an empty element expat reports the end tag
\* at the end of the token, with no bytes.
Callbacks(f, t) ==
    LET index == t.from - parser.base - 1
        size  == t.to - t.from + 1
    IN  CASE t.kind \in Starts -> framer_start(f, t.kind, index, size)
          [] t.kind \in Closes -> framer_end(f, t.kind, index, size)
          [] t.kind \in Empties ->
                framer_end(framer_start(f, t.kind, index, size),
                           t.kind, index + size, 0)
          [] OTHER -> f

\* buffer_remove_data.
Without(buffer, n) == SubSeq(buffer, n + 1, Len(buffer))

\* The framer after its first frame has been taken.
framer_get_frame2(f) ==
    LET frame == f.frames[1]
        delta == IF frame.index > f.buffer_index
                 THEN frame.index - f.buffer_index ELSE 0
    IN  [f EXCEPT !.buffer = Without(@, delta + frame.size),
                  !.frames = Tail(@),
                  !.buffer_index = @ + delta + frame.size]

\* Seeded fault: the bytes before the stanza are copied too.
FrameBytes_KeepsSpace(f) ==
    LET size == f.frames[1].size
    IN  SubSeq(f.buffer, 1, IF size < Capacity THEN size ELSE Capacity)

\* The bytes of that frame that data_set_data copies.
FrameBytes(f) ==
    LET frame == f.frames[1]
        delta == IF frame.index > f.buffer_index
                 THEN frame.index - f.buffer_index ELSE 0
        size  == IF frame.size < Capacity THEN frame.size ELSE Capacity
    IN  SubSeq(f.buffer, delta + 1, delta + size)

-----------------------------------------------------------------------------
(***************************************************************************)
(* cm_readcb                                                               *)
(***************************************************************************)

\* The first n bytes not taken yet begin with a header's prefix.
HeaderAt(n) ==
    /\ n >= Prefix
    /\ \E i \in 1 .. Len(stream) :
          stream[i].from = fed + 1 /\ stream[i].kind \in {"decl", "stream"}

\* How many tokens end at or before byte n.
Complete(n) == Cardinality({i \in 1 .. Len(stream) : stream[i].to <= n})

\* evbuffer_remove of the next block, and XML_Parse is called.
TakeBlock(a) ==
    LET n == IF a < Block THEN a ELSE Block
    IN  /\ fed' = fed + n
        /\ avail' = a - n
        /\ block' = [i \in 1 .. n |-> fed + i]
        /\ pc' = "parse"

\* Seeded fault: framer_reset forgets buffer_index.
framer_reset_KeepsIndex(f) == [framer_create EXCEPT !.buffer_index = f.buffer_index]

framer_reset(f) == framer_create

\* cm_readcb starts, with a bytes in the evbuffer: if they begin with a header
\* the framer and its parser are made anew.
ReadBegins ==
    /\ pc = "wait"
    /\ \E a \in 1 .. Total - fed :
          LET n == IF a < Block THEN a ELSE Block
          IN  /\ TakeBlock(a)
              /\ cut' = (cut \/ (fed > 0 /\ HeaderAt(n) # HeaderAt(Prefix)))
              /\ IF HeaderAt(n)
                 THEN /\ framer' = framer_reset(framer)
                      /\ parser' = NewParser(fed)
                      /\ parsed' = Complete(fed)
                 ELSE UNCHANGED <<framer, parser, parsed>>
    /\ UNCHANGED <<stream, sent>>

\* The next block of the same read.
NextBlock ==
    /\ pc = "read"
    /\ avail > 0
    /\ TakeBlock(avail)
    /\ UNCHANGED <<stream, parsed, parser, framer, sent, cut>>

\* XML_Parse has one more complete token.
MoreTokens == parsed < Len(stream) /\ stream[parsed + 1].to <= fed

ParseToken ==
    /\ pc = "parse"
    /\ ~parser.broken
    /\ MoreTokens
    /\ LET t == stream[parsed + 1]
       IN  /\ WellFormed(parser, t)
           /\ parser' = Parsed(parser, t)
           /\ framer' = Callbacks(framer, t)
    /\ parsed' = parsed + 1
    /\ UNCHANGED <<stream, fed, avail, block, pc, sent, cut>>

\* framer_add returns 0 and cm_readcb returns: the block is not kept, the rest
\* of the read stays in the evbuffer, and complete frames are not sent.  fed
\* does not count that rest: the next callback takes it again.
ParseError ==
    /\ pc = "parse"
    /\ parser.broken \/ (MoreTokens /\ ~WellFormed(parser, stream[parsed + 1]))
    /\ parser' = [parser EXCEPT !.broken = TRUE]
    /\ pc' = "wait"
    /\ avail' = 0
    /\ UNCHANGED <<stream, fed, parsed, framer, block, sent, cut>>

\* XML_Parse has succeeded, and the block goes to the framer's buffer.
AppendBlock ==
    /\ pc = "parse"
    /\ ~parser.broken
    /\ ~MoreTokens
    /\ framer' = [framer EXCEPT !.buffer = @ \o block]
    /\ pc' = "read"
    /\ UNCHANGED <<stream, fed, parsed, parser, avail, block, sent, cut>>

\* Seeded fault: one frame is sent for each read.
Drained_Once == pc' = "wait"

\* The loop over the frames goes on.
Drained == UNCHANGED pc

\* framer_get_frame2 and wsconn_write, once the evbuffer is empty.
WriteFrame ==
    /\ pc = "read"
    /\ avail = 0
    /\ framer.frames # <<>>
    /\ sent' = Append(sent, FrameBytes(framer))
    /\ framer' = framer_get_frame2(framer)
    /\ Drained
    /\ UNCHANGED <<stream, fed, parsed, parser, avail, block, cut>>

ReadEnds ==
    /\ pc = "read"
    /\ avail = 0
    /\ framer.frames = <<>>
    /\ pc' = "wait"
    /\ UNCHANGED <<stream, fed, parsed, parser, framer, avail, block, sent, cut>>

Init ==
    /\ stream = <<>>
    /\ fed = 0
    /\ parsed = 0
    /\ parser = NewParser(0)
    /\ framer = framer_create
    /\ avail = 0
    /\ block = <<>>
    /\ pc = "wait"
    /\ sent = <<>>
    /\ cut = FALSE

Next ==
    \/ ServerSend
    \/ ReadBegins \/ NextBlock
    \/ ParseToken \/ ParseError \/ AppendBlock
    \/ WriteFrame \/ ReadEnds

Spec == Init /\ [][Next]_vars

-----------------------------------------------------------------------------
(***************************************************************************)
(* Properties                                                              *)
(***************************************************************************)

\* A namesake has come before the end of token i, in the same stream.
Misled(i) ==
    \E j \in 1 .. i :
        /\ stream[j].kind \in Namesake
        /\ \A k \in j .. i : stream[k].kind # "stream"

\* Types of the state; and the framer's level is the number of elements that
\* are open for the parser, until a namesake or a restarted stream that was not
\* recognised resets it (framer_start).
TypeOK ==
    /\ stream \in Seq(Token)
    /\ fed \in 0 .. Total
    /\ parsed \in 0 .. Len(stream)
    /\ parser.base \in 0 .. fed /\ parser.broken \in BOOLEAN
    /\ framer.level \in -MaxDepth .. MaxDepth
    /\ ~cut /\ ~Misled(parsed) => framer.level = Len(parser.stack)
    /\ framer.index \in Nat /\ framer.buffer_index \in Nat
    /\ framer.frames \in Seq([index : Nat, size : Nat])
    /\ framer.buffer \in Seq(1 .. fed)
    /\ avail \in 0 .. Total - fed
    /\ pc \in {"wait", "parse", "read"}
    /\ sent \in Seq(Seq(1 .. fed))
    /\ cut \in BOOLEAN

\* The tokens that end something the browser gets as one message.
Ends ==
    {i \in 1 .. Len(stream) :
        \/ stream[i].kind \in {"stream", "end"}
        \/ stream[i].kind = "empty" /\ stream[i].depth = 1
        \/ stream[i].kind = "close" /\ stream[i].depth = 2}

\* The first byte of the element that token i ends, or of the tag that it is.
Begin(i) ==
    IF stream[i].kind # "close" THEN stream[i].from
    ELSE LET opens == {j \in 1 .. i : stream[j].kind = "open"
                                        /\ stream[j].depth = stream[i].depth - 1}
         IN  stream[CHOOSE j \in opens : \A k \in opens : k <= j].from

\* Those bytes, cut at the capacity of data_buffer.
Stanza(i) ==
    LET size == stream[i].to - Begin(i) + 1
    IN  [k \in 1 .. IF size < Capacity THEN size ELSE Capacity |->
            Begin(i) + k - 1]

\* Every message to the browser is one stream header, one stanza or one stream
\* end, byte for byte what the server wrote with nothing of the white space
\* around it, and no byte is repeated or overtaken: wherever reads and blocks
\* cut the stream, whenever the framer is reset, even after a parse error
\* (framer_start, framer_end, framer_get_frame2, cm_readcb).  It is whole if it
\* fits in data_buffer; of a larger one the browser gets as many bytes as fit
\* and the rest is dropped.  Once a namesake has reset the level, it is still
\* one element or tag, or empty, though not a stanza.
ForwardedExactly ==
    /\ \A n \in 1 .. Len(sent) :
          \/ \E i \in Ends : sent[n] = Stanza(i)
          \/ \E i \in 1 .. Len(stream) :
                Misled(i) /\ sent[n] \in {Stanza(i), <<>>}
    /\ \A m, n \in 1 .. Len(sent) :
          m < n => \A x \in 1 .. Len(sent[m]), y \in 1 .. Len(sent[n]) :
                      sent[m][x] < sent[n][y]

\* When cm_readcb returns, every message that ends in what it has read has been
\* sent, over any number of restarts: nothing waits for more input, as long as
\* no read has ended inside the first bytes of a restarted stream.  A namesake
\* costs what follows it, and what it is in, until the stream is restarted.
AllForwarded ==
    pc = "wait" /\ ~cut =>
        \A i \in Ends :
            stream[i].to <= fed /\ ~Misled(i) =>
                \E n \in 1 .. Len(sent) : sent[n] = Stanza(i)

\* Between blocks, while the parser is sound, the buffer holds exactly the bytes
\* from buffer_index (counted from the parser's start) to the last one read:
\* the offsets that the parser reports and those of the buffer stay in step,
\* and the frames not sent yet are all inside the buffer, so that
\* buffer_remove_data never removes more than there is.
BufferAligned ==
    (pc # "parse" /\ ~parser.broken) =>
        /\ framer.buffer = [i \in 1 .. fed - parser.base - framer.buffer_index |->
                               parser.base + framer.buffer_index + i]
        /\ \A n \in 1 .. Len(framer.frames) :
              /\ framer.frames[n].index >= framer.buffer_index
              /\ parser.base + framer.frames[n].index + framer.frames[n].size
                    <= fed

=============================================================================
