# A verification of jabsocket

jabsocket is an XMPP-over-WebSocket connection manager: a browser opens a
WebSocket, jabsocket opens a TCP connection to the XMPP server named in the
browser's stream header, and bytes are forwarded both ways. It is one process
and one thread; libevent calls back for every socket.

This directory holds TLA+ modules translated from the C source, the TLC
configurations that check them, and TLAPS proofs of the properties that matter
most. `PROJECT.json` maps every definition to the lines it models and lists the
runs, the seeded faults that show each property can fail, the hazards and the
findings.

## Inventory

| Component | State | Operations | Correct when |
|---|---|---|---|
| WebSocket connection (`wsserver.c`, `wsconn_t`) | `ws_state`, `cm_state`, two closing flags, a bufferevent, the decoder | accept, handshake, read loop, write, `wsconn_close`, `wsconn_initiate_close`, `wsconn_onclosed`, free | nothing freed is used, output keeps its order and is flushed, closing ends |
| Connection manager (`cmanager.c`, `cmanager_t`) | `ST_START/CONNECT/FORWARD`, buffer, bufferevent to the server, parsers | `cm_onmessage`, `cm_connect`, `cm_readcb`, `cm_eventcb`, `cm_close`, `cm_delete` | it lives exactly as long as its client, forwards in order |
| Frame codec (`get_frame`, `wsconn_write_frame`) | the bytes received so far | encode, decode | a frame is decoded as it was sent, however it is cut |
| Message assembly (`wsmessage.c`, `wsmsg_t`) | frame and message buffers, flags | `wsmsg_add`, `_wsmsg_process`, `wsmsg_get_message`, `wsmsg_get_frame` | messages whole and in order, protocol errors found |
| Stream framer (`framer.c`, `framer_t`) | depth, list of frames, buffer and its offset | `framer_add`, element handlers, `framer_get_frame2`, `framer_reset` | each stanza is one message, exactly |
| Stream header parser (`streamparse.c`) | server name, sticky error | add, query | the server is the `to` attribute of the header |
| Request parser (`rqparser.c`) | request line, current header line, stored values, flags | `rq_add_line`, `_process`, `rq_analyze` | exactly the valid upgrades are accepted, whatever the order, repetition and folding of headers |
| Configuration (`parseconfig.c`) | level, previous token, key; the settings | `config_parse`, `config_check_origin` | each setting is the one written under its key |
| Buffers and strings (`util.c`) | length, capacity, limit | append, remove, move | no byte lost or read beyond the end |
| Base64, logging, `main.c` | none, or read once | | |

How they meet: `wsconn_t` creates its `cmanager_t` (`create_cb`) and calls it
back for messages, closing and deletion (`WSCB_MESSAGE`, `WSCB_CLOSE`,
`WSCB_DELETE`); the manager calls `wsconn_write` for stanzas and
`wsconn_onclosed` when the XMPP connection fails. The two call each other from
inside each other: `cm_onmessage` can come back through `cm_connect`,
`cm_eventcb` and `wsconn_onclosed` to the very connection whose decode loop is
running.

What is hard: three parties close the same pair of objects (the browser's Close
frame or EOF, the XMPP server's error, a failed connect), each closing function
decides from four variables whether to free; TCP cuts and merges both streams
anywhere; byte offsets are counted in two places; lengths change their encoding
at two boundaries. The hazards, each at its line, are in `PROJECT.json`.

## Modules

| Module | Models | Runs |
|---|---|---|
| `Gateway` | the life of every `wsconn_t` with its `cmanager_t` | `safety`, `eof_reported`, `close_reported` |
| `Relay` | abstract: what a connection promises to browser and XMPP server | in `session`, as `KeepsPromise` |
| `WsMessage` | `wsmsg_t` and the loop of `wsconn_process_frame` that drains it | `message`, `message_two` |
| `Session` | `Gateway` composed with `WsMessage`, and frames behind the handshake | `session` |
| `Limits` | the limited `buffer_t` in the three places `wsmsg_t` has it | `limits` |
| `FrameCodec` | one frame on the wire, both directions | `codec`, `codec_long` |
| `Framer` | `framer_t` and `cm_readcb` | `framer` |
| `Text` | strings: `str_t`, its cutting, trimming and splitting, `strtok_r`, `fnmatch` | in `handshake` |
| `Config` | `config_parse` on libyaml's tokens, the origin check | in `handshake` |
| `Handshake` | the lines of the request, `rq_analyze`, the answer | `handshake`, `handshake_valid` |
| `GatewayProofs`, `RelayProofs`, `WsMessageProofs`, `SessionProofs`, `LimitsProofs`, `FrameCodecProofs`, `FramerProofs`, `HandshakeProofs` | theorems about the module of that name (`RelayProofs`: that `Gateway` implements `Relay`) | |
| `MC...` | the modules above for TLC | |

Definitions named `X_Something` under a comment "Seeded fault" are mutated forms
of `X`; no specification uses them. They show that a property fails when the
code has that fault.

### Gateway

`conn[c]` is the record of one connection: the fields of `wsconn_t` and
`cmanager_t` that control depends on, the libevent state around them (what is
readable, writable, pending), and ghost fields (`sent`, `xmpp`, `fault`).
Each C function is an operator of the same name from record to record; each
libevent callback is an action. Only `wsconn_process_frame` is more than one
action, one for each turn of its loop, and while it runs (`running`) no other
callback does, as in the code. What the browser sent is abstracted to the kind of
item each turn finds, and `more` says whether another turn finds one: `Gateway`
leaves both open, `Session` takes them from `WsMessage`. A use of freed or NULL
memory sets `fault`.

`CM_ST_START` does not appear: `wsconn_create` leaves it before it returns.
`wsconn_close_send` does not appear: nothing calls it. The failure of `malloc`,
and the log line that `wsconn_delete` writes from `conn` after freeing it, are
not modelled, and what is said of memory below is said without them.

### Relay

Three variables for each connection: its phase (new, waiting, open, ending,
over), what the browser is sent, and the numbers of the messages the XMPP server
is sent. It has no flags, memory or callbacks. `Gateway!Phase` computes the phase
from the two states of a `wsconn_t` and its allocation; `sent` and `xmpp` are the
other two. `KeepsPromise` is the specification of `Relay` under this mapping.

### FrameCodec

Header bytes are numbers and keep the widths of the C types; payload and masking
key are counted. Frames from the browser are encoded as RFC 6455 says
(external). A read may end at every byte of the header and key, before the last
byte, and at the end. The `htons` of the 64-bit form is modelled as the code
computes it on a little-endian host; no stanza reaches it, because `cm_readcb`
cuts stanzas to 65536 bytes.

### WsMessage

A frame is its opcode and FIN bit; a message is the numbers of its frames. One
read completes any number of frames up to `MaxChunk`; `_wsmsg_process` takes one
per step and returns to the point of the loop that called it.

### Session

One connection. A turn of the loop is one step of `Gateway` and one of
`WsMessage` together; `_wsmsg_process` steps alone; every other callback is a
step of `Gateway` that waits while code runs. `Handshake` puts up to `MaxEarly`
frames behind the blank line of the request: `wsconn_read_cb` stops there and
they stay in the evbuffer (`early`) until the next read event. `cuts` records
how many frames the decoder had taken when each read began: two frames with a
cut between them were not decoded in the same call of `_wsmsg_process`.

### Limits

Bytes are counted, not stored. `frame_buffer` holds twice `max_frame_size`,
`frame_data` `max_frame_size`, `message_buffer` `max_message_size`; a full
`buffer_t` drops the rest and reports it only when nothing fits. Streams are well
formed, so every error here comes from a limit or from two messages in one read.
After bytes of the stream itself were dropped, what `get_frame` makes of the rest
is not followed (`garbled`).

### Framer

The XMPP stream is a sequence of tokens and a byte is its position in it, so that
what is forwarded can be compared with what was written. expat is external: it
reports complete tokens with their offsets until one is not well-formed, and
then only errors. The server may restart its stream, with or without an XML
declaration, once everything before has been read, as it does after
authentication. One element may be called stream in a namespace of its own (a
namesake): `framer_start` compares local names only. `Block`, `Capacity` and the
length of a header's prefix stand for 1024, 65536 and the length of `<?xml`;
`MaxDepth` is at least 1, as a stream that is open has depth 1.

### Text, Config and Handshake

A string is a sequence of symbols. The modules do not say what a symbol is: it is
the unit in which the sizes of buffers are counted, and `Spelling` gives the
string of each name that the source compares with. With one symbol for each byte
these are the program's own strings, and the proofs cover that. TLC takes larger
pieces: a name is one symbol, a host two, an origin three, and a longer text is
such a string with a rest behind it. A cut therefore falls where it matters:
`str_set_string` keeps the first `Capacity[b]` symbols of a value, in the middle
of an item or of an origin if the buffer ends there. (In `rqparser.h` buffers
hold from 16 to 256 bytes; the 4096 of `LINE_BUFFER_SIZE` are those of the line.)

`Scan` is libyaml (external): the tokens of each part of a file, the parts being
its entries, with every layout of a list, and what stands before and behind them.
`scanned` is the place that `yaml_parser_scan` has reached, `parser` holds the
local variables of `config_parse`, and one turn of its loop is a `ConfigToken`. It
returns with 1 at the end of the stream (`ConfigDone`) and with 0 if the file
cannot be opened or a token is not expected (`ConfigFailed`), which ends the
program.

After that `Handshake` reads a request line and then, header by header, what a
browser sends; it may leave headers out and put unusual lines anywhere (repeated,
folded, without a colon), `MaxUnusual` of both together. A folded line is glued to
the end of `h->line` without its first space and with nothing in between, as
`rq_add_line` does, so that it may complete a word, a list or a key, or give a
line its colon. The ghost `last` is the header line as it was sent, `fields` the
values of the headers that have ended. `Meaning` and the operators ending in
`Meant` say from the same file and values, without parser state, what was meant;
the origin is matched whole. `_find_connection_upgrade` without a return value
gives either value.

A value that does not fit is compared by its beginning, so that a request may be
accepted that should not be: `Connection: <55 characters>,Upgradefoo` is kept as
`...,Upgrade`. `AcceptedOnlyValid` names each check that this can happen to
(origin, host, resource, protocols, Connection), and says that it cannot to the
others, because their buffers are longer than what is looked for
(`CapacityAssumption`). In the same way a value that is cut may be refused, and
`RefusedForDefect` speaks of values that fit. A request refused with 403 under a
list that is not indented is left out of it, because that list was not read as
meant.

## Runs

| Run | Bounds | Shows |
|---|---|---|
| `safety` | 2 connections (symmetric), 3 items, 2 frames | memory safety; ownership of the XMPP link; order on both wires; flushing; states never go back; the invariant the proofs use |
| `session` | 1 connection, 3 frames, up to 3 per read, 1 behind the request | callback and decoder stay in step; a Close overtakes a message exactly when both were decoded by one call of `_wsmsg_process`; what arrives is handled; a lost server frees the connection, closing completes, the loop returns; the whole implements `Relay` |
| `message` | 5 frames, up to 3 per read | the connection fails exactly on malformed frames; messages and control frames whole and in order; only a Ping leaves work behind |
| `limits` | 3 frames, limits 4 and 6, payloads 0, 2, 4, 5 and 7 | a message is whole exactly within both limits; it is cut only in its last frame, or in a frame over `max_frame_size`; a full `frame_buffer` blocks only on a frame larger than it |
| `codec` | all length classes and their borders | frames decoded as sent, once complete |
| `framer` | 6 tokens, depth 3, 1 namesake, any cuts | every message to the browser is exactly one header, stanza or end (its beginning, if it is larger than `data_buffer`), and is sent by the read that completes it, unless a read has cut the header of a restarted stream or a namesake has come since the last header |
| `handshake` | files of up to 2 entries, 2 departures, buffers of 1 to 4 symbols | the file is read as meant; a request is accepted only if valid, unless a value was cut or `_find_connection_upgrade` returned nothing, and refused only for the defect its status names; only a broken one is not answered |
| `eof_reported`, `close_reported` | 1 connection | violations, see below |
| `codec_long`, `message_two`, `handshake_valid` | smallest that fail | violations, see below |

Why the bounds are enough: connections do not share state except the event loop,
so two show every interference (one in its loop, the other ready). Three items
allow a failed connect, a message after it and a Ping, Close or error after that,
all in one read; `MaxFrames` only holds stanzas back, so two frames allow response,
stanza, and the Pongs and Close that follow. In `session`, three frames allow a
Ping, a text and a Close in every distribution over reads, all in one and the
first of them with the request included. Five data frames
allow two fragmented messages with a control frame between; six tokens allow a
stream, a stanza with a child, a restart and a stanza after it, or a namesake
and, after it, a stanza with a child. The limits 4 and
6 with header 2 put a payload at, just over and well over each border, and let
both two small frames and one large one fill a buffer. Two departures allow a
repeated header together with a folded or missing one; among the unusual lines
are values that are cut just behind what is looked for (`Upgrade`, `xmpp`, an
origin), just before it, and folded lines that complete or spoil a host, an
origin, a list and a line without a colon.

`CHECK_DEADLOCK FALSE` is used in all runs but those of the codec: a bounded
number of connections that have all been freed, or a peer that has sent all the
bound allows, is the end of a behaviour and not a fault.

Fairness: `WF` of the code of a callback (`Loop(c)`, `Session!Code(c)`), because
it is straight-line C that runs once entered, and `SF(WriteDrained(c) \/
ClientWriteError(c))`, because libevent serves every ready socket; it is strong
because other callbacks come between, and it assumes that a client reads or goes
away, since the code sets no timeout. `Session` adds `SF(Read(c))`: the browser
goes on sending, since `wsconn_process_frame` looks at what an earlier call left
only when something arrives, and `ArrivedIsHandled` says no more than that.
Nothing else is assumed of what clients send, of their EOF, or of the XMPP server.

## Findings

Each is a run whose expected result is a violation; the quotations are in
`PROJECT.json`.

1. `eof_reported`: `cm_eventcb` ignores `BEV_EVENT_EOF`; a session that the XMPP
   server ends stays open in the browser.
2. `close_reported`: `wsconn_close` waits for a `wsconn_onclosed` that `cm_close`
   never makes; a client that drops its connection leaves a `wsconn_t` and a
   socket behind.
3. `codec_long`: a payload of 65536 bytes is framed with length 0.
4. `message_two`: two WebSocket messages in one read close the connection.
5. `handshake_valid`: `_find_connection_upgrade` falls off its end when the
   Connection header does not name Upgrade; the value depends on the build (with
   gcc, 0 at `-O0` and 1 from `-O1` on), so such a request may be accepted.

What the models show besides, stated as the exceptions in the properties:

- a rejected handshake leaves the socket open until the client goes
  (`RejectedFreedAtEof`);
- a restarted stream whose XML declaration is cut by a read silences the
  connection (`AllForwarded`);
- an element called stream inside the stream is forwarded as a header would be;
  the stanza around it is lost and later ones are lost or sent in pieces, until
  the stream is restarted (`ForwardedExactly`, `AllForwarded`, `Misled`);
- an origin list whose dashes are not indented is ignored, and an empty list
  accepts every origin (`ConfAsWritten`, `Indented`; src/doc/jabsocket.ad:226
  calls it "the list of web origins from which the service will accept the
  connection");
- a Close frame overtakes the message right before it, which is lost, if one call
  of `_wsmsg_process` decodes both; also if both came behind the handshake
  request, if earlier reads brought the message and Pings kept it from being
  decoded, and if both then wait behind a Ping for another read
  (`CloseOvertakesExactly`, which also says that no other message is overtaken);
- a request may be accepted or refused by the beginning of a value that is cut to
  the size of its buffer (`AcceptedOnlyValid`, `Long`, `Fits`);
- folded text is joined without a separator: `Connection: close` followed by
  ` Upgrade` is the word `closeUpgrade` (`rq_add_line`);
- a message over a size limit is cut and handed out unless its next frame shows
  the overflow (`WholeWithinLimits`, `CutOnlyAtTheEnd`).

## Proofs

`GatewayProofs` (for any set of connections and any bounds):

- `TypeCorrect`: `Spec => []TypeOK`. One lemma per C function says that it maps
  connections to connections.
- `AlwaysConsistent`: `Spec => []Consistent`. `NoFault` is not inductive:
  whether `cm_eventcb` may call `cm_close` after `wsconn_onclosed` depends on
  `ws_state` never being `CLOSED` while a bufferevent to the server exists, which
  depends on every closing path having released it. `Consistent` states this for
  each connection in four parts (`LifeInv`, `LinkInv`, `WireInv`, `ForwardInv`),
  and `RunInv` for the one in its loop: it is live, and if it is closing already,
  the manager is in `ST_CONNECT`, where `cm_onmessage` drops messages. That last
  conjunct is why the assignment `cm->state = ST_CONNECT` after a failed
  `cm_connect` matters.
- `MemorySafe`, `LinkNeverOrphaned`, `OutputInOrder`, `MessagesInOrder`,
  `OutputFlushed`, `RejectedFreed`: the invariants of the run `safety`, from
  `Consistent`.
- `ClosingIsFinal`: `Spec => NeverReopens`, the action property of that run. One
  lemma per C function says that it moves both states forward only and writes
  nothing for a connection that is closed; `Consistent` is needed because
  `cm_onmessage` is reached only while the connection is live.

`RelayProofs` (for any set of connections and any bounds):

- `Refinement`: `Spec => KeepsPromise`, `Gateway` implements `Relay`. `Effect`
  says of two records of one connection that the second comes from the first by
  one step of `Relay` or none; there is one lemma per operation that its result
  is an `Effect` of its argument, given `TypeOK` and `Consistent`, and
  `EffectIsStep` turns the `Effect` on one connection into a step of `Relay`. One
  more invariant is needed, `CloseWritten`: in `WS_ST_CLOSING` the Close frame has
  been written, so a Pong sent then is one `Relay` allows.

`WsMessageProofs` (for any stream of frames and any reads):

- `TypeCorrect`, from `Flow`: `_wsmsg_process` runs with no error and with no
  control frame waiting, so it never overwrites one.
- `ControlsHandedOut`: `Handed` adds to `ControlsInOrder` that the control frame
  that waits comes behind all that have been handed out.
- `WaitsOnlyBehindPing`: `Stalls` adds to `StallsOnlyAfterPing` that
  `_wsmsg_process` leaves the loop only behind a Ping, and that the loop sees all
  that has arrived.
- `FailureIsExact` and `MessagesWhole`, both from `Sound`: as long as nothing has
  failed and no data frame has met a complete message, the frames taken are well
  formed and `message_buffer` holds what they have brought of the message behind
  the last one delivered. Without what is in `message_buffer` neither property is
  inductive: it decides what is delivered or refused later.

`SessionProofs` (one connection; for any stream and any bounds):

- `SessionRefinement`: `SessionSpec => KeepsPromise`, and `SessionDecodes`:
  `SessionSpec => M!Spec`. Every step of `Session` is a step of `Gateway` or
  leaves it unchanged, and the same for `WsMessage`, so their invariants hold in
  the composition; no proof is repeated.
- `StayInStep`: the invariant `Joint` ties the program counter of the decoder to
  `running` and to the state of the connection, and `more` to what the `wsmsg_t`
  holds.
- `OvertakesExactly`: `Spec => []CloseOvertakesExactly`, for any number of frames
  and reads. The invariant `CutInv` says why: a message that is complete while
  `_wsmsg_process` runs was completed in this call by the last frame it took
  (`Fresh`); after such a message it goes on as long as there are frames
  (`GoesOn`), so the control frame behind it is decoded too, in this call if it
  has arrived (`Waits`); all earlier messages have been handed out (`Turned`).

`FrameCodecProofs` (for every length, opcode and cut):

- `TypeCorrect`, for every length, also those the server frames wrongly. The
  invariant `HeaderInv` says that the header in flight announces a frame with
  the FIN bit, opcode and mask of the one being sent, of some length.
- `FramesDecoded` and `FramesReported`, assuming `ServerLengths` within
  0 .. 65535, the assumption that `codec_long` shows to be needed, and
  `ClientLengths` below 2^31. The invariant `CodecInv` says that the header in
  flight spells the frame; the lemmas are that base-256 digits invert division,
  and that `get_frame` reads back each of the three forms.

`FramerProofs` (for any number of tokens, depth, block size and capacity):

- `TypeCorrect`, `ForwardsExactly`, `StaysAligned`, `ForwardsAll`: all four
  invariants of the run `framer`. What is forwarded comes from offsets computed
  blocks earlier, so the invariant `Inv` has to say what every offset means.
  `ServerInv` is about the stream alone (tokens one after the other, properly
  nested, every end tag with its start tag). `Taken` and `Levelled` tie parser
  and level to it: the level is the depth unless a namesake has reset it. `Framed`,
  `Pointed`, `Honest` and `Delivered` are about the offsets: the frames lie one
  behind the other from `buffer_index` on, `index` is where the open stanza
  begins, each frame is what one token ends, and all that was sent lies before
  the buffer. `Sound` and `Forwarding` hold until a restarted header is cut: the
  parser rejects no token, and every stanza parsed is sent or in the list. The
  largest part of the proof is that `framer_start` and `framer_end` keep this for
  every kind of token, and `framer_reset` on a restart.

`HandshakeProofs` (for any files, request lines, headers, spelling and sizes of
the buffers that satisfy `SpellingAssumption` and `CapacityAssumption`; the bytes
and sizes of the source do):

- `TypeCorrect`, `BrokenNotAnswered`, `UpgradeEchoed`. The invariant is `Inv`; its
  heart is `Recorded`: what `request_t` stores for each key is what the values
  sent so far come to: the last one, cut to its buffer, or all of them. The last
  header line waits for the line after it, which may continue it, so `fields` does
  not have it yet, and `Phased` says that it is in `h->line` as it was sent.
- `ReadAsWritten`: `Spec => []ConfAsWritten`, for files of any length. The
  invariant is `ConfInv`. Its part `Position` says what the variables of
  `config_parse` are before each token: `level` by the layout of the entry,
  `prev_token` the token before, `key` the key of the entry (not inside a
  mapping, where it changes); and that the settings and origins stored are those
  of the entries before it and of the items of the list read so far (`Agrees`).
  One lemma per layout says that its tokens lead from one place to the next;
  `AllRead`, that behind the last entry this is the meaning of the file.
- `AcceptsOnlyValid` and `RefusesForDefect`: `Spec => []AcceptedOnlyValid` and
  `Spec => []RefusedForDefect`, from `Inv` and `ConfAsWritten`: both sides of each
  check of `rq_analyze` are what was sent and what the file means. `CutWord` says
  why a cut cannot make a longer value equal to what is looked for,
  `ListedItems` the same of the items of a list, and `KeptWhole` that a value
  which is not among the long ones is compared whole.

`LimitsProofs` (for any limits above 0, payload sizes, streams and reads):

- `TypeCorrect`, `WholeExactly`, `CutLast`, `StuckOnLarge`: all four invariants of
  the run `limits`. They compare a buffer with a sum over frames, so the module
  first shows what a sum is: `SumSeq` is a fold, the function it iterates exists
  (`IterationExists`) and gives one value (`SumByIteration`), both by a least
  counterexample (`LeastNumber`), and one more element adds its value (`SumGrows`).
- The invariant `Inv` has three parts besides the types. `Buffered`: until bytes
  are dropped, `frame_buffer` holds what has arrived behind the frames taken.
  `Unblocked`: the loop finds nothing to do only if no whole frame is there.
  `Whole`, with `Holds`: `message_buffer`, and each message handed out, has the
  bytes that `frame_data` kept of its frames up to `max_message_size`, and no frame
  with a payload was appended when it was full. Without what is in
  `message_buffer` the properties of messages handed out are not inductive.

Assumptions on constants are named in the modules that declare them and TLC
evaluates them in the runs.

Only model-checked are the liveness properties `ArrivedIsHandled`,
`ServerLossFrees`, `ClosingCompletes` and `LoopEnds`: fairness is outside the
prover's reach. Every invariant of a passing run is a theorem.

## Not modelled, and why

- allocation failure, logging, DNS and TLS, signals, options and start-up: no
  state of the program's own, or no handling in the code;
- `wsconn_close_send`: nothing calls it;
- Base64 and SHA-1, the text of the answer, unmasking and payload bytes: pure
  conversions of values no property is about;
- in a request: a header line longer than `LINE_BUFFER_SIZE`, folded lines
  included, and `%` in a value, which `str_set_string` takes for a conversion;
- in a file: a mapping inside an origin list, origin patterns with `?`, `[` or
  `\`, and the settings no request is checked against;
- in the XMPP stream: elements without a namespace, and the reading of the `to`
  attribute (`Gateway` has the three outcomes of the stream header parser and its
  sticky error).

## Plan

`StreamParser`: the reading of the `to` attribute across messages, with proofs in
the manner of `HandshakeProofs`.
