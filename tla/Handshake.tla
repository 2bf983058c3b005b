------------------------------ MODULE Handshake ------------------------------
(***************************************************************************)
(* The opening handshake: the lines of an HTTP request (rqparser.c), read  *)
(* in wsconn_read_cb, and the answer of rq_analyze and wsconn_handshake.   *)
(*                                                                         *)
(* A line is a string: a key, a colon and a value, which a buffer of fixed *)
(* size keeps the beginning of.  The SHA-1 and Base64 of the accepted key  *)
(* are left out.                                                           *)
(***************************************************************************)
EXTENDS Config

CONSTANTS
    RequestLines,   \* the request lines, as strtok splits them
    Usual,          \* the headers a browser sends, in its order
    Unusual,        \* other lines: headers, folded lines, lines without colon
    MaxUnusual,     \* bound: headers left out and unusual lines, in a request
    Capacity        \* Capacity[b]: the symbols that fit in buffer b

VARIABLES
    meant,      \* what the author of the configuration file meant by it
    indented,   \* its origin lists are indented
    phase,      \* "config", "exit", "request", "closed" or "answered"
    req,        \* the request_t
    response,   \* the status and the Connection header of the answer
    asked,      \* the words of the request line
    last,       \* the header that is being sent, folded lines joined to it
    fields,     \* fields[k]: the values sent for key k before, in order
    broken,     \* a line without a colon, or a short request line, was sent
    next,       \* the browser's next header
    unusual,    \* headers left out and unusual lines so far
    undefined   \* a function has returned without a value

requestVars ==
    <<req, response, asked, last, fields, broken, next, unusual, undefined>>

vars == <<configVars, meant, indented, phase, requestVars>>

-----------------------------------------------------------------------------
(***************************************************************************)
(* request_t                                                               *)
(***************************************************************************)

Keys == {"host", "upgrade", "connection", "sec-websocket-key",
         "sec-websocket-protocol", "sec-websocket-version", "origin"}

\* The keys whose value is stored; the last one sent stays.
Stored == Keys \ {"upgrade", "sec-websocket-protocol"}

\* A buffer for each key, for two words of the request line and for an item
\* of a list.
Buffers == Keys \cup {"method", "resource", "token"}

\* What a value must be equal to is shorter than its buffer.
ASSUME CapacityAssumption ==
    /\ Capacity \in [Buffers -> Nat \ {0}]
    /\ Len(Word("get")) < Capacity["method"]
    /\ Len(Word("websocket")) < Capacity["upgrade"]
    /\ Len(Word("13")) < Capacity["sec-websocket-version"]
    /\ Len(Word("xmpp")) < Capacity["token"]
    /\ Len(Word("upgrade")) < Capacity["token"]

ASSUME LinesAssumption ==
    /\ RequestLines \subseteq Seq(Strings)
    /\ Usual \in Seq(Strings)
    /\ Unusual \subseteq Strings
    /\ MaxUnusual \in Nat

rq_create ==
    [state |-> "START", line |-> <<>>, done |-> FALSE, error |-> FALSE,
     method |-> NoWord, resource |-> NoWord, str |-> [k \in Stored |-> <<>>],
     protocols |-> {}, fl_upgrade_found |-> FALSE, fl_connection_found |-> FALSE]

\* What _process stores of the value v of key k.
Kept(k, v) == str_set_string(str_trim_beginning(v), Capacity[k])

\* The items of a list, each cut to the size of its own buffer.
Items(s) == {str_set_string(w, Capacity["token"]) : w \in Tokens(s)}

\* The values _find_connection_upgrade can return: if no item is "Upgrade" it
\* has no return statement and the value is whatever the build leaves there.
_find_connection_upgrade(s) ==
    IF \E w \in Items(s) : tolower(w) = Word("upgrade") THEN {TRUE} ELSE BOOLEAN

\* str_is_equal_nocase with "websocket".
IsWebsocket(s) == tolower(s) = Word("websocket")

parse_request_line(r, words) ==
    IF Len(words) < 3
    THEN [r EXCEPT !.error = TRUE]
    ELSE [r EXCEPT !.state = "HEADER", !.line = <<>>,
                   !.method = str_set_string(words[1], Capacity["method"]),
                   !.resource = str_set_string(words[2], Capacity["resource"])]

\* Seeded fault: the list is split in place and only its beginning is left.
_process_Spoilt(r, k, v, found) ==
    LET s == Kept(k, v)
    IN  CASE k \in Stored \ {"origin", "connection"} -> [r EXCEPT !.str[k] = s]
          [] k = "origin" -> [r EXCEPT !.str[k] = tolower(s)]
          [] k = "connection" ->
                [r EXCEPT !.str[k] = SubSeq(s, 1, 1), !.fl_connection_found = @ \/ found]
          [] k = "upgrade" ->
                [r EXCEPT !.fl_upgrade_found = @ \/ IsWebsocket(s)]
          [] k = "sec-websocket-protocol" ->
                [r EXCEPT !.protocols = @ \cup Items(s)]
          [] OTHER -> r

\* Seeded fault: a second list of protocols replaces the first.
_process_LastList(r, k, v, found) ==
    LET s == Kept(k, v)
    IN  CASE k \in Stored \ {"origin", "connection"} -> [r EXCEPT !.str[k] = s]
          [] k = "origin" -> [r EXCEPT !.str[k] = tolower(s)]
          [] k = "connection" ->
                [r EXCEPT !.str[k] = s, !.fl_connection_found = @ \/ found]
          [] k = "upgrade" ->
                [r EXCEPT !.fl_upgrade_found = @ \/ IsWebsocket(s)]
          [] k = "sec-websocket-protocol" -> [r EXCEPT !.protocols = Items(s)]
          [] OTHER -> r

\* A complete header; `found' is what _find_connection_upgrade returns.
_process(r, k, v, found) ==
    LET s == Kept(k, v)
    IN  CASE k \in Stored \ {"origin", "connection"} -> [r EXCEPT !.str[k] = s]
          [] k = "origin" -> [r EXCEPT !.str[k] = tolower(s)]
          [] k = "connection" ->
                [r EXCEPT !.str[k] = s, !.fl_connection_found = @ \/ found]
          [] k = "upgrade" ->
                [r EXCEPT !.fl_upgrade_found = @ \/ IsWebsocket(s)]
          [] k = "sec-websocket-protocol" ->
                [r EXCEPT !.protocols = @ \cup Items(s)]
          [] OTHER -> r

HasColon(line) == Colons(line) # {}

KeyOf(line) == NameOf(tolower(SubSeq(line, 1, Min(Colons(line)) - 1)))

ValueOf(line) == SubSeq(line, Min(Colons(line)) + 1, Len(line))

\* Seeded fault: a line without a colon is skipped.
Complete_Lenient(r, found) ==
    IF HasColon(r.line)
    THEN _process(r, KeyOf(r.line), ValueOf(r.line), found)
    ELSE r

\* A header is processed when the line after it shows that it is complete.
Complete(r, found) ==
    CASE r.line = <<>> -> r
      [] r.line # <<>> /\ ~HasColon(r.line) -> [r EXCEPT !.error = TRUE]
      [] OTHER -> _process(r, KeyOf(r.line), ValueOf(r.line), found)

IsFold(line) == line # <<>> /\ line[1] = Space

\* rq_add_line in ST_HEADER: a folded line is put at the end of h->line,
\* without its first space and with nothing in between.
rq_add_line(r, line, found) ==
    IF IsFold(line)
    THEN [r EXCEPT !.line = @ \o Tail(line)]
    ELSE LET d == [r EXCEPT !.done = (line = <<>>)]
             c == Complete(d, found)
         IN  IF c.error \/ line = <<>> THEN c
             ELSE [c EXCEPT !.line = line]

-----------------------------------------------------------------------------
(***************************************************************************)
(* rq_analyze                                                              *)
(***************************************************************************)

\* The checks, in their order: the status, and whether the request fails it.
Checks(r) ==
    << <<405, tolower(r.method) # Word("get")>>,
       <<403, ~config_check_origin(conf, r.str["origin"])>>,
       <<400, Word("xmpp") \notin r.protocols>>,
       <<400, r.str["sec-websocket-key"] = <<>>>>,
       <<400, conf.setting["host"] # NULL
                /\ r.str["host"] # conf.setting["host"]>>,
       <<400, ~r.fl_upgrade_found>>,
       <<400, ~r.fl_connection_found>>,
       <<404, conf.setting["resource"] # NULL
                /\ tolower(r.resource) # tolower(conf.setting["resource"])>>,
       <<426, r.str["sec-websocket-version"] # Word("13")>> >>

\* Seeded fault: the origin is checked only when the request names one.
rq_analyze_NoOrigin(r) ==
    LET failed == {i \in 1 .. Len(Checks(r)) :
                      Checks(r)[i][2] /\ (i = 2 => r.str["origin"] # <<>>)}
    IN  IF failed = {}
        THEN [status |-> 101, connection |-> r.str["connection"]]
        ELSE [status |-> Checks(r)[Min(failed)][1], connection |-> <<>>]

\* The first check that fails decides; the Connection header is echoed.
rq_analyze(r) ==
    LET failed == {i \in 1 .. Len(Checks(r)) : Checks(r)[i][2]}
    IN  IF failed = {}
        THEN [status |-> 101, connection |-> r.str["connection"]]
        ELSE [status |-> Checks(r)[Min(failed)][1], connection |-> <<>>]

-----------------------------------------------------------------------------
(***************************************************************************)
(* Actions                                                                 *)
(***************************************************************************)

NoResponse == [status |-> 0, connection |-> <<>>]

Init ==
    /\ ConfigInit
    /\ meant = Meaning(file) /\ indented = Indented(file)
    /\ phase = "config"
    /\ req = rq_create
    /\ response = NoResponse
    /\ asked = <<>>
    /\ last = <<>>
    /\ fields = [k \in Keys |-> <<>>]
    /\ broken = FALSE
    /\ next = 1
    /\ unusual = 0
    /\ undefined = FALSE

\* main reads the configuration; a file that does not parse ends the program.
Configure ==
    /\ phase = "config"
    /\ \/ ConfigToken  /\ UNCHANGED phase
       \/ ConfigDone   /\ phase' = "request"
       \/ ConfigFailed /\ phase' = "exit"
    /\ UNCHANGED <<meant, indented, requestVars>>

\* What wsconn_read_cb does once rq_add_line has turned req into r.
AfterLine(r) ==
    /\ req' = r
    /\ phase' = CASE r.error -> "closed"
                  [] ~r.error /\ r.done -> "answered"
                  [] OTHER -> phase
    /\ response' = IF ~r.error /\ r.done THEN rq_analyze(r) ELSE response
    /\ UNCHANGED <<configVars, meant, indented>>

\* The first line of the request.
RequestLine ==
    /\ phase = "request"
    /\ req.state = "START"
    /\ \E words \in RequestLines :
          /\ AfterLine(parse_request_line(req, words))
          /\ asked' = words
          /\ broken' = (Len(words) < 3)
    /\ UNCHANGED <<last, fields, next, unusual, undefined>>

\* What has been sent once `line' has: a folded line goes on with the header
\* before it, any other ends it.
Send(line) ==
    /\ last' = IF IsFold(line) THEN last \o Tail(line) ELSE line
    /\ fields' = IF ~IsFold(line) /\ HasColon(last) /\ KeyOf(last) \in Keys
                 THEN [fields EXCEPT ![KeyOf(last)] =
                          Append(@, str_trim_beginning(ValueOf(last)))]
                 ELSE fields
    /\ broken' = (~IsFold(line) /\ last # <<>> /\ ~HasColon(last))

\* The values _find_connection_upgrade returns while `line' is added.
Found(line) ==
    IF ~IsFold(line) /\ HasColon(req.line) /\ KeyOf(req.line) = "connection"
    THEN _find_connection_upgrade(Kept("connection", ValueOf(req.line)))
    ELSE {FALSE}

\* A line of the header, or the empty line that ends it.
AddLine(line) ==
    /\ phase = "request"
    /\ req.state = "HEADER"
    /\ \E found \in Found(line) : AfterLine(rq_add_line(req, line, found))
    /\ undefined' = (undefined \/ Found(line) = BOOLEAN)
    /\ Send(line)
    /\ UNCHANGED asked

\* A header of the browser, perhaps after it has left some out.
UsualLine ==
    \E i \in next .. Len(Usual) :
        /\ unusual' = unusual + (i - next)
        /\ unusual' <= MaxUnusual
        /\ next' = i + 1
        /\ AddLine(Usual[i])

\* Any other line, anywhere.
UnusualLine ==
    /\ unusual < MaxUnusual
    /\ \E line \in Unusual : AddLine(line)
    /\ unusual' = unusual + 1
    /\ UNCHANGED next

EmptyLine == AddLine(<<>>) /\ UNCHANGED <<next, unusual>>

Next == Configure \/ RequestLine \/ UsualLine \/ UnusualLine \/ EmptyLine

Spec == Init /\ [][Next]_vars

-----------------------------------------------------------------------------
(***************************************************************************)
(* A valid request, by what was sent and what the file means               *)
(***************************************************************************)

LastSent(k) == IF fields[k] = <<>> THEN <<>> ELSE fields[k][Len(fields[k])]

AllSent(k) == Range(fields[k])

\* The values that their buffer does not hold.
Long(k) == {v \in AllSent(k) : Len(v) > Capacity[k]}

OriginMeant ==
    meant.origins = {} \/
        \E pattern \in meant.origins :
            fnmatch(pattern, tolower(LastSent("origin")))

ProtocolMeant ==
    \E v \in AllSent("sec-websocket-protocol") : Word("xmpp") \in Tokens(v)

HostMeant ==
    meant.setting["host"] # NULL => LastSent("host") = meant.setting["host"]

UpgradeMeant ==
    \E v \in AllSent("upgrade") : IsWebsocket(v)

ConnectionMeant ==
    \E v \in AllSent("connection") :
        \E w \in Tokens(v) : tolower(w) = Word("upgrade")

ResourceMeant ==
    meant.setting["resource"] # NULL =>
        tolower(asked[2]) = tolower(meant.setting["resource"])

\* The defect of the request that a status is for.
Defect(status) ==
    CASE status = 405 -> tolower(asked[1]) # Word("get")
      [] status = 403 -> ~OriginMeant
      [] status = 400 -> \/ ~ProtocolMeant
                         \/ LastSent("sec-websocket-key") = <<>>
                         \/ ~HostMeant
                         \/ ~UpgradeMeant
                         \/ ~ConnectionMeant
      [] status = 404 -> ~ResourceMeant
      [] status = 426 -> LastSent("sec-websocket-version") # Word("13")

Statuses == {400, 403, 404, 405, 426}

\* Every value fits its buffer.
Fits ==
    /\ \A k \in Keys : Long(k) = {}
    /\ Len(asked[2]) <= Capacity["resource"]

-----------------------------------------------------------------------------
(***************************************************************************)
(* Properties                                                              *)
(***************************************************************************)

\* Types, and that nothing is ever stored beyond the size of a buffer.
TypeOK ==
    /\ phase \in {"config", "exit", "request", "closed", "answered"}
    /\ response.status \in Statuses \cup {0, 101}
    /\ \A k \in Stored : Len(req.str[k]) <= Capacity[k]
    /\ unusual \in 0 .. MaxUnusual
    /\ req.done \in BOOLEAN /\ req.error \in BOOLEAN
    /\ req.fl_upgrade_found \in BOOLEAN /\ req.fl_connection_found \in BOOLEAN

\* config_parse finds in the tokens what the author of the file wrote, at the
\* right level and under the right key, if origin lists are indented.
ConfAsWritten ==
    phase \notin {"config", "exit"} =>
        /\ conf.setting = meant.setting
        /\ conf.origin_list \in Seq(Strings)
        /\ indented => Range(conf.origin_list) = meant.origins

\* A request is accepted only if it has no defect, whatever the order of its
\* lines, repeated headers and folded lines, with two exceptions: a value that
\* is cut to the size of its buffer may become what it should be, a list by
\* its last item (never Upgrade, the version and the method, which are longer
\* than what is looked for even when they are cut); and the Connection header
\* may be wrong once _find_connection_upgrade has returned without a value.
AcceptedOnlyValid ==
    response.status = 101 /\ indented =>
        /\ ~Defect(405) /\ ~Defect(426) /\ UpgradeMeant
        /\ LastSent("sec-websocket-key") # <<>>
        /\ OriginMeant \/ LastSent("origin") \in Long("origin")
        /\ HostMeant \/ LastSent("host") \in Long("host")
        /\ ResourceMeant \/ Len(asked[2]) > Capacity["resource"]
        /\ ProtocolMeant \/ Long("sec-websocket-protocol") # {}
        /\ ConnectionMeant \/ Long("connection") # {} \/ undefined

\* A request is refused only for a defect it has, the one its status is for,
\* so that a valid one whose values fit is accepted.  (An origin that stands
\* only in a list that is not indented is refused.)
RefusedForDefect ==
    response.status \in Statuses /\ Fits /\ (response.status = 403 => indented) =>
        Defect(response.status)

\* A request with a broken line is never answered, not even when the line is
\* the last and only the empty line shows that it is complete; and no other
\* request is dropped without an answer.
AnsweredUnlessBroken ==
    /\ phase = "answered" => ~broken
    /\ phase = "closed" => broken

\* The answer to a request with one Connection header tells the browser that
\* the connection is upgraded: splitting the list has not spoilt it.  (Except
\* when _find_connection_upgrade has returned without a value: the header that
\* is sent back may then lack "Upgrade".)
EchoesUpgrade ==
    /\ response.status = 101
    /\ Len(fields["connection"]) = 1
    /\ ~undefined
    => \E w \in Tokens(response.connection) : tolower(w) = Word("upgrade")

-----------------------------------------------------------------------------
(***************************************************************************)
(* What a comment of the source says and the code does not do              *)
(***************************************************************************)

\* rqparser.h says of rq_analyze: "@return - 1 - the request was valid".
AcceptedIsValid ==
    response.status = 101 /\ indented /\ Fits =>
        \A status \in Statuses : ~Defect(status)

=============================================================================
