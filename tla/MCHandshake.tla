----------------------------- MODULE MCHandshake -----------------------------
(***************************************************************************)
(* Handshake for TLC: files of up to two entries, the headers a browser    *)
(* sends, and up to MaxUnusual lines that differ.  A name is one symbol;   *)
(* host and origin are several, and a longer text is a name with a rest    *)
(* behind it, so that a buffer may keep just the name.                     *)
(***************************************************************************)
EXTENDS Handshake

MCSpelling == [n \in Names |-> <<Sym(n)>>]

MCCapacity ==
    [b \in Buffers |-> CASE b = "connection" -> 4
                         [] b \in {"sec-websocket-protocol", "origin"} -> 3
                         [] b = "resource" -> 1
                         [] OTHER -> 2]

Piece(t) == <<Sym(t)>>
Upper(s) == [i \in 1 .. Len(s) |-> [s[i] EXCEPT !.upper = TRUE]]
Rest == Piece("rest")
Server == Piece("exam") \o Piece("ple")
Origin(t) == Piece("http") \o <<Colon>> \o Piece(t)

Entry(k, layout, words) == [key |-> k, layout |-> layout, words |-> words]

Entries ==
    {Entry("host", "scalar", <<Server>>),
     Entry("resource", "scalar", <<Upper(Piece("/mychat"))>>),
     Entry("origin", "list", <<Upper(Origin("a")), Origin("b")>>),
     Entry("origin", "list", <<Piece("http") \o <<Star>>>>),
     Entry("origin", "flush", <<Origin("c")>>),
     Entry("origin", "brackets", <<Origin("a")>>),
     Entry("other", "mapping", <<Word("host"), Piece("elsewhere")>>)}

MCFiles == UNION {[1 .. n -> Entries] : n \in 1 .. 2}

MCRequestLines ==
    {<<Word("get"), Piece("/mychat"), Piece("http/1.1")>>,
     <<Upper(Word("get")), Piece("/mychat") \o Rest, Piece("http/1.1")>>,
     <<Piece("post"), Piece("/mychat"), Piece("http/1.1")>>,
     <<Word("get"), Piece("/mychat")>>}

Header(k, v) == Word(k) \o <<Colon, Space>> \o v

List(v, w) == v \o <<Comma, Space>> \o w

MCUsual ==
    <<Header("host", Server),
      Header("upgrade", Word("websocket")),
      Header("connection", List(Piece("keep-alive"), Upper(Word("upgrade")))),
      Header("sec-websocket-key", Piece("key")),
      Header("origin", Origin("b")),
      Header("sec-websocket-protocol", Word("xmpp")),
      Header("sec-websocket-version", Word("13"))>>

MCUnusual ==
    {Header("host", Piece("exam")),
     Upper(Word("upgrade")) \o <<Colon>> \o Upper(Word("websocket")),
     Header("upgrade", Word("websocket") \o <<Space>>),
     Header("connection", Piece("close")),
     Header("connection", List(Word("upgrade") \o <<Space>>, Piece("close"))),
     Header("connection", List(Piece("close"), Word("upgrade") \o Rest)),
     Header("connection", List(List(Piece("close"), Piece("te")), Word("upgrade"))),
     Header("sec-websocket-protocol", List(Upper(Word("xmpp")), <<>>)),
     Header("sec-websocket-protocol", Piece("soap") \o <<Comma>> \o Word("xmpp") \o Rest),
     Header("origin", Upper(Origin("a"))),
     Header("origin", Origin("b") \o Rest),
     Header("other", Piece("other")),
     <<Space>> \o Piece("ple"),
     <<Space>> \o Word("upgrade"),
     <<Space, Comma>> \o Word("xmpp"),
     <<Space>> \o Header("upgrade", Word("websocket")),
     <<Space>>,
     Piece("nocolon")}

=============================================================================
