------------------------------- MODULE Config --------------------------------
(***************************************************************************)
(* The configuration file (parseconfig.c).                                 *)
(*                                                                         *)
(* config_parse reads tokens, not the tree: it follows `level',            *)
(* `prev_token' and the last `key' and takes a scalar for a setting or for *)
(* an origin by these three.  A file is a sequence of entries at its top   *)
(* level; libyaml scans it part by part: what comes before the entries,    *)
(* each entry, and what comes behind them.                                 *)
(***************************************************************************)
EXTENDS Text

CONSTANTS
    NULL,       \* a setting that is not in the file
    Files       \* the configuration files

VARIABLES
    file,       \* the file while it is read, then empty
    scanned,    \* the part and the token in it that yaml_parser_scan returns next
    parser,     \* the variables of config_parse
    conf        \* the jsconf_t, once config_parse has returned

configVars == <<file, scanned, parser, conf>>

-----------------------------------------------------------------------------
(***************************************************************************)
(* Files and their tokens                                                  *)
(***************************************************************************)

\* The settings a request is checked against; the others (port, listen,
\* log_level, the two sizes) are found in the same way.
Settings == {"host", "resource"}

\* An entry `key: value'; a list with its dashes indented, or flush with the
\* key, or in brackets; or a mapping under the key, with one entry.
Layout == {"scalar", "list", "flush", "brackets", "mapping"}

ConfigEntry ==
    {e \in [key : Names, layout : Layout, words : Seq(Strings)] :
        /\ e.layout = "scalar" => Len(e.words) = 1
        /\ e.layout = "mapping" => Len(e.words) = 2}

ASSUME FilesAssumption == Files \subseteq Seq(ConfigEntry)

Token(type, word) == [type |-> type, word |-> word]

NoWord == <<>>

\* A dash and a scalar for each item of a list.
ScanItems(words) ==
    [n \in 1 .. 2 * Len(words) |->
        IF n % 2 = 1 THEN Token("BLOCK_ENTRY", NoWord)
        ELSE Token("SCALAR", words[n \div 2])]

\* libyaml starts a block sequence only where the indentation grows.
ScanValue(e) ==
    CASE e.layout = "scalar"   -> <<Token("SCALAR", e.words[1])>>
      [] e.layout = "list"     -> <<Token("BLOCK_SEQUENCE_START", NoWord)>>
                                  \o ScanItems(e.words)
                                  \o <<Token("BLOCK_END", NoWord)>>
      [] e.layout = "flush"    -> ScanItems(e.words)
      [] e.layout = "brackets" -> <<Token("FLOW_SEQUENCE_START", NoWord)>>
      [] e.layout = "mapping"  -> <<Token("BLOCK_MAPPING_START", NoWord),
                                    Token("KEY", NoWord),
                                    Token("SCALAR", e.words[1]),
                                    Token("VALUE", NoWord),
                                    Token("SCALAR", e.words[2]),
                                    Token("BLOCK_END", NoWord)>>

Scan(f, part) ==
    CASE part = 0 -> <<Token("STREAM_START", NoWord),
                       Token("BLOCK_MAPPING_START", NoWord)>>
      [] part \in 1 .. Len(f) -> <<Token("KEY", NoWord),
                                   Token("SCALAR", Word(f[part].key)),
                                   Token("VALUE", NoWord)>> \o ScanValue(f[part])
      [] part = Len(f) + 1 -> <<Token("BLOCK_END", NoWord), Token("STREAM_END", NoWord)>>

\* What yaml_parser_scan returns next.
Upcoming == Scan(file, scanned.part)[scanned.token]

-----------------------------------------------------------------------------
(***************************************************************************)
(* config_parse                                                            *)
(***************************************************************************)

config_create ==
    [setting |-> [s \in Settings |-> NULL], origin_list |-> <<>>]

Start == [level |-> 0, prev_token |-> "NO", key |-> "other", conf |-> config_create]

Nesting(type) == type \in {"BLOCK_SEQUENCE_START", "BLOCK_MAPPING_START"}

Expected(type) ==
    \/ Nesting(type)
    \/ type \in {"STREAM_START", "STREAM_END", "KEY", "VALUE", "BLOCK_ENTRY",
                 "BLOCK_END", "SCALAR"}

\* Seeded fault: a value is taken at any level.
Scalar_AnyLevel(p, w) ==
    CASE p.prev_token = "KEY" -> [p EXCEPT !.key = NameOf(w)]
      [] p.prev_token = "BLOCK_ENTRY" /\ p.level = 2 /\ p.key = "origin" ->
            [p EXCEPT !.conf.origin_list = <<tolower(w)>> \o @]
      [] p.prev_token = "VALUE" /\ p.key \in Settings ->
            [p EXCEPT !.conf.setting[p.key] = w]
      [] OTHER -> p

\* The scalar w: a key, an origin, a setting, or nothing that is known.
Scalar(p, w) ==
    CASE p.prev_token = "KEY" -> [p EXCEPT !.key = NameOf(w)]
      [] p.prev_token = "BLOCK_ENTRY" /\ p.level = 2 /\ p.key = "origin" ->
            [p EXCEPT !.conf.origin_list = <<tolower(w)>> \o @]
      [] p.prev_token = "VALUE" /\ p.level = 1 /\ p.key \in Settings ->
            [p EXCEPT !.conf.setting[p.key] = w]
      [] OTHER -> p

\* One turn of the loop.
ParseToken(p, token) ==
    LET q == IF token.type = "SCALAR" THEN Scalar(p, token.word) ELSE p
    IN  [q EXCEPT !.prev_token = token.type,
                  !.level = CASE Nesting(token.type) -> @ + 1
                              [] token.type = "BLOCK_END" -> @ - 1
                              [] OTHER -> @]

ConfigInit ==
    /\ file \in Files
    /\ scanned = [part |-> 0, token |-> 1]
    /\ parser = Start
    /\ conf = config_create

ConfigToken ==
    /\ Expected(Upcoming.type) /\ Upcoming.type # "STREAM_END"
    /\ parser' = ParseToken(parser, Upcoming)
    /\ scanned' = IF scanned.token < Len(Scan(file, scanned.part))
                  THEN [scanned EXCEPT !.token = @ + 1]
                  ELSE [part |-> scanned.part + 1, token |-> 1]
    /\ UNCHANGED <<file, conf>>

\* config_parse returns.
Finished ==
    /\ file' = <<>>
    /\ scanned' = [part |-> 0, token |-> 1]
    /\ parser' = Start

\* With 1, at the end of the stream.
ConfigDone ==
    /\ Upcoming.type = "STREAM_END"
    /\ conf' = parser.conf
    /\ Finished

\* With 0: the file cannot be opened, or a token is not expected.
ConfigFailed ==
    /\ parser = Start \/ ~Expected(Upcoming.type)
    /\ Finished
    /\ UNCHANGED conf

\* An empty list accepts every origin.
config_check_origin(c, origin) ==
    \/ c.origin_list = <<>>
    \/ \E i \in 1 .. Len(c.origin_list) : fnmatch(c.origin_list[i], origin)

-----------------------------------------------------------------------------
(***************************************************************************)
(* What the author of the file means (doc/jabsocket.ad)                    *)
(***************************************************************************)

\* The last entry for a setting counts; every item of every origin list does.
Meaning(f) ==
    [setting |-> [s \in Settings |->
        LET at == {i \in 1 .. Len(f) : f[i].key = s /\ f[i].layout = "scalar"}
        IN  IF at = {} THEN NULL
            ELSE f[CHOOSE i \in at : \A j \in at : j <= i].words[1]],
     origins |-> {tolower(w) : w \in UNION {Range(f[i].words) :
        i \in {j \in 1 .. Len(f) : f[j].key = "origin"
                                     /\ f[j].layout \in {"list", "flush"}}}}]

\* All origin lists are indented, as in the examples of the documentation.
Indented(f) ==
    \A i \in 1 .. Len(f) : f[i].layout = "flush" => f[i].key # "origin"

=============================================================================
