---------------------------- MODULE HandshakeProofs ----------------------------
(***************************************************************************)
(* Proofs about Handshake: for any configuration files, any lines in any   *)
(* order and any size of the buffers, what rq_analyze looks at is what the *)
(* request said, cut to the buffers, and what it is compared with is what  *)
(* the file says.                                                          *)
(***************************************************************************)
EXTENDS Handshake, Integers, NaturalsInduction, WellFoundedInduction, TLAPS

-----------------------------------------------------------------------------
(***************************************************************************)
(* Strings                                                                 *)
(***************************************************************************)

\* A set of numbers has a least one.
LEMMA Least ==
  ASSUME NEW S \in SUBSET Nat, S # {}
  PROVE  Min(S) \in S /\ \A j \in S : Min(S) <= j
<1>1. \E i \in S : \A j \in S : i <= j
  <2>1. PICK R : R = OpToRel(<, Nat)
    BY Zenon
  <2>2. IsWellFoundedOn(R, Nat)
    BY Zenon, <2>1, NatLessThanWellFounded
  <2>3. PICK x \in S : \A y \in S : ~(<<y, x>> \in R)
    BY <2>2, WFMin
  <2>4. \A y \in S : y < x => <<y, x>> \in R
    BY <2>1 DEF OpToRel
  <2>5. \A y \in S : ~(y < x)
    BY Zenon, <2>3, <2>4
  <2> QED
    BY <2>5
<1> QED
  BY <1>1 DEF Min

\* A bounded set of numbers has a greatest one.
LEMMA Greatest ==
  ASSUME NEW n \in Nat, NEW S \in SUBSET (1 .. n), S # {}
  PROVE  Max(S) \in S /\ \A j \in S : j <= Max(S)
<1> DEFINE T == {n - i : i \in S}
<1>1. T \in SUBSET Nat /\ T # {}
  OBVIOUS
<1>2. Min(T) \in T /\ \A j \in T : Min(T) <= j
  BY <1>1, Least
<1>3. PICK i \in S : Min(T) = n - i
  BY <1>2
<1>4. \A j \in S : n - i <= n - j
  BY <1>2, <1>3
<1>5. \A j \in S : j <= i
  BY <1>4
<1> QED
  BY <1>5 DEF Max

\* What a buffer keeps of a string: all of it if it fits, and only what fits.
LEMMA CutShape ==
  ASSUME NEW s \in Strings, NEW n \in Nat
  PROVE  /\ str_set_string(s, n) \in Strings
         /\ Len(str_set_string(s, n)) <= n
         /\ Len(s) <= n => str_set_string(s, n) = s
         /\ Len(str_set_string(s, n)) < n => str_set_string(s, n) = s
<1>1. Len(s) \in Nat
  BY DEF Strings
<1>2. CASE Len(s) <= n
  BY <1>1, <1>2 DEF str_set_string
<1>3. CASE Len(s) > n
  <2>1. str_set_string(s, n) = SubSeq(s, 1, n)
    BY <1>1, <1>3 DEF str_set_string
  <2>2. SubSeq(s, 1, n) \in Strings /\ Len(SubSeq(s, 1, n)) = n
    BY <1>1, <1>3 DEF Strings
  <2> QED
    BY <1>1, <1>3, <2>1, <2>2
<1> QED
  BY <1>1, <1>2, <1>3

\* Small letters.
LEMMA LowerShape ==
  ASSUME NEW s \in Strings
  PROVE  tolower(s) \in Strings /\ Len(tolower(s)) = Len(s)
<1>1. Len(s) \in Nat /\ \A i \in 1 .. Len(s) : s[i] \in Symbol
  BY DEF Strings
<1>2. \A i \in 1 .. Len(s) : [text |-> s[i].text, upper |-> FALSE] \in Symbol
  BY <1>1 DEF Symbol
<1> QED
  BY <1>1, <1>2 DEF tolower, Strings

\* A part of a string is a string.
LEMMA PartString ==
  ASSUME NEW s \in Strings, NEW i \in 1 .. Len(s) + 1, NEW j \in 0 .. Len(s)
  PROVE  SubSeq(s, i, j) \in Strings
<1>1. Len(s) \in Nat /\ i \in Nat /\ j \in Nat /\ \A n \in 1 .. Len(s) : s[n] \in Symbol
  BY DEF Strings
<1>2. \A n \in i .. j : n \in 1 .. Len(s)
  BY <1>1
<1> QED
  BY <1>1, <1>2 DEF Strings

\* What is trimmed is a string.
LEMMA TrimShape ==
  ASSUME NEW s \in Strings
  PROVE  str_trim_beginning(s) \in Strings /\ str_trim_whitespace(s) \in Strings
<1>1. Len(s) \in Nat /\ Solid(s) \in SUBSET (1 .. Len(s)) /\ <<>> \in Strings
  BY DEF Strings, Solid
<1>2. CASE Solid(s) = {}
  BY <1>1, <1>2 DEF str_trim_beginning, str_trim_whitespace
<1>3. CASE Solid(s) # {}
  <2>1. Min(Solid(s)) \in Solid(s)
    <3>1. Solid(s) \in SUBSET Nat
      BY <1>1
    <3> QED
      BY <1>3, <3>1, Least
  <2>2. Max(Solid(s)) \in Solid(s)
    BY <1>1, <1>3, Greatest
  <2>3. /\ Min(Solid(s)) \in 1 .. Len(s) + 1 /\ Max(Solid(s)) \in 0 .. Len(s)
        /\ Len(s) \in 0 .. Len(s)
    BY <1>1, <2>1, <2>2
  <2>4. /\ SubSeq(s, Min(Solid(s)), Len(s)) \in Strings
        /\ SubSeq(s, Min(Solid(s)), Max(Solid(s))) \in Strings
    BY <2>3, PartString
  <2> QED
    BY <1>3, <2>4 DEF str_trim_beginning, str_trim_whitespace
<1> QED
  BY <1>2, <1>3

\* The items of a list are strings.
LEMMA TokenStrings ==
  ASSUME NEW s \in Strings
  PROVE  Tokens(s) \in SUBSET Strings
<1>1. Len(s) \in Nat
  BY DEF Strings
<1>2. \A i \in 1 .. Len(s) : \A j \in i .. Len(s) :
         i \in 1 .. Len(s) + 1 /\ j \in 0 .. Len(s)
  BY <1>1
<1>3. \A i \in 1 .. Len(s) : \A j \in i .. Len(s) :
         str_trim_whitespace(SubSeq(s, i, j)) \in Strings
  BY <1>2, PartString, TrimShape
<1> QED
  BY <1>3 DEF Tokens

\* The value behind the first colon of a line is a string.
LEMMA ValueString ==
  ASSUME NEW s \in Strings, HasColon(s)
  PROVE  ValueOf(s) \in Strings
<1>1. Len(s) \in Nat /\ Colons(s) \in SUBSET (1 .. Len(s)) /\ Colons(s) # {}
  BY DEF Strings, Colons, HasColon
<1>2. Min(Colons(s)) \in Colons(s)
  <2>1. Colons(s) \in SUBSET Nat
    BY <1>1
  <2> QED
    BY <1>1, <2>1, Least
<1>3. Min(Colons(s)) + 1 \in 1 .. Len(s) + 1 /\ Len(s) \in 0 .. Len(s)
  BY <1>1, <1>2
<1> QED
  BY <1>3, PartString DEF ValueOf

\* The strings that the source compares with, and their names.
LEMMA WordShape ==
  ASSUME NEW n \in Names
  PROVE  Word(n) \in Strings /\ NameOf(Word(n)) = n
<1>1. Word(n) \in Strings /\ \A m \in Names : Word(m) = Word(n) => m = n
  BY SpellingAssumption DEF Word
<1> QED
  BY <1>1 DEF NameOf

\* Every string has a name.
LEMMA NameShape ==
  ASSUME NEW s
  PROVE  NameOf(s) \in Names
<1>1. "other" \in Names
  BY DEF Names
<1> QED
  BY <1>1 DEF NameOf

\* Only the first check that fails counts, and there is one.
LEMMA First ==
  ASSUME NEW S \in SUBSET (1 .. 9), S # {}
  PROVE  Min(S) \in S
<1>1. PICK a \in S : TRUE
  OBVIOUS
<1>2. \E x \in S : \A y \in S : x <= y
  <2>1. \A x \in S : x \in {1, 2, 3, 4, 5, 6, 7, 8, 9}
    OBVIOUS
  <2> QED
    BY <1>1, <2>1
<1> QED
  BY <1>2 DEF Min

-----------------------------------------------------------------------------
(***************************************************************************)
(* The request_t                                                           *)
(***************************************************************************)

\* What a buffer keeps of y.
Cut(k, y) == str_set_string(y, Capacity[k])

Request ==
    [state : {"START", "HEADER"}, line : Strings, done : BOOLEAN,
     error : BOOLEAN, method : Strings, resource : Strings,
     str : [Stored -> Strings], protocols : SUBSET Strings,
     fl_upgrade_found : BOOLEAN, fl_connection_found : BOOLEAN]

\* Every buffer has a size.
LEMMA Sizes == \A k \in Buffers : Capacity[k] \in Nat /\ Capacity[k] > 0
  BY CapacityAssumption

\* The keys are names with a buffer.
LEMMA KeyShape ==
  /\ Stored \subseteq Keys /\ Keys \subseteq Buffers
  /\ "token" \in Buffers /\ "method" \in Buffers /\ "resource" \in Buffers
  BY DEF Stored, Keys, Buffers

\* What is kept of a value.
LEMMA CutString ==
  ASSUME NEW k \in Buffers, NEW y \in Strings
  PROVE  /\ Cut(k, y) \in Strings
         /\ Len(Cut(k, y)) <= Capacity[k]
         /\ Len(y) <= Capacity[k] => Cut(k, y) = y
         /\ Len(Cut(k, y)) < Capacity[k] => Cut(k, y) = y
  BY CutShape, Sizes DEF Cut

\* What is kept of the items of a list.
LEMMA ItemStrings ==
  ASSUME NEW s \in Strings
  PROVE  Items(s) \in SUBSET Strings
<1>1. Tokens(s) \in SUBSET Strings /\ Capacity["token"] \in Nat
  BY TokenStrings, Sizes, KeyShape
<1>2. \A w \in Tokens(s) : str_set_string(w, Capacity["token"]) \in Strings
  BY <1>1, CutShape
<1> QED
  BY <1>2 DEF Items

\* r with what a header may change.
Filled(r, x, p, u, c) ==
    [r EXCEPT !.str = x, !.protocols = p, !.fl_upgrade_found = u,
              !.fl_connection_found = c]

\* Its fields.
LEMMA FilledShape ==
  ASSUME NEW r \in Request, NEW x \in [Stored -> Strings],
         NEW p \in SUBSET Strings, NEW u \in BOOLEAN, NEW c \in BOOLEAN
  PROVE  /\ Filled(r, x, p, u, c) \in Request
         /\ Filled(r, x, p, u, c).state = r.state
         /\ Filled(r, x, p, u, c).line = r.line
         /\ Filled(r, x, p, u, c).done = r.done
         /\ Filled(r, x, p, u, c).error = r.error
         /\ Filled(r, x, p, u, c).method = r.method
         /\ Filled(r, x, p, u, c).resource = r.resource
         /\ Filled(r, x, p, u, c).str = x
         /\ Filled(r, x, p, u, c).protocols = p
         /\ Filled(r, x, p, u, c).fl_upgrade_found = u
         /\ Filled(r, x, p, u, c).fl_connection_found = c
  BY DEF Filled, Request

\* What _process stores for a header.
StrOf(r, k, s) ==
    CASE k \in Stored \ {"origin"} -> [r.str EXCEPT ![k] = s]
      [] k = "origin" -> [r.str EXCEPT ![k] = tolower(s)]
      [] OTHER -> r.str

ProtocolsOf(r, k, s) ==
    IF k = "sec-websocket-protocol" THEN r.protocols \cup Items(s) ELSE r.protocols

UpgradeOf(r, k, s) ==
    IF k = "upgrade" THEN r.fl_upgrade_found \/ IsWebsocket(s)
    ELSE r.fl_upgrade_found

ConnectionOf(r, k, found) ==
    IF k = "connection" THEN r.fl_connection_found \/ found
    ELSE r.fl_connection_found

\* _process changes nothing else.
LEMMA ProcessFills ==
  ASSUME NEW r \in Request, NEW k \in Keys, NEW v \in Strings,
         NEW found \in BOOLEAN
  PROVE  LET s == Kept(k, v)
         IN  /\ _process(r, k, v, found) =
                   Filled(r, StrOf(r, k, s), ProtocolsOf(r, k, s),
                          UpgradeOf(r, k, s), ConnectionOf(r, k, found))
             /\ StrOf(r, k, s) \in [Stored -> Strings]
             /\ ProtocolsOf(r, k, s) \in SUBSET Strings
             /\ UpgradeOf(r, k, s) \in BOOLEAN
             /\ ConnectionOf(r, k, found) \in BOOLEAN
<1> DEFINE s == Kept(k, v)
           o == tolower(s)
           t == Items(s)
           b == IsWebsocket(s)
<1>1. s \in Strings
  BY KeyShape, TrimShape, CutString DEF Kept, Cut
<1>2. o \in Strings /\ t \in SUBSET Strings
  BY <1>1, LowerShape, ItemStrings
<1>3. b \in BOOLEAN
  BY DEF IsWebsocket
<1>4. _process(r, k, v, found) =
        CASE k \in Stored \ {"origin", "connection"} -> [r EXCEPT !.str[k] = s]
          [] k = "origin" -> [r EXCEPT !.str[k] = o]
          [] k = "connection" ->
                [r EXCEPT !.str[k] = s, !.fl_connection_found = @ \/ found]
          [] k = "upgrade" -> [r EXCEPT !.fl_upgrade_found = @ \/ b]
          [] k = "sec-websocket-protocol" -> [r EXCEPT !.protocols = @ \cup t]
          [] OTHER -> r
  BY DEF _process
<1>5. /\ StrOf(r, k, s) = CASE k \in Stored \ {"origin"} -> [r.str EXCEPT ![k] = s]
                            [] k = "origin" -> [r.str EXCEPT ![k] = o]
                            [] OTHER -> r.str
      /\ ProtocolsOf(r, k, s) = IF k = "sec-websocket-protocol"
                                THEN r.protocols \cup t ELSE r.protocols
      /\ UpgradeOf(r, k, s) = IF k = "upgrade"
                              THEN r.fl_upgrade_found \/ b ELSE r.fl_upgrade_found
  BY DEF StrOf, ProtocolsOf, UpgradeOf
<1> HIDE DEF s, o, t, b
<1>6. /\ r.str \in [Stored -> Strings] /\ r.protocols \in SUBSET Strings
      /\ r.fl_upgrade_found \in BOOLEAN /\ r.fl_connection_found \in BOOLEAN
  BY DEF Request
<1>7. /\ StrOf(r, k, s) \in [Stored -> Strings]
      /\ ProtocolsOf(r, k, s) \in SUBSET Strings
      /\ UpgradeOf(r, k, s) \in BOOLEAN
      /\ ConnectionOf(r, k, found) \in BOOLEAN
  BY <1>1, <1>2, <1>3, <1>5, <1>6 DEF ConnectionOf
<1>8. _process(r, k, v, found) =
         Filled(r, StrOf(r, k, s), ProtocolsOf(r, k, s),
                UpgradeOf(r, k, s), ConnectionOf(r, k, found))
  <2>1. CASE k \in Stored \ {"origin", "connection"}
    <3>1. _process(r, k, v, found) = [r EXCEPT !.str[k] = s]
      BY <1>4, <2>1 DEF Stored, Keys
    <3>2. /\ StrOf(r, k, s) = [r.str EXCEPT ![k] = s]
          /\ ProtocolsOf(r, k, s) = r.protocols
          /\ UpgradeOf(r, k, s) = r.fl_upgrade_found
          /\ ConnectionOf(r, k, found) = r.fl_connection_found
      BY <1>5, <2>1 DEF ConnectionOf, Stored, Keys
    <3>3. k \in Stored
      BY <2>1 DEF Stored, Keys
    <3> QED
      BY <3>1, <3>2, <3>3 DEF Request, Filled
  <2>2. CASE k = "origin"
    <3>1. _process(r, k, v, found) = [r EXCEPT !.str[k] = o]
      BY <1>4, <2>2 DEF Stored, Keys
    <3>2. /\ StrOf(r, k, s) = [r.str EXCEPT ![k] = o]
          /\ ProtocolsOf(r, k, s) = r.protocols
          /\ UpgradeOf(r, k, s) = r.fl_upgrade_found
          /\ ConnectionOf(r, k, found) = r.fl_connection_found
      BY <1>5, <2>2 DEF ConnectionOf, Stored, Keys
    <3>3. k \in Stored
      BY <2>2 DEF Stored, Keys
    <3> QED
      BY <3>1, <3>2, <3>3 DEF Request, Filled
  <2>3. CASE k = "connection"
    <3>1. _process(r, k, v, found) =
           [r EXCEPT !.str[k] = s, !.fl_connection_found = @ \/ found]
      BY <1>4, <2>3 DEF Stored, Keys
    <3>2. /\ StrOf(r, k, s) = [r.str EXCEPT ![k] = s]
          /\ ProtocolsOf(r, k, s) = r.protocols
          /\ UpgradeOf(r, k, s) = r.fl_upgrade_found
          /\ ConnectionOf(r, k, found) = (r.fl_connection_found \/ found)
      BY <1>5, <2>3 DEF ConnectionOf, Stored, Keys
    <3>3. k \in Stored
      BY <2>3 DEF Stored, Keys
    <3> QED
      BY <3>1, <3>2, <3>3 DEF Request, Filled
  <2>4. CASE k = "upgrade"
    <3>1. _process(r, k, v, found) = [r EXCEPT !.fl_upgrade_found = @ \/ b]
      BY <1>4, <2>4 DEF Stored, Keys
    <3>2. /\ StrOf(r, k, s) = r.str /\ ProtocolsOf(r, k, s) = r.protocols
          /\ UpgradeOf(r, k, s) = (r.fl_upgrade_found \/ b)
          /\ ConnectionOf(r, k, found) = r.fl_connection_found
      BY <1>5, <2>4 DEF ConnectionOf, Stored, Keys
    <3> QED
      BY <3>1, <3>2 DEF Request, Filled
  <2>5. CASE k = "sec-websocket-protocol"
    <3>1. _process(r, k, v, found) = [r EXCEPT !.protocols = @ \cup t]
      BY <1>4, <2>5 DEF Stored, Keys
    <3>2. /\ StrOf(r, k, s) = r.str /\ ProtocolsOf(r, k, s) = r.protocols \cup t
          /\ UpgradeOf(r, k, s) = r.fl_upgrade_found
          /\ ConnectionOf(r, k, found) = r.fl_connection_found
      BY <1>5, <2>5 DEF ConnectionOf, Stored, Keys
    <3> QED
      BY <3>1, <3>2 DEF Request, Filled
  <2> QED
    BY <2>1, <2>2, <2>3, <2>4, <2>5 DEF Stored, Keys
<1> QED
  BY <1>7, <1>8 DEF s

-----------------------------------------------------------------------------
(***************************************************************************)
(* What has been recorded                                                  *)
(***************************************************************************)

\* "Upgrade" is in the list s.
Upgrades(s) == \E w \in Items(s) : tolower(w) = Word("upgrade")

\* What is kept of the last of the first n[k] values of key k.
Final(f, n, k) == IF n[k] = 0 THEN <<>> ELSE Cut(k, f[k][n[k]])

\* r holds what the first n[k] values of each key k say; u: undefined.
Recorded(r, f, n, u) ==
    /\ \A k \in Stored \ {"origin"} : r.str[k] = Final(f, n, k)
    /\ r.str["origin"] = tolower(Final(f, n, "origin"))
    /\ \A w : w \in r.protocols <=>
          \E i \in 1 .. n["sec-websocket-protocol"] :
             w \in Items(Cut("sec-websocket-protocol", f["sec-websocket-protocol"][i]))
    /\ r.fl_upgrade_found <=>
          \E i \in 1 .. n["upgrade"] :
             IsWebsocket(Cut("upgrade", f["upgrade"][i]))
    /\ r.fl_connection_found =>
          \/ u
          \/ \E i \in 1 .. n["connection"] :
                Upgrades(Cut("connection", f["connection"][i]))
    /\ \A i \in 1 .. n["connection"] :
          Upgrades(Cut("connection", f["connection"][i])) => r.fl_connection_found

Fields == [Keys -> Seq(Strings)]

\* It depends on those values only, and on what Filled sets.
LEMMA RecordedKept ==
  ASSUME NEW r \in Request, NEW q \in Request, NEW f \in Fields, NEW g \in Fields,
         NEW n \in [Keys -> Nat], NEW u \in BOOLEAN,
         q.str = r.str, q.protocols = r.protocols,
         q.fl_upgrade_found = r.fl_upgrade_found,
         q.fl_connection_found = r.fl_connection_found,
         \A k \in Keys : \A i \in 1 .. n[k] : g[k][i] = f[k][i],
         Recorded(r, f, n, u)
  PROVE  Recorded(q, g, n, u)
<1>1. \A k \in Keys : Final(g, n, k) = Final(f, n, k)
  <2> SUFFICES ASSUME NEW k \in Keys
               PROVE  Final(g, n, k) = Final(f, n, k)
    OBVIOUS
  <2>1. n[k] # 0 => n[k] \in 1 .. n[k]
    OBVIOUS
  <2> QED
    BY <2>1 DEF Final
<1>2. \A k \in Stored : k \in Keys
  BY DEF Stored
<1>3. /\ "origin" \in Keys /\ "connection" \in Keys /\ "upgrade" \in Keys
      /\ "sec-websocket-protocol" \in Keys
  BY DEF Keys
<1>4. /\ \A k \in Stored \ {"origin"} : q.str[k] = Final(g, n, k)
      /\ q.str["origin"] = tolower(Final(g, n, "origin"))
  BY <1>1, <1>2, <1>3 DEF Recorded
<1>5. \A w : w \in q.protocols <=>
          \E i \in 1 .. n["sec-websocket-protocol"] :
             w \in Items(Cut("sec-websocket-protocol", g["sec-websocket-protocol"][i]))
  BY <1>3 DEF Recorded
<1>6. q.fl_upgrade_found <=>
          \E i \in 1 .. n["upgrade"] :
             IsWebsocket(Cut("upgrade", g["upgrade"][i]))
  BY <1>3 DEF Recorded
<1>7. /\ q.fl_connection_found =>
            \/ u
            \/ \E i \in 1 .. n["connection"] :
                  Upgrades(Cut("connection", g["connection"][i]))
      /\ \A i \in 1 .. n["connection"] :
            Upgrades(Cut("connection", g["connection"][i])) => q.fl_connection_found
  BY <1>3 DEF Recorded
<1> QED
  BY <1>4, <1>5, <1>6, <1>7 DEF Recorded

\* _process records one more value, the next one of its key.
LEMMA ProcessRecords ==
  ASSUME NEW r \in Request, NEW f \in Fields, NEW n \in [Keys -> Nat],
         NEW u \in BOOLEAN, NEW h \in BOOLEAN, NEW k \in Keys,
         NEW v \in Strings, str_trim_beginning(v) = f[k][n[k] + 1],
         NEW found \in BOOLEAN,
         k = "connection" /\ Upgrades(Kept(k, v)) => found,
         u => h,
         k = "connection" /\ ~Upgrades(Kept(k, v)) => h,
         Recorded(r, f, n, u)
  PROVE  Recorded(_process(r, k, v, found), f, [n EXCEPT ![k] = @ + 1], h)
<1> DEFINE s == Kept(k, v)
           m == [n EXCEPT ![k] = @ + 1]
           x == StrOf(r, k, s)
           p == ProtocolsOf(r, k, s)
           a == UpgradeOf(r, k, s)
           c == ConnectionOf(r, k, found)
           q == Filled(r, x, p, a, c)
<1>1. /\ _process(r, k, v, found) = q
      /\ x \in [Stored -> Strings] /\ p \in SUBSET Strings
      /\ a \in BOOLEAN /\ c \in BOOLEAN
  BY ProcessFills
<1>2. q \in Request /\ q.str = x /\ q.protocols = p
      /\ q.fl_upgrade_found = a /\ q.fl_connection_found = c
  BY <1>1, FilledShape
<1>3. /\ "origin" \in Keys /\ "connection" \in Keys /\ "upgrade" \in Keys
      /\ "sec-websocket-protocol" \in Keys /\ "origin" \in Stored
      /\ "connection" \in Stored /\ Stored \subseteq Keys
      /\ "upgrade" \notin Stored /\ "sec-websocket-protocol" \notin Stored
  BY DEF Keys, Stored
<1>4. r.str \in [Stored -> Strings] /\ r.protocols \in SUBSET Strings
      /\ r.fl_upgrade_found \in BOOLEAN /\ r.fl_connection_found \in BOOLEAN
  BY DEF Request
<1>5. /\ m \in [Keys -> Nat] /\ m[k] = n[k] + 1 /\ n[k] \in Nat
      /\ \A j \in Keys \ {k} : m[j] = n[j]
  OBVIOUS
<1> HIDE DEF m, q
<1>6. /\ Final(f, m, k) = s
      /\ \A j \in Keys \ {k} : Final(f, m, j) = Final(f, n, j)
  BY <1>5 DEF Final, s, Kept, Cut
<1>7. \A i : i \in 1 .. n[k] + 1 <=> i \in 1 .. n[k] \/ i = n[k] + 1
  BY <1>5
<1>8. \A j \in Stored \ {"origin"} : x[j] = Final(f, m, j)
  <2> SUFFICES ASSUME NEW j \in Stored \ {"origin"}
               PROVE  x[j] = Final(f, m, j)
    OBVIOUS
  <2>1. CASE j = k
    BY <1>3, <1>4, <1>6, <2>1 DEF StrOf
  <2>2. CASE j # k
    <3>1. x[j] = r.str[j]
      BY <1>3, <1>4, <2>2 DEF StrOf
    <3> QED
      BY <1>3, <1>6, <2>2, <3>1 DEF Recorded
  <2> QED
    BY <2>1, <2>2
<1>9. x["origin"] = tolower(Final(f, m, "origin"))
  <2>1. CASE k = "origin"
    BY <1>3, <1>4, <1>6, <2>1 DEF StrOf
  <2>2. CASE k # "origin"
    <3>1. x["origin"] = r.str["origin"]
      BY <1>3, <1>4, <2>2 DEF StrOf
    <3> QED
      BY <1>3, <1>6, <2>2, <3>1 DEF Recorded
  <2> QED
    BY <2>1, <2>2
<1>10. \A w : w \in p <=>
          \E i \in 1 .. m["sec-websocket-protocol"] :
             w \in Items(Cut("sec-websocket-protocol", f["sec-websocket-protocol"][i]))
  <2>1. CASE k = "sec-websocket-protocol"
    <3>1. p = r.protocols \cup Items(s)
      BY <2>1 DEF ProtocolsOf
    <3>2. m[k] = n[k] + 1 /\ s = Cut(k, f[k][n[k] + 1])
      BY <1>5 DEF Kept, Cut
    <3>3. \A w : w \in r.protocols <=>
            \E i \in 1 .. n[k] : w \in Items(Cut(k, f[k][i]))
      BY <2>1 DEF Recorded
    <3> HIDE DEF s, p
    <3> QED
      BY <1>7, <2>1, <3>1, <3>2, <3>3
  <2>2. CASE k # "sec-websocket-protocol"
    BY <1>3, <1>5, <2>2 DEF ProtocolsOf, Recorded
  <2> QED
    BY <2>1, <2>2
<1>11. a <=> \E i \in 1 .. m["upgrade"] :
                IsWebsocket(Cut("upgrade", f["upgrade"][i]))
  <2>1. CASE k = "upgrade"
    <3>1. a <=> r.fl_upgrade_found \/ IsWebsocket(s)
      BY <1>4, <2>1 DEF UpgradeOf
    <3>2. m[k] = n[k] + 1 /\ s = Cut(k, f[k][n[k] + 1])
      BY <1>5 DEF Kept, Cut
    <3>3. r.fl_upgrade_found <=>
            \E i \in 1 .. n[k] : IsWebsocket(Cut(k, f[k][i]))
      BY <2>1 DEF Recorded
    <3> HIDE DEF s, a
    <3> QED
      BY <1>7, <2>1, <3>1, <3>2, <3>3
  <2>2. CASE k # "upgrade"
    BY <1>3, <1>5, <2>2 DEF UpgradeOf, Recorded
  <2> QED
    BY <2>1, <2>2
<1>12. /\ c => \/ h
               \/ \E i \in 1 .. m["connection"] :
                     Upgrades(Cut("connection", f["connection"][i]))
       /\ \A i \in 1 .. m["connection"] :
             Upgrades(Cut("connection", f["connection"][i])) => c
  <2>1. CASE k = "connection"
    <3>1. c <=> r.fl_connection_found \/ found
      BY <1>4, <2>1 DEF ConnectionOf
    <3>2. m[k] = n[k] + 1 /\ s = Cut(k, f[k][n[k] + 1])
      BY <1>5 DEF Kept, Cut
    <3>3. /\ r.fl_connection_found =>
                u \/ \E i \in 1 .. n[k] : Upgrades(Cut(k, f[k][i]))
          /\ \A i \in 1 .. n[k] :
                Upgrades(Cut(k, f[k][i])) => r.fl_connection_found
      BY <2>1 DEF Recorded
    <3>4. (Upgrades(s) => found) /\ (~Upgrades(s) => h)
      BY <2>1
    <3> HIDE DEF s, c
    <3> QED
      BY <1>7, <2>1, <3>1, <3>2, <3>3, <3>4
  <2>2. CASE k # "connection"
    BY <1>3, <1>5, <2>2 DEF ConnectionOf, Recorded
  <2> QED
    BY <2>1, <2>2
<1>13. Recorded(q, f, m, h)
  BY <1>2, <1>8, <1>9, <1>10, <1>11, <1>12 DEF Recorded
<1> QED
  BY <1>1, <1>13 DEF m

-----------------------------------------------------------------------------
(***************************************************************************)
(* The invariant                                                           *)
(***************************************************************************)

Lens(f) == [k \in Keys |-> Len(f[k])]

\* The request_t by itself: what it keeps of the request line a.
Proper(r, a) ==
    /\ r.state = "START" => r.line = <<>>
    /\ r.state = "HEADER" =>
          /\ Len(a) >= 3
          /\ r.method = Cut("method", a[1]) /\ r.resource = Cut("resource", a[2])

\* Where the handshake is: until it ends, h->line is the header being sent.
Phased ==
    /\ phase \in {"config", "exit", "request", "closed", "answered"}
    /\ phase # "answered" => response = NoResponse
    /\ phase \in {"config", "request"} =>
          ~req.error /\ ~req.done /\ ~broken /\ req.line = last
    /\ phase = "closed" => broken
    /\ phase = "answered" =>
          /\ ~broken /\ req.done /\ ~req.error /\ req.state = "HEADER"
          /\ response = rq_analyze(req)

Typed ==
    /\ req \in Request /\ fields \in Fields /\ asked \in Seq(Strings)
    /\ last \in Strings
    /\ undefined \in BOOLEAN /\ broken \in BOOLEAN
    /\ next \in Nat \ {0} /\ unusual \in 0 .. MaxUnusual

Inv ==
    /\ Typed
    /\ Phased
    /\ Proper(req, asked)
    /\ Recorded(req, fields, Lens(fields), undefined)

\* The number of values of each key.
LEMMA LensType ==
  ASSUME NEW f \in Fields
  PROVE  Lens(f) \in [Keys -> Nat]
<1>1. \A k \in Keys : Len(f[k]) \in Nat
  BY DEF Fields
<1> QED
  BY <1>1 DEF Lens

\* The fields of a request with another line.
LEMMA LineShape ==
  ASSUME NEW r \in Request, NEW l \in Strings
  PROVE  LET c == [r EXCEPT !.line = l]
         IN  /\ c \in Request
             /\ c.line = l
             /\ c.state = r.state
             /\ c.done = r.done /\ c.error = r.error
             /\ c.method = r.method /\ c.resource = r.resource
             /\ c.str = r.str /\ c.protocols = r.protocols
             /\ c.fl_upgrade_found = r.fl_upgrade_found
             /\ c.fl_connection_found = r.fl_connection_found
  BY DEF Request

\* The fields of a request that is done, or not.
LEMMA DoneShape ==
  ASSUME NEW r \in Request, NEW b \in BOOLEAN
  PROVE  LET c == [r EXCEPT !.done = b]
         IN  /\ c \in Request
             /\ c.done = b
             /\ c.state = r.state
             /\ c.line = r.line /\ c.error = r.error
             /\ c.method = r.method /\ c.resource = r.resource
             /\ c.str = r.str /\ c.protocols = r.protocols
             /\ c.fl_upgrade_found = r.fl_upgrade_found
             /\ c.fl_connection_found = r.fl_connection_found
  BY DEF Request

\* The fields of a request that has failed.
LEMMA ErrorShape ==
  ASSUME NEW r \in Request
  PROVE  LET c == [r EXCEPT !.error = TRUE]
         IN  /\ c \in Request
             /\ c.error
             /\ c.state = r.state /\ c.done = r.done
             /\ c.line = r.line
             /\ c.method = r.method /\ c.resource = r.resource
             /\ c.str = r.str /\ c.protocols = r.protocols
             /\ c.fl_upgrade_found = r.fl_upgrade_found
             /\ c.fl_connection_found = r.fl_connection_found
  BY DEF Request

\* A request line of three words or more.
LEMMA StartShape ==
  ASSUME NEW r \in Request, NEW a \in Seq(Strings), Len(a) >= 3
  PROVE  LET c == parse_request_line(r, a)
         IN  /\ c \in Request
             /\ c.state = "HEADER" /\ c.line = <<>>
             /\ c.method = Cut("method", a[1]) /\ c.resource = Cut("resource", a[2])
             /\ c.done = r.done /\ c.error = r.error
             /\ c.str = r.str /\ c.protocols = r.protocols
             /\ c.fl_upgrade_found = r.fl_upgrade_found
             /\ c.fl_connection_found = r.fl_connection_found
<1> DEFINE x == Cut("method", a[1])
           y == Cut("resource", a[2])
           e == <<>>
           c == [r EXCEPT !.state = "HEADER", !.line = e, !.method = x, !.resource = y]
<1>1. x \in Strings /\ y \in Strings
  <2>1. a[1] \in Strings /\ a[2] \in Strings
    OBVIOUS
  <2> QED
    BY <2>1, CutString, KeyShape
<1>2. parse_request_line(r, a) = c
  BY DEF parse_request_line, Cut
<1>3. e \in Strings
  BY DEF Strings
<1> HIDE DEF x, y, e
<1>4. /\ c \in Request
      /\ c.state = "HEADER" /\ c.line = e
      /\ c.method = x /\ c.resource = y
      /\ c.done = r.done /\ c.error = r.error
      /\ c.str = r.str /\ c.protocols = r.protocols
      /\ c.fl_upgrade_found = r.fl_upgrade_found
      /\ c.fl_connection_found = r.fl_connection_found
  BY <1>1, <1>3 DEF Request
<1> HIDE DEF c
<1> QED
  BY <1>2, <1>4 DEF x, y, e

\* Initially nothing is recorded.
LEMMA InvInit == Init => Inv
<1> SUFFICES ASSUME Init PROVE Inv
  OBVIOUS
<1> DEFINE e == <<>>
<1>1. /\ req = rq_create /\ response = NoResponse /\ asked = <<>> /\ last = e
      /\ fields = [k \in Keys |-> e] /\ next = 1 /\ unusual = 0
      /\ broken = FALSE /\ undefined = FALSE
      /\ phase = "config"
  BY DEF Init
<1>2. e \in Strings /\ e \in Seq(Strings) /\ Len(e) = 0
  BY DEF Strings
<1>3. tolower(e) = e
  BY DEF tolower
<1>4. rq_create = [state |-> "START", line |-> e, done |-> FALSE,
                   error |-> FALSE, method |-> e, resource |-> e,
                   str |-> [k \in Stored |-> e], protocols |-> {},
                   fl_upgrade_found |-> FALSE, fl_connection_found |-> FALSE]
  BY DEF rq_create, NoWord
<1>5. asked = e
  BY <1>1
<1>6. \A r : r.line = e => r.line = <<>>
  OBVIOUS
<1> HIDE DEF e
<1>7. /\ req \in Request
      /\ req.state = "START" /\ req.line = e /\ ~req.done /\ ~req.error
      /\ req.str = [k \in Stored |-> e] /\ req.protocols = {}
      /\ ~req.fl_upgrade_found /\ ~req.fl_connection_found
  BY <1>1, <1>2, <1>4 DEF Request
<1>9. fields \in Fields /\ \A k \in Keys : Len(fields[k]) = 0
  BY <1>1, <1>2 DEF Fields
<1>10. Typed
  <2>1. next \in Nat \ {0} /\ unusual \in 0 .. MaxUnusual
    BY <1>1, LinesAssumption
  <2>2. undefined \in BOOLEAN /\ broken \in BOOLEAN
    BY <1>1
  <2> QED
    BY <1>1, <1>2, <1>5, <1>7, <1>9, <2>1, <2>2 DEF Typed
<1>11. Phased /\ Proper(req, asked)
  BY <1>1, <1>6, <1>7 DEF Phased, Proper
<1> DEFINE n == Lens(fields)
<1>12. \A k \in Keys : n[k] = 0
  BY <1>9 DEF Lens
<1>13. \A k \in Keys : Final(fields, n, k) = e
  BY <1>12 DEF Final, e
<1> HIDE DEF n
<1>14. /\ "origin" \in Stored /\ Stored \subseteq Keys
       /\ "connection" \in Keys /\ "upgrade" \in Keys
       /\ "sec-websocket-protocol" \in Keys /\ "origin" \in Keys
  BY DEF Stored, Keys
<1>15. Recorded(req, fields, n, undefined)
  <2>1. \A k \in Keys : ~ \E i \in 1 .. n[k] : TRUE
    BY <1>12
  <2> QED
    BY <1>3, <1>7, <1>13, <1>14, <2>1 DEF Recorded
<1> QED
  BY <1>10, <1>11, <1>15 DEF Inv, n

\* What ProcessRecords asks of a line and of the record of the lines before it.
Recordable(r, f, n, u, h, k, v, found) ==
  /\ r \in Request /\ f \in Fields /\ n \in [Keys -> Nat]
  /\ u \in BOOLEAN /\ h \in BOOLEAN /\ found \in BOOLEAN
  /\ k \in Keys /\ v \in Strings /\ str_trim_beginning(v) = f[k][n[k] + 1]
  /\ (k = "connection" /\ Upgrades(Kept(k, v))) => found
  /\ u => h
  /\ (k = "connection" /\ ~Upgrades(Kept(k, v))) => h
  /\ Recorded(r, f, n, u)

\* One value more of a key.
OneMore(n, k) == [n EXCEPT ![k] = @ + 1]

\* ProcessRecords with its premises under one name.
LEMMA RecordableRecorded ==
  ASSUME NEW r, NEW f, NEW n, NEW u, NEW h, NEW k, NEW v, NEW found,
         Recordable(r, f, n, u, h, k, v, found)
  PROVE  Recorded(_process(r, k, v, found), f, OneMore(n, k), h)
BY ZenonT(40), ProcessRecords DEF Recordable, OneMore

\* The values sent, with y for key k.
With(f, k, y) == [f EXCEPT ![k] = Append(@, y)]

\* One value more.
LEMMA WithShape ==
  ASSUME NEW f \in Fields, NEW k \in Keys, NEW y \in Strings
  PROVE  /\ With(f, k, y) \in Fields
         /\ With(f, k, y)[k][Lens(f)[k] + 1] = y
         /\ Lens(With(f, k, y)) = OneMore(Lens(f), k)
         /\ \A j \in Keys : \A i \in 1 .. Lens(f)[j] : With(f, k, y)[j][i] = f[j][i]
<1> DEFINE g == Append(f[k], y)
           n == Len(f[k])
           w == With(f, k, y)
<1>1. f[k] \in Seq(Strings) /\ n \in Nat
  BY DEF Fields
<1>2. g \in Seq(Strings) /\ Len(g) = n + 1 /\ g[n + 1] = y
      /\ \A i \in 1 .. n : g[i] = f[k][i]
  BY <1>1
<1>3. w = [f EXCEPT ![k] = g]
  BY DEF With
<1> HIDE DEF g, w
<1>4. w \in Fields /\ w[k] = g /\ \A j \in Keys \ {k} : w[j] = f[j]
  BY <1>2, <1>3 DEF Fields
<1>5. Lens(f) \in [Keys -> Nat] /\ Lens(w) \in [Keys -> Nat]
  BY <1>4, LensType
<1>6. Lens(f)[k] = n /\ \A j \in Keys : Lens(w)[j] = Len(w[j]) /\ Lens(f)[j] = Len(f[j])
  BY DEF Lens
<1>7. Lens(w) = OneMore(Lens(f), k)
  <2>1. \A j \in Keys : Lens(w)[j] = OneMore(Lens(f), k)[j]
    BY <1>2, <1>4, <1>5, <1>6 DEF OneMore
  <2> QED
    BY <1>5, <2>1 DEF OneMore
<1>8. \A j \in Keys : \A i \in 1 .. Lens(f)[j] : w[j][i] = f[j][i]
  BY <1>2, <1>4, <1>6
<1>9. w[k][Lens(f)[k] + 1] = y
  BY <1>2, <1>4, <1>6
<1> QED
  BY <1>4, <1>7, <1>8, <1>9 DEF w

\* The values sent once the header in h->line has ended.
Ended ==
    IF HasColon(req.line) /\ KeyOf(req.line) \in Keys
    THEN With(fields, KeyOf(req.line), str_trim_beginning(ValueOf(req.line)))
    ELSE fields

\* A line that is complete is recorded, unless it has no colon.
LEMMA CompleteRecords ==
  ASSUME Inv, phase = "request", req.line = <<>> \/ HasColon(req.line),
         NEW line, ~IsFold(line), NEW found \in Found(line), NEW b \in BOOLEAN
  PROVE  LET c == Complete([req EXCEPT !.done = b], found)
         IN  /\ c \in Request /\ Ended \in Fields
             /\ ~c.error /\ c.done = b
             /\ c.line = req.line /\ c.state = req.state
             /\ c.method = req.method /\ c.resource = req.resource
             /\ Recorded(c, Ended, Lens(Ended), undefined \/ Found(line) = BOOLEAN)
<1> DEFINE d == [req EXCEPT !.done = b]
           c == Complete(d, found)
           n == Lens(fields)
           h == undefined \/ Found(line) = BOOLEAN
           k == KeyOf(req.line)
           v == ValueOf(req.line)
<1>1. /\ req \in Request /\ fields \in Fields /\ ~req.error /\ ~req.done
      /\ undefined \in BOOLEAN
      /\ Recorded(req, fields, n, undefined)
  BY DEF Inv, Typed, Phased
<1>2. n \in [Keys -> Nat] /\ req.line \in Strings
  BY <1>1, LensType DEF Request
<1>3. /\ d \in Request
      /\ d.done = b
      /\ d.state = req.state
      /\ d.line = req.line /\ ~d.error
      /\ d.method = req.method /\ d.resource = req.resource
      /\ d.str = req.str /\ d.protocols = req.protocols
      /\ d.fl_upgrade_found = req.fl_upgrade_found
      /\ d.fl_connection_found = req.fl_connection_found
  BY <1>1, DoneShape
<1> HIDE DEF d, n
<1>4. CASE HasColon(req.line) /\ k \in Keys
  <2> DEFINE y == str_trim_beginning(v)
             g == With(fields, k, y)
  <2>1. v \in Strings /\ y \in Strings
    BY <1>2, <1>4, ValueString, TrimShape
  <2>2. req.line # <<>>
    BY <1>4 DEF HasColon, Colons
  <2>3. c = _process(d, k, v, found)
    BY <1>3, <1>4, <2>2 DEF Complete
  <2>4. Ended = g
    BY <1>4 DEF Ended
  <2>5. k = "connection" => Found(line) = _find_connection_upgrade(Kept(k, v))
    BY <1>4 DEF Found
  <2>6. k # "connection" => Found(line) = {FALSE}
    BY DEF Found
  <2> HIDE DEF k, v, y
  <2>7. found \in BOOLEAN
    <3>1. _find_connection_upgrade(Kept(k, v)) \in {{TRUE}, BOOLEAN}
      BY DEF _find_connection_upgrade
    <3> QED
      BY <2>5, <2>6, <3>1
  <2>8. k = "connection" /\ Upgrades(Kept(k, v)) => found
    <3>1. Upgrades(Kept(k, v)) => _find_connection_upgrade(Kept(k, v)) = {TRUE}
      BY DEF _find_connection_upgrade, Upgrades
    <3>2. k = "connection" /\ Upgrades(Kept(k, v)) => found = TRUE
      BY <2>5, <3>1
    <3> QED
      BY <3>2
  <2>9. k = "connection" /\ ~Upgrades(Kept(k, v)) => h
    BY <2>5 DEF _find_connection_upgrade, Upgrades
  <2> DEFINE z == h
  <2>10. z \in BOOLEAN /\ (undefined => z)
    BY <1>1
  <2>11. k = "connection" /\ ~Upgrades(Kept(k, v)) => z
    BY <2>9
  <2> HIDE DEF z, g
  <2>12. /\ g \in Fields /\ g[k][n[k] + 1] = y /\ Lens(g) = OneMore(n, k)
         /\ \A j \in Keys : \A i \in 1 .. n[j] : g[j][i] = fields[j][i]
    BY <1>1, <1>4, <2>1, WithShape DEF n, g
  <2>13. Recorded(d, g, n, undefined)
    BY <1>1, <1>2, <1>3, <2>12, RecordedKept
  <2>14. Recordable(d, g, n, undefined, z, k, v, found)
    BY <1>1, <1>2, <1>3, <1>4, <2>1, <2>7, <2>8, <2>10, <2>11, <2>12, <2>13
    DEF Recordable, y
  <2>15. Recorded(_process(d, k, v, found), g, OneMore(n, k), z)
    BY Zenon, <2>14, RecordableRecorded
  <2>16. /\ StrOf(d, k, Kept(k, v)) \in [Stored -> Strings]
         /\ ProtocolsOf(d, k, Kept(k, v)) \in SUBSET Strings
         /\ UpgradeOf(d, k, Kept(k, v)) \in BOOLEAN
         /\ ConnectionOf(d, k, found) \in BOOLEAN
         /\ _process(d, k, v, found) =
                Filled(d, StrOf(d, k, Kept(k, v)),
                       ProtocolsOf(d, k, Kept(k, v)),
                       UpgradeOf(d, k, Kept(k, v)),
                       ConnectionOf(d, k, found))
    BY <1>3, <1>4, <2>1, <2>7, ProcessFills
  <2>17. /\ c \in Request /\ c.state = d.state /\ c.line = d.line
         /\ c.done = d.done /\ c.error = d.error
         /\ c.method = d.method /\ c.resource = d.resource
    BY <1>3, <2>3, <2>16, FilledShape
  <2> HIDE DEF c
  <2>18. Recorded(c, Ended, Lens(Ended), z)
    BY <2>3, <2>4, <2>12, <2>15
  <2> QED
    BY <1>3, <2>4, <2>12, <2>17, <2>18 DEF z, c, d
<1>5. CASE ~(HasColon(req.line) /\ k \in Keys)
  <2>1. c = d
    <3>1. CASE req.line = <<>>
      BY <1>3, <3>1 DEF Complete
    <3>2. CASE req.line # <<>>
      <4>1. HasColon(req.line) /\ k \notin Keys
        BY <1>5, <3>2
      <4>2. c = _process(d, k, v, found)
        BY <1>3, <3>2, <4>1 DEF Complete
      <4> HIDE DEF k
      <4>3. _process(d, k, v, found) = d
        BY <4>1 DEF _process, Keys, Stored
      <4> QED
        BY <4>2, <4>3
    <3> QED
      BY <3>1, <3>2
  <2>2. Ended = fields
    BY <1>5 DEF Ended
  <2>3. "connection" \in Keys
    BY DEF Keys
  <2>4. Found(line) = {FALSE}
    BY <1>5, <2>3 DEF Found
  <2>5. h <=> undefined
    BY <2>4
  <2>6. Recorded(d, fields, n, undefined)
    BY <1>1, <1>2, <1>3, RecordedKept
  <2>7. Recorded(d, fields, n, h)
    BY <2>5, <2>6 DEF Recorded
  <2> HIDE DEF c
  <2> QED
    BY <1>1, <1>3, <2>1, <2>2, <2>7 DEF c, d, n
<1> QED
  BY <1>4, <1>5

-----------------------------------------------------------------------------
(***************************************************************************)
(* Steps                                                                   *)
(***************************************************************************)

\* The request line.
LEMMA RequestLineStep ==
  ASSUME Inv, RequestLine
  PROVE  Inv'
<1>1. PICK words \in RequestLines :
         /\ AfterLine(parse_request_line(req, words))
         /\ asked' = words
         /\ broken' = (Len(words) < 3)
  BY DEF RequestLine
<1>2. /\ phase = "request" /\ req.state = "START"
      /\ UNCHANGED <<last, fields, next, unusual, undefined>>
  BY DEF RequestLine
<1> DEFINE r == parse_request_line(req, words)
<1>3. /\ req \in Request /\ fields \in Fields /\ undefined \in BOOLEAN
      /\ last \in Strings
      /\ next \in Nat \ {0} /\ unusual \in 0 .. MaxUnusual
      /\ ~req.error /\ ~req.done /\ response = NoResponse
      /\ req.line = <<>> /\ last = <<>>
      /\ Recorded(req, fields, Lens(fields), undefined)
  BY <1>2 DEF Inv, Typed, Phased, Proper
<1>4. words \in Seq(Strings) /\ Len(words) \in Nat
  BY LinesAssumption
<1>5. Lens(fields)' = Lens(fields) /\ Lens(fields) \in [Keys -> Nat]
  BY <1>2, <1>3, LensType
<1>6. CASE Len(words) < 3
  <2>1. r = [req EXCEPT !.error = TRUE]
    BY <1>6 DEF parse_request_line
  <2>2. /\ r \in Request /\ r.error /\ r.state = "START" /\ r.line = <<>>
        /\ r.done = req.done
        /\ r.str = req.str /\ r.protocols = req.protocols
        /\ r.fl_upgrade_found = req.fl_upgrade_found
        /\ r.fl_connection_found = req.fl_connection_found
    BY <1>2, <1>3, <2>1, ErrorShape
  <2> HIDE DEF r
  <2>3. req' = r /\ phase' = "closed" /\ response' = response
    BY <1>1, <2>2 DEF AfterLine, r
  <2>4. Typed'
    BY <1>1, <1>2, <1>3, <1>4, <2>2, <2>3 DEF Typed
  <2>5. Phased' /\ Proper(req, asked)'
    BY <1>1, <1>3, <1>6, <2>2, <2>3 DEF Phased, Proper
  <2>6. Recorded(r, fields, Lens(fields), undefined)
    BY <1>3, <1>5, <2>2, RecordedKept
  <2> QED
    BY <1>2, <1>5, <2>3, <2>4, <2>5, <2>6 DEF Inv
<1>7. CASE Len(words) >= 3
  <2>1. /\ r \in Request
        /\ r.state = "HEADER" /\ r.line = <<>>
        /\ r.method = Cut("method", words[1]) /\ r.resource = Cut("resource", words[2])
        /\ ~r.done /\ ~r.error
        /\ r.str = req.str /\ r.protocols = req.protocols
        /\ r.fl_upgrade_found = req.fl_upgrade_found
        /\ r.fl_connection_found = req.fl_connection_found
    BY <1>3, <1>4, <1>7, StartShape
  <2> HIDE DEF r
  <2>2. req' = r /\ phase' = phase /\ response' = response
    BY <1>1, <2>1 DEF AfterLine, r
  <2>3. Typed'
    BY <1>1, <1>2, <1>3, <1>4, <2>1, <2>2 DEF Typed
  <2>4. Phased'
    <3>1. ~(Len(words) < 3)
      BY <1>4, <1>7
    <3>2. ~broken'
      BY <1>1, <3>1, Zenon
    <3> QED
      BY <1>2, <1>3, <2>1, <2>2, <3>2 DEF Phased
  <2>5. Proper(req, asked)'
    BY <1>1, <1>7, <2>1, <2>2 DEF Proper
  <2>6. Recorded(r, fields, Lens(fields), undefined)
    BY <1>3, <1>5, <2>1, RecordedKept
  <2> QED
    BY <1>2, <1>5, <2>2, <2>3, <2>4, <2>5, <2>6 DEF Inv
<1> QED
  BY <1>4, <1>6, <1>7

\* A folded line.
LEMMA FoldStep ==
  ASSUME Inv, NEW line \in Strings, IsFold(line), AddLine(line),
         next' \in Nat \ {0}, unusual' \in 0 .. MaxUnusual
  PROVE  Inv'
<1> DEFINE l == req.line \o Tail(line)
           r == [req EXCEPT !.line = l]
<1>1. /\ phase = "request" /\ req.state = "HEADER"
      /\ UNCHANGED asked
      /\ last' = last \o Tail(line)
      /\ fields' = fields /\ broken' = FALSE
  BY DEF AddLine, Send
<1>2. Found(line) = {FALSE}
  BY DEF Found
<1>3. undefined' = undefined
  <2>1. Found(line) # BOOLEAN
    BY <1>2
  <2>2. undefined' = (undefined \/ Found(line) = BOOLEAN) /\ undefined \in BOOLEAN
    BY DEF AddLine, Inv, Typed
  <2> QED
    BY <2>1, <2>2
<1>4. AfterLine(r)
  BY DEF AddLine, rq_add_line
<1>5. /\ req \in Request /\ fields \in Fields /\ undefined \in BOOLEAN
      /\ asked \in Seq(Strings) /\ last \in Strings
      /\ ~req.error /\ ~req.done /\ response = NoResponse
      /\ req.line = last /\ Proper(req, asked)
      /\ Recorded(req, fields, Lens(fields), undefined)
  BY <1>1 DEF Inv, Typed, Phased
<1>6. l \in Strings
  <2>1. Tail(line) \in Strings
    BY DEF Strings, IsFold
  <2> QED
    BY <1>5, <2>1 DEF Strings
<1>7. /\ r \in Request
      /\ r.line = l /\ r.state = req.state /\ ~r.done /\ ~r.error
      /\ r.method = req.method /\ r.resource = req.resource
      /\ r.str = req.str /\ r.protocols = req.protocols
      /\ r.fl_upgrade_found = req.fl_upgrade_found
      /\ r.fl_connection_found = req.fl_connection_found
  <2> HIDE DEF l
  <2> QED
    BY <1>5, <1>6, LineShape
<1>8. last' = l
  BY <1>1, <1>5
<1> HIDE DEF r, l
<1>9. req' = r /\ phase' = phase /\ response' = response
  BY <1>4, <1>7 DEF AfterLine
<1>10. Typed'
  BY <1>1, <1>3, <1>5, <1>6, <1>7, <1>8, <1>9 DEF Typed
<1>11. Phased'
  BY <1>1, <1>5, <1>7, <1>8, <1>9 DEF Phased
<1>12. Proper(req, asked)'
  BY <1>1, <1>5, <1>7, <1>9 DEF Proper
<1>13. Lens(fields)' = Lens(fields) /\ Lens(fields) \in [Keys -> Nat]
  BY <1>1, <1>5, LensType
<1>14. Recorded(r, fields, Lens(fields), undefined)
  BY <1>5, <1>7, <1>13, RecordedKept
<1> QED
  BY <1>1, <1>3, <1>9, <1>10, <1>11, <1>12, <1>13, <1>14 DEF Inv

\* Any other line: it ends the header before it.
LEMMA LineStep ==
  ASSUME Inv, NEW line \in Strings, ~IsFold(line), AddLine(line),
         next' \in Nat \ {0}, unusual' \in 0 .. MaxUnusual
  PROVE  Inv'
<1> DEFINE b == (line = <<>>)
           d == [req EXCEPT !.done = b]
           h == undefined \/ Found(line) = BOOLEAN
<1>1. /\ phase = "request" /\ req.state = "HEADER" /\ UNCHANGED asked
      /\ undefined' = h
      /\ last' = line
      /\ broken' = (last # <<>> /\ ~HasColon(last))
      /\ fields' = IF HasColon(last) /\ KeyOf(last) \in Keys
                   THEN [fields EXCEPT ![KeyOf(last)] =
                            Append(@, str_trim_beginning(ValueOf(last)))]
                   ELSE fields
  BY DEF AddLine, Send
<1>2. PICK found \in Found(line) : AfterLine(rq_add_line(req, line, found))
  BY DEF AddLine
<1> DEFINE c == Complete(d, found)
<1>3. rq_add_line(req, line, found) =
         IF c.error \/ line = <<>> THEN c ELSE [c EXCEPT !.line = line]
  BY DEF rq_add_line
<1>4. /\ req \in Request /\ fields \in Fields /\ undefined \in BOOLEAN
      /\ asked \in Seq(Strings)
      /\ ~req.error /\ ~req.done /\ response = NoResponse
      /\ req.line = last /\ Proper(req, asked)
      /\ Recorded(req, fields, Lens(fields), undefined)
  BY <1>1 DEF Inv, Typed, Phased
<1>5. fields' = Ended
  BY <1>1, <1>4 DEF Ended, With
<1>6. undefined' \in BOOLEAN /\ broken' \in BOOLEAN /\ b \in BOOLEAN
  BY <1>1
<1>7. CASE last # <<>> /\ ~HasColon(last)
  <2>1. /\ d \in Request /\ d.done = b /\ d.state = req.state
        /\ d.line = req.line
        /\ d.method = req.method /\ d.resource = req.resource
        /\ d.str = req.str /\ d.protocols = req.protocols
        /\ d.fl_upgrade_found = req.fl_upgrade_found
        /\ d.fl_connection_found = req.fl_connection_found
    <3>1. PICK a \in BOOLEAN : a = b
      BY <1>6
    <3>2. d = [req EXCEPT !.done = a]
      BY <3>1
    <3> HIDE DEF d, b
    <3> QED
      BY <1>4, <3>1, <3>2, DoneShape
  <2> HIDE DEF d
  <2>2. c = [d EXCEPT !.error = TRUE]
    BY <1>4, <1>7, <2>1 DEF Complete
  <2>3. /\ c \in Request /\ c.error /\ c.state = req.state
        /\ c.method = req.method /\ c.resource = req.resource
        /\ c.str = req.str /\ c.protocols = req.protocols
        /\ c.fl_upgrade_found = req.fl_upgrade_found
        /\ c.fl_connection_found = req.fl_connection_found
    BY <2>1, <2>2, ErrorShape
  <2> HIDE DEF c
  <2>4. req' = c /\ phase' = "closed" /\ response' = response
    BY <1>2, <1>3, <2>3 DEF AfterLine
  <2>5. Ended = fields /\ Found(line) = {FALSE}
    BY <1>4, <1>7 DEF Ended, Found
  <2>6. undefined' = undefined
    <3>1. Found(line) # BOOLEAN
      BY <2>5
    <3> QED
      BY <1>1, <1>4, <3>1
  <2>7. Typed'
    BY <1>1, <1>4, <1>5, <1>6, <2>3, <2>4, <2>5 DEF Typed
  <2>8. broken'
    BY <1>1, <1>7
  <2>9. Phased'
    BY <1>4, <2>4, <2>8 DEF Phased
  <2>10. Proper(req, asked)'
    BY <1>1, <1>4, <2>3, <2>4 DEF Proper
  <2>11. Lens(fields)' = Lens(fields) /\ Lens(fields) \in [Keys -> Nat]
    BY <1>4, <1>5, <2>5, LensType
  <2>12. Recorded(c, fields, Lens(fields), undefined)
    BY <1>4, <2>3, <2>11, RecordedKept
  <2> QED
    BY <1>5, <2>4, <2>5, <2>6, <2>7, <2>9, <2>10, <2>11, <2>12 DEF Inv
<1>8. CASE last = <<>> \/ HasColon(last)
  <2>1. PICK g : g = Ended
    OBVIOUS
  <2>2. PICK z : z = h
    OBVIOUS
  <2>3. /\ c \in Request /\ g \in Fields
        /\ ~c.error /\ c.done = b
        /\ c.state = req.state
        /\ c.method = req.method /\ c.resource = req.resource
        /\ Recorded(c, g, Lens(g), z)
    <3>1. req.line = <<>> \/ HasColon(req.line)
      BY <1>4, <1>8
    <3>2. PICK a \in BOOLEAN : a = b
      BY <1>6
    <3>3. LET y == Complete([req EXCEPT !.done = a], found)
          IN  /\ y \in Request /\ Ended \in Fields
              /\ ~y.error /\ y.done = a
              /\ y.line = req.line /\ y.state = req.state
              /\ y.method = req.method /\ y.resource = req.resource
              /\ Recorded(y, Ended, Lens(Ended), undefined \/ Found(line) = BOOLEAN)
      BY <1>1, <3>1, CompleteRecords
    <3> QED
      BY <2>1, <2>2, <3>2, <3>3
  <2> HIDE DEF c, d, h
  <2>4. fields' = g /\ undefined' = z
    BY <1>1, <1>5, <2>1, <2>2
  <2>5. Lens(fields)' = Lens(g) /\ Lens(g) \in [Keys -> Nat]
    BY <2>3, <2>4, LensType
  <2>6. ~broken'
    BY <1>1, <1>8
  <2>7. CASE line = <<>>
    <3>1. rq_add_line(req, line, found) = c
      BY <1>3, <2>7
    <3>2. c.done
      BY <2>3, <2>7
    <3>3. AfterLine(c)
      BY <1>2, <3>1
    <3>4. /\ req' = c /\ phase' = "answered" /\ response' = rq_analyze(c)
          /\ UNCHANGED <<configVars, meant, indented>>
      BY <2>3, <3>2, <3>3 DEF AfterLine
    <3>5. PICK q : q = c
      OBVIOUS
    <3>6. rq_analyze(req)' = rq_analyze(q)
      <4>1. conf' = conf /\ req' = q
        BY <3>4, <3>5 DEF configVars
      <4>2. Checks(req)' = Checks(q)
        BY <4>1 DEF Checks
      <4> QED
        BY <4>1, <4>2 DEF rq_analyze
    <3>7. Typed'
      BY <1>1, <1>4, <1>6, <2>3, <2>4, <3>4 DEF Typed
    <3>8. Phased'
      BY <1>1, <2>3, <2>6, <3>2, <3>4, <3>5, <3>6 DEF Phased
    <3>9. Proper(req, asked)'
      BY <1>1, <1>4, <2>3, <3>4 DEF Proper
    <3>10. Recorded(req, fields, Lens(fields), undefined)'
      BY <2>3, <2>4, <2>5, <3>4
    <3> QED
      BY <3>7, <3>8, <3>9, <3>10 DEF Inv
  <2>8. CASE line # <<>>
    <3> DEFINE r == [c EXCEPT !.line = line]
    <3>1. rq_add_line(req, line, found) = r
      BY <1>3, <2>3, <2>8
    <3>2. /\ r \in Request
          /\ r.line = line
          /\ r.state = c.state
          /\ r.done = c.done /\ r.error = c.error
          /\ r.method = c.method /\ r.resource = c.resource
          /\ r.str = c.str /\ r.protocols = c.protocols
          /\ r.fl_upgrade_found = c.fl_upgrade_found
          /\ r.fl_connection_found = c.fl_connection_found
      BY <2>3, LineShape
    <3>3. AfterLine(r)
      BY <1>2, <3>1
    <3> HIDE DEF r
    <3>4. ~r.done /\ ~r.error
      BY <2>3, <2>8, <3>2
    <3>5. req' = r /\ phase' = phase /\ response' = response
      BY <3>3, <3>4 DEF AfterLine
    <3>6. Typed'
      BY <1>1, <1>4, <1>6, <2>3, <2>4, <3>2, <3>5 DEF Typed
    <3>7. Phased'
      BY <1>1, <1>4, <2>6, <3>2, <3>4, <3>5 DEF Phased
    <3>8. Proper(req, asked)'
      BY <1>1, <1>4, <2>3, <3>2, <3>5 DEF Proper
    <3>9. PICK u \in BOOLEAN : u = z
      BY <1>6, <2>4
    <3>10. Recorded(c, g, Lens(g), u)
      BY <2>3, <3>9
    <3>11. Recorded(r, g, Lens(g), u)
      BY <2>3, <2>5, <3>2, <3>10, RecordedKept
    <3>12. Recorded(req, fields, Lens(fields), undefined)'
      BY <2>4, <2>5, <3>5, <3>9, <3>11
    <3> QED
      BY <3>6, <3>7, <3>8, <3>12 DEF Inv
  <2> QED
    BY <2>7, <2>8
<1> QED
  BY <1>7, <1>8

\* Every step keeps the record.
LEMMA InvStep ==
  ASSUME Inv, [Next]_vars
  PROVE  Inv'
<1>0. next \in Nat \ {0} /\ unusual \in 0 .. MaxUnusual /\ MaxUnusual \in Nat
  BY LinesAssumption DEF Inv, Typed
<1>1. CASE RequestLine
  BY <1>1, RequestLineStep
<1>2. CASE UsualLine
  <2>1. PICK i \in next .. Len(Usual) :
           /\ unusual' = unusual + (i - next)
           /\ unusual' <= MaxUnusual
           /\ next' = i + 1
           /\ AddLine(Usual[i])
    BY <1>2 DEF UsualLine
  <2>2. Len(Usual) \in Nat /\ i \in Nat /\ i - next \in Nat
    BY <1>0, LinesAssumption
  <2>3. next' \in Nat \ {0} /\ unusual' \in 0 .. MaxUnusual
    BY <1>0, <2>1, <2>2
  <2>4. Usual[i] \in Strings
    BY <1>0, <2>2, LinesAssumption
  <2> QED
    BY <2>1, <2>3, <2>4, FoldStep, LineStep
<1>3. CASE UnusualLine
  <2>1. PICK line \in Unusual : AddLine(line)
    BY <1>3 DEF UnusualLine
  <2>2. next' \in Nat \ {0} /\ unusual' \in 0 .. MaxUnusual
    BY <1>0, <1>3 DEF UnusualLine
  <2>3. line \in Strings
    BY LinesAssumption
  <2> QED
    BY <2>1, <2>2, <2>3, FoldStep, LineStep
<1>4. CASE EmptyLine
  <2> DEFINE e == <<>>
  <2>1. e \in Strings /\ ~IsFold(e)
    BY DEF Strings, IsFold
  <2>2. AddLine(e) /\ UNCHANGED <<next, unusual>>
    BY <1>4 DEF EmptyLine
  <2> HIDE DEF e
  <2> QED
    BY <1>0, <2>1, <2>2, LineStep
<1>5. CASE UNCHANGED vars \/ Configure
  <2>1. UNCHANGED <<req, response, asked, last, fields, next, unusual, broken, undefined>>
    BY <1>5 DEF vars, requestVars, Configure
  <2>2. Phased'
    <3>1. CASE UNCHANGED <<phase, conf>>
      <4>1. Checks(req)' = Checks(req)
        BY <2>1, <3>1 DEF Checks
      <4>2. rq_analyze(req)' = rq_analyze(req)
        BY <2>1, <4>1 DEF rq_analyze
      <4> QED
        BY <2>1, <3>1, <4>2 DEF Inv, Phased
    <3>2. CASE phase = "config" /\ phase' \in {"config", "request", "exit"}
      BY <2>1, <3>2 DEF Inv, Phased
    <3> QED
      BY <1>5, <3>1, <3>2 DEF vars, configVars, Configure
  <2>3. Typed'
    BY <2>1 DEF Inv, Typed
  <2>4. Proper(req, asked)'
    BY <2>1 DEF Inv, Proper
  <2>5. Lens(fields)' = Lens(fields)
    BY <2>1
  <2>6. Recorded(req, fields, Lens(fields), undefined)'
    BY <2>1, <2>5 DEF Inv
  <2> QED
    BY <2>2, <2>3, <2>4, <2>6 DEF Inv
<1> QED
  BY <1>1, <1>2, <1>3, <1>4, <1>5 DEF Next

\* So the record always agrees with what was sent.
LEMMA InvCorrect == Spec => []Inv
  BY InvInit, InvStep, PTL DEF Spec

-----------------------------------------------------------------------------
(***************************************************************************)
(* The answer                                                              *)
(***************************************************************************)

\* The checks one by one.
LEMMA CheckList ==
  ASSUME NEW r
  PROVE  /\ Checks(r)[1][1] = 405
         /\ Checks(r)[1][2] <=> tolower(r.method) # Word("get")
         /\ Checks(r)[2][1] = 403
         /\ Checks(r)[2][2] <=> ~config_check_origin(conf, r.str["origin"])
         /\ Checks(r)[3][1] = 400
         /\ Checks(r)[3][2] <=> Word("xmpp") \notin r.protocols
         /\ Checks(r)[4][1] = 400
         /\ Checks(r)[4][2] <=> r.str["sec-websocket-key"] = <<>>
         /\ Checks(r)[5][1] = 400
         /\ Checks(r)[5][2] <=> (conf.setting["host"] # NULL
                                /\ r.str["host"] # conf.setting["host"])
         /\ Checks(r)[6][1] = 400
         /\ Checks(r)[6][2] <=> ~r.fl_upgrade_found
         /\ Checks(r)[7][1] = 400
         /\ Checks(r)[7][2] <=> ~r.fl_connection_found
         /\ Checks(r)[8][1] = 404
         /\ Checks(r)[8][2] <=> (conf.setting["resource"] # NULL
                                /\ tolower(r.resource)
                                      # tolower(conf.setting["resource"]))
         /\ Checks(r)[9][1] = 426
         /\ Checks(r)[9][2] <=> r.str["sec-websocket-version"] # Word("13")
<1>1. /\ Checks(r)[1][1] = 405
      /\ Checks(r)[1][2] <=> tolower(r.method) # Word("get")
  BY DEF Checks
<1>2. /\ Checks(r)[2][1] = 403
      /\ Checks(r)[2][2] <=> ~config_check_origin(conf, r.str["origin"])
  BY DEF Checks
<1>3. /\ Checks(r)[3][1] = 400
      /\ Checks(r)[3][2] <=> Word("xmpp") \notin r.protocols
  BY DEF Checks
<1>4. /\ Checks(r)[4][1] = 400
      /\ Checks(r)[4][2] <=> r.str["sec-websocket-key"] = <<>>
  BY DEF Checks
<1>5. /\ Checks(r)[5][1] = 400
      /\ Checks(r)[5][2] <=> (conf.setting["host"] # NULL
                                /\ r.str["host"] # conf.setting["host"])
  BY DEF Checks
<1>6. /\ Checks(r)[6][1] = 400
      /\ Checks(r)[6][2] <=> ~r.fl_upgrade_found
  BY DEF Checks
<1>7. /\ Checks(r)[7][1] = 400
      /\ Checks(r)[7][2] <=> ~r.fl_connection_found
  BY DEF Checks
<1>8. /\ Checks(r)[8][1] = 404
      /\ Checks(r)[8][2] <=> (conf.setting["resource"] # NULL
                                /\ tolower(r.resource)
                                      # tolower(conf.setting["resource"]))
  BY DEF Checks
<1>9. /\ Checks(r)[9][1] = 426
      /\ Checks(r)[9][2] <=> r.str["sec-websocket-version"] # Word("13")
  BY DEF Checks
<1> QED
  BY <1>1, <1>2, <1>3, <1>4, <1>5, <1>6, <1>7, <1>8, <1>9

\* rq_analyze accepts if no check fails, or gives the status of one that does.
LEMMA Verdicts ==
  ASSUME NEW r
  PROVE  \/ /\ rq_analyze(r).status = 101
            /\ rq_analyze(r).connection = r.str["connection"]
            /\ \A i \in 1 .. 9 : ~Checks(r)[i][2]
         \/ \E i \in 1 .. 9 :
               Checks(r)[i][2] /\ rq_analyze(r).status = Checks(r)[i][1]
<1> DEFINE failed == {i \in 1 .. Len(Checks(r)) : Checks(r)[i][2]}
           m == Min(failed)
<1>1. Len(Checks(r)) = 9
  BY DEF Checks
<1>2. rq_analyze(r) =
         IF failed = {}
         THEN [status |-> 101, connection |-> r.str["connection"]]
         ELSE [status |-> Checks(r)[m][1], connection |-> <<>>]
  BY DEF rq_analyze
<1>3. failed \in SUBSET (1 .. 9)
  BY <1>1
<1>4. CASE failed = {}
  BY <1>1, <1>2, <1>4
<1>5. CASE failed # {}
  <2>1. m \in failed
    BY <1>3, <1>5, First
  <2>2. m \in 1 .. 9 /\ Checks(r)[m][2]
    BY <1>1, <2>1
  <2> HIDE DEF m, failed
  <2>3. rq_analyze(r).status = Checks(r)[m][1]
    BY <1>2, <1>5
  <2> QED
    BY <2>2, <2>3
<1> QED
  BY <1>4, <1>5

\* What is kept of the last value sent fits its buffer.
LEMMA FinalShape ==
  ASSUME Inv, NEW k \in Keys
  PROVE  /\ Final(fields, Lens(fields), k) \in Strings
         /\ Len(Final(fields, Lens(fields), k)) <= Capacity[k]
<1> DEFINE n == Len(fields[k])
           y == fields[k][n]
           e == <<>>
<1>1. fields[k] \in Seq(Strings) /\ n \in Nat
  BY DEF Inv, Typed, Fields
<1>2. Lens(fields)[k] = n
  BY DEF Lens
<1>3. k \in Buffers /\ Capacity[k] \in Nat
  BY KeyShape, Sizes
<1>4. Final(fields, Lens(fields), k) = IF n = 0 THEN e ELSE Cut(k, y)
  BY <1>2 DEF Final
<1>5. e \in Strings /\ Len(e) = 0
  BY DEF Strings
<1>6. n # 0 => y \in Strings
  BY <1>1
<1> HIDE DEF y, e
<1>7. n # 0 => Cut(k, y) \in Strings /\ Len(Cut(k, y)) <= Capacity[k]
  BY <1>3, <1>6, CutString
<1> HIDE DEF n
<1> QED
  BY <1>3, <1>4, <1>5, <1>7

\* Types and the sizes of the buffers, for any request.
THEOREM TypeCorrect == Spec => []TypeOK
<1>1. Inv => TypeOK
  <2> SUFFICES ASSUME Inv PROVE TypeOK
    OBVIOUS
  <2>1. response.status \in Statuses \cup {0, 101}
    <3>1. CASE phase = "answered"
      <4>1. response = rq_analyze(req)
        BY <3>1 DEF Inv, Phased
      <4>2. \A i \in 1 .. 9 : Checks(req)[i][1] \in Statuses
        BY DEF Checks, Statuses
      <4> QED
        BY <4>1, <4>2, Verdicts
    <3>2. CASE phase # "answered"
      BY <3>2 DEF Inv, Phased, NoResponse
    <3> QED
      BY <3>1, <3>2
  <2>2. \A k \in Stored : Len(req.str[k]) <= Capacity[k]
    <3> SUFFICES ASSUME NEW k \in Stored
                 PROVE  Len(req.str[k]) <= Capacity[k]
      OBVIOUS
    <3> DEFINE w == Final(fields, Lens(fields), k)
    <3>1. w \in Strings /\ Len(w) <= Capacity[k]
      BY KeyShape, FinalShape
    <3>2. req.str[k] = w \/ req.str[k] = tolower(w)
      BY DEF Inv, Recorded
    <3> HIDE DEF w
    <3>3. Len(req.str[k]) = Len(w)
      BY <3>1, <3>2, LowerShape
    <3> QED
      BY <3>1, <3>3
  <2>3. /\ req.done \in BOOLEAN /\ req.error \in BOOLEAN
        /\ req.fl_upgrade_found \in BOOLEAN /\ req.fl_connection_found \in BOOLEAN
    BY DEF Inv, Typed, Request
  <2> QED
    BY <2>1, <2>2, <2>3 DEF TypeOK, Inv, Typed, Phased
<1> QED
  BY <1>1, InvCorrect, PTL

\* A request with a broken line is never answered, any other one is.
THEOREM BrokenNotAnswered == Spec => []AnsweredUnlessBroken
<1>1. Inv => AnsweredUnlessBroken
  BY DEF Inv, Phased, AnsweredUnlessBroken
<1> QED
  BY <1>1, InvCorrect, PTL

\* Nothing is cut of an empty value.
LEMMA CutEmpty ==
  ASSUME NEW k \in Buffers
  PROVE  Cut(k, <<>>) = <<>>
<1> DEFINE e == <<>>
<1>1. e \in Strings /\ Len(e) = 0
  BY DEF Strings
<1> HIDE DEF e
<1>2. Len(e) <= Capacity[k]
  BY <1>1, Sizes
<1>3. Cut(k, e) = e
  BY <1>1, <1>2, CutString
<1> QED
  BY <1>3 DEF e

\* The request_t says what was sent, cut to its buffers.
LEMMA Said ==
  ASSUME Inv
  PROVE  /\ \A k \in Keys : LastSent(k) \in Strings
         /\ \A k \in Keys : \A v \in AllSent(k) : v \in Strings
         /\ \A k \in Keys : LastSent(k) = <<>> \/ LastSent(k) \in AllSent(k)
         /\ \A k \in Stored \ {"origin"} : req.str[k] = Cut(k, LastSent(k))
         /\ req.str["origin"] = tolower(Cut("origin", LastSent("origin")))
         /\ \A w : w \in req.protocols <=>
               \E v \in AllSent("sec-websocket-protocol") :
                  w \in Items(Cut("sec-websocket-protocol", v))
         /\ req.fl_upgrade_found <=>
               \E v \in AllSent("upgrade") : IsWebsocket(Cut("upgrade", v))
         /\ req.fl_connection_found =>
               \/ undefined
               \/ \E v \in AllSent("connection") : Upgrades(Cut("connection", v))
         /\ \A v \in AllSent("connection") :
               Upgrades(Cut("connection", v)) => req.fl_connection_found
<1> DEFINE n == Lens(fields)
<1>1. fields \in Fields /\ Recorded(req, fields, n, undefined)
  BY DEF Inv, Typed
<1>2. \A k \in Keys : fields[k] \in Seq(Strings) /\ Len(fields[k]) \in Nat
  BY <1>1 DEF Fields
<1>3. \A k \in Keys : n[k] = Len(fields[k])
  BY DEF Lens
<1> HIDE DEF n
<1>4. \A k \in Keys : AllSent(k) = {fields[k][i] : i \in 1 .. n[k]}
  BY <1>2, <1>3 DEF AllSent, Range
<1>5. \A k \in Keys : \A v \in AllSent(k) : v \in Strings
  BY <1>2, <1>3, <1>4
<1>6. \A k \in Keys : LastSent(k) = IF n[k] = 0 THEN <<>> ELSE fields[k][n[k]]
  BY <1>2, <1>3 DEF LastSent
<1>7. \A k \in Keys : LastSent(k) = <<>> \/ LastSent(k) \in AllSent(k)
  <2> SUFFICES ASSUME NEW k \in Keys, n[k] # 0
               PROVE  fields[k][n[k]] \in AllSent(k)
    BY <1>6
  <2>1. n[k] \in 1 .. n[k]
    BY <1>2, <1>3
  <2> QED
    BY <1>4, <2>1
<1>8. \A k \in Keys : LastSent(k) \in Strings
  <2>1. <<>> \in Strings
    BY DEF Strings
  <2> QED
    BY <1>5, <1>7, <2>1
<1>9. \A k \in Keys : Final(fields, n, k) = Cut(k, LastSent(k))
  <2> SUFFICES ASSUME NEW k \in Keys
               PROVE  Final(fields, n, k) = Cut(k, LastSent(k))
    OBVIOUS
  <2>1. CASE n[k] = 0
    <3>1. LastSent(k) = <<>> /\ Final(fields, n, k) = <<>>
      BY <1>6, <2>1 DEF Final
    <3>2. Cut(k, <<>>) = <<>>
      BY KeyShape, CutEmpty
    <3> QED
      BY <3>1, <3>2
  <2>2. CASE n[k] # 0
    BY <1>6, <2>2 DEF Final
  <2> QED
    BY <2>1, <2>2
<1>10. /\ "origin" \in Keys /\ "connection" \in Keys /\ "upgrade" \in Keys
       /\ "sec-websocket-protocol" \in Keys /\ Stored \subseteq Keys
  BY DEF Keys, Stored
<1>11. /\ \A k \in Stored \ {"origin"} : req.str[k] = Cut(k, LastSent(k))
       /\ req.str["origin"] = tolower(Cut("origin", LastSent("origin")))
  BY <1>1, <1>9, <1>10 DEF Recorded
<1>12. \A w : w \in req.protocols <=>
          \E v \in AllSent("sec-websocket-protocol") :
             w \in Items(Cut("sec-websocket-protocol", v))
  BY <1>1, <1>4, <1>10 DEF Recorded
<1>13. req.fl_upgrade_found <=>
          \E v \in AllSent("upgrade") : IsWebsocket(Cut("upgrade", v))
  BY <1>1, <1>4, <1>10 DEF Recorded
<1>14. /\ req.fl_connection_found =>
             \/ undefined
             \/ \E v \in AllSent("connection") : Upgrades(Cut("connection", v))
       /\ \A v \in AllSent("connection") :
             Upgrades(Cut("connection", v)) => req.fl_connection_found
  BY <1>1, <1>4, <1>10 DEF Recorded
<1> QED
  BY <1>5, <1>7, <1>8, <1>11, <1>12, <1>13, <1>14

\* The words that are looked for, and the room for them.
LEMMA LookedFor ==
  /\ Word("get") \in Strings /\ Len(Word("get")) < Capacity["method"]
  /\ Word("websocket") \in Strings /\ Len(Word("websocket")) < Capacity["upgrade"]
  /\ Word("13") \in Strings /\ Len(Word("13")) < Capacity["sec-websocket-version"]
  /\ Word("xmpp") \in Strings /\ Len(Word("xmpp")) < Capacity["token"]
  /\ Word("upgrade") \in Strings /\ Len(Word("upgrade")) < Capacity["token"]
<1>1. {"get", "websocket", "13", "xmpp", "upgrade"} \subseteq Names
  BY DEF Names
<1> QED
  BY <1>1, WordShape, CapacityAssumption

\* What is kept of a value is a word that is looked for only if the value is.
LEMMA CutWord ==
  ASSUME NEW k \in Buffers, NEW y \in Strings, NEW w \in Strings, Len(w) < Capacity[k]
  PROVE  /\ Cut(k, y) = w <=> y = w
         /\ tolower(Cut(k, y)) = w <=> tolower(y) = w
<1>1. /\ Cut(k, y) \in Strings
      /\ Len(y) <= Capacity[k] => Cut(k, y) = y
      /\ Len(Cut(k, y)) < Capacity[k] => Cut(k, y) = y
  BY CutString
<1>2. Len(tolower(y)) = Len(y) /\ Len(tolower(Cut(k, y))) = Len(Cut(k, y))
  BY <1>1, LowerShape
<1>3. Len(w) \in Nat /\ Capacity[k] \in Nat
  BY Sizes DEF Strings
<1>4. Cut(k, y) = w => Cut(k, y) = y
  BY <1>1
<1>5. tolower(Cut(k, y)) = w => Cut(k, y) = y
  BY <1>1, <1>2
<1>6. y = w => Len(y) <= Capacity[k]
  BY <1>3
<1>7. tolower(y) = w => Len(y) <= Capacity[k]
  BY <1>2, <1>3
<1> QED
  BY <1>1, <1>4, <1>5, <1>6, <1>7

\* The items that are looked for are the ones of the list.
LEMMA ListedItems ==
  ASSUME NEW s \in Strings
  PROVE  /\ Word("xmpp") \in Items(s) <=> Word("xmpp") \in Tokens(s)
         /\ Upgrades(s) <=> \E w \in Tokens(s) : tolower(w) = Word("upgrade")
<1>1. Tokens(s) \in SUBSET Strings /\ "token" \in Buffers
  BY TokenStrings, KeyShape
<1>2. Items(s) = {Cut("token", w) : w \in Tokens(s)}
  BY DEF Items, Cut
<1>3. \A w \in Tokens(s) : Cut("token", w) = Word("xmpp") <=> w = Word("xmpp")
  BY <1>1, LookedFor, CutWord
<1>4. \A w \in Tokens(s) :
         tolower(Cut("token", w)) = Word("upgrade") <=> tolower(w) = Word("upgrade")
  BY <1>1, LookedFor, CutWord
<1> QED
  BY <1>2, <1>3, <1>4 DEF Upgrades

\* The answer to an accepted request echoes its Connection header.
THEOREM UpgradeEchoed == Spec => []EchoesUpgrade
<1>1. Inv => EchoesUpgrade
  <2> SUFFICES ASSUME Inv, response.status = 101, Len(fields["connection"]) = 1,
                      ~undefined
               PROVE  \E w \in Tokens(response.connection) : tolower(w) = Word("upgrade")
    BY DEF EchoesUpgrade
  <2>1. phase = "answered" /\ response = rq_analyze(req)
    BY DEF Inv, Phased, NoResponse
  <2>2. /\ response.connection = req.str["connection"]
        /\ ~Checks(req)[7][2]
    <3>1. \A i \in 1 .. 9 : Checks(req)[i][1] # 101
      BY DEF Checks
    <3> QED
      BY <2>1, <3>1, Verdicts
  <2>3. req.fl_connection_found
    BY <2>2, CheckList
  <2>4. PICK v \in AllSent("connection") : Upgrades(Cut("connection", v))
    BY <2>3, Said
  <2>5. fields["connection"] \in Seq(Strings) /\ "connection" \in Keys
    BY DEF Inv, Typed, Fields, Keys
  <2>6. v = LastSent("connection")
    BY <2>5 DEF AllSent, LastSent, Range
  <2>7. req.str["connection"] = Cut("connection", LastSent("connection"))
    BY Said DEF Stored, Keys
  <2>8. Cut("connection", v) \in Strings
    <3>1. v \in Strings /\ "connection" \in Buffers
      BY <2>4, <2>5, Said, KeyShape
    <3> QED
      BY <3>1, CutString
  <2>9. response.connection = Cut("connection", v)
    BY <2>2, <2>6, <2>7
  <2> QED
    BY <2>4, <2>8, <2>9, ListedItems
<1> QED
  BY <1>1, InvCorrect, PTL

\* The list of origins as config_check_origin and as its author sees it.
LEMMA SameOrigins ==
  ASSUME conf.origin_list \in Seq(Strings), Range(conf.origin_list) = meant.origins,
         NEW w
  PROVE  config_check_origin(conf, w) <=>
            meant.origins = {} \/ \E pattern \in meant.origins : fnmatch(pattern, w)
<1> DEFINE o == conf.origin_list
<1>1. meant.origins = {o[i] : i \in 1 .. Len(o)} /\ Len(o) \in Nat
  BY DEF Range
<1>2. o = <<>> <=> meant.origins = {}
  <2>1. CASE o = <<>>
    BY <1>1, <2>1
  <2>2. CASE o # <<>>
    <3>1. 1 \in 1 .. Len(o)
      BY <2>2
    <3> QED
      BY <1>1, <2>2, <3>1
  <2> QED
    BY <2>1, <2>2
<1> QED
  BY <1>1, <1>2 DEF config_check_origin

\* The answer is given when the request is complete.
LEMMA AnsweredThen ==
  ASSUME Inv, response.status # 0
  PROVE  /\ phase = "answered" /\ response = rq_analyze(req)
         /\ asked[1] \in Strings /\ asked[2] \in Strings
         /\ req.method = Cut("method", asked[1])
         /\ req.resource = Cut("resource", asked[2])
<1>1. phase = "answered"
  BY DEF Inv, Phased, NoResponse
<1>2. asked \in Seq(Strings) /\ Len(asked) >= 3
  BY <1>1 DEF Inv, Typed, Phased, Proper
<1>3. asked[1] \in Strings /\ asked[2] \in Strings
  BY <1>2
<1> QED
  BY <1>1, <1>3 DEF Inv, Phased, Proper


-----------------------------------------------------------------------------
(***************************************************************************)
(* Reading the configuration                                               *)
(***************************************************************************)

\* The entries before the i-th that give the setting s.
Giving(f, i, s) ==
    {k \in 1 .. Len(f) : k < i /\ f[k].key = s /\ f[k].layout = "scalar"}

\* The value in the last of the entries `at'.
LastValue(f, at) ==
    IF at = {} THEN NULL ELSE f[CHOOSE k \in at : \A j \in at : j <= k].words[1]

\* The settings in the entries before the i-th.
SettingsBefore(f, i) == [s \in Settings |-> LastValue(f, Giving(f, i, s))]

\* The items of indented origin lists up to the m-th word of the i-th entry.
ItemsRead(f, i, m) ==
    {x \in (1 .. Len(f)) \X Nat :
        /\ f[x[1]].key = "origin" /\ f[x[1]].layout = "list"
        /\ x[2] \in 1 .. Len(f[x[1]].words)
        /\ x[1] < i \/ (x[1] = i /\ x[2] <= m)}

\* The origins that these items name.
OriginsRead(f, i, m) == {tolower(f[x[1]].words[x[2]]) : x \in ItemsRead(f, i, m)}

\* The words of the i-th entry that have been read before its j-th token.
WordsRead(f, i, j) ==
    IF i \in 1 .. Len(f) /\ j > 4 /\ f[i].layout = "list" THEN (j - 5) \div 2 ELSE 0

\* c holds what the file says up to a place in it.
Agrees(c, f, i, m) ==
    /\ c.setting = SettingsBefore(f, i)
    /\ Range(c.origin_list) = OriginsRead(f, i, m)

\* The level before the j-th token of the i-th part.
LevelAt(f, i, j) ==
    CASE i = 0 -> 0
      [] i \in 1 .. Len(f) ->
            IF j > 4 /\ f[i].layout \in {"list", "mapping"} THEN 2 ELSE 1
      [] i = Len(f) + 1 -> IF j = 1 THEN 1 ELSE 0

Conf == [setting : [Settings -> Strings \cup {NULL}], origin_list : Seq(Strings)]

Types == {"STREAM_START", "STREAM_END", "KEY", "VALUE", "SCALAR", "BLOCK_ENTRY",
          "BLOCK_END", "BLOCK_SEQUENCE_START", "BLOCK_MAPPING_START",
          "FLOW_SEQUENCE_START"}

Parser == [level : Int, prev_token : Types \cup {"NO"}, key : Names,
           conf : Conf]

\* The variables of config_parse before the j-th token of the i-th part.
Position(f, p, i, j) ==
    /\ i \in 0 .. Len(f) + 1 /\ j \in 1 .. Len(Scan(f, i))
    /\ p.level = LevelAt(f, i, j)
    /\ j > 1 => p.prev_token = Scan(f, i)[j - 1].type
    /\ i \in 1 .. Len(f) /\ j > 2 /\ f[i].layout # "mapping" => p.key = f[i].key
    /\ Agrees(p.conf, f, i, WordsRead(f, i, j))

\* While config_parse runs.
Reading ==
    /\ file \in Seq(ConfigEntry) /\ parser \in Parser
    /\ scanned \in [part : Nat, token : Nat]
    /\ Position(file, parser, scanned.part, scanned.token)
    /\ meant = Meaning(file) /\ indented = Indented(file)

\* The inductive invariant: the conf that config_parse returns is the one it had
\* at the last token.
ConfInv == (phase = "config" => Reading) /\ ConfAsWritten

\* Only a scalar has a word.
TokenSet ==
    {t \in [type : Types, word : Strings \cup {NoWord}] :
        t.type = "SCALAR" => t.word \in Strings}

\* The tokens of the items of a list.
LEMMA ItemTokens ==
  ASSUME NEW words \in Seq(Strings)
  PROVE  /\ ScanItems(words) \in Seq(TokenSet)
         /\ Len(ScanItems(words)) = 2 * Len(words)
         /\ \A n \in 1 .. 2 * Len(words) :
               /\ n % 2 = 1 => ScanItems(words)[n].type = "BLOCK_ENTRY"
               /\ n % 2 # 1 => /\ ScanItems(words)[n].type = "SCALAR"
                               /\ n \div 2 \in 1 .. Len(words)
                               /\ ScanItems(words)[n].word = words[n \div 2]
<1>1. Len(words) \in Nat /\ 2 * Len(words) \in Nat
  OBVIOUS
<1>2. \A n \in 1 .. 2 * Len(words) : n % 2 # 1 => n \div 2 \in 1 .. Len(words)
  BY <1>1
<1>4. ASSUME NEW n \in 1 .. 2 * Len(words)
      PROVE  /\ ScanItems(words)[n] = IF n % 2 = 1 THEN Token("BLOCK_ENTRY", NoWord)
                                      ELSE Token("SCALAR", words[n \div 2])
             /\ ScanItems(words)[n] \in TokenSet
             /\ n % 2 # 1 => words[n \div 2] \in Strings
  <2>1. ScanItems(words)[n] = IF n % 2 = 1 THEN Token("BLOCK_ENTRY", NoWord)
                              ELSE Token("SCALAR", words[n \div 2])
    BY DEF ScanItems
  <2>2. CASE n % 2 = 1
    BY <2>1, <2>2 DEF Token, TokenSet, Types
  <2>3. CASE n % 2 # 1
    <3>1. words[n \div 2] \in Strings
      BY <1>2, <2>3
    <3> QED
      BY <2>1, <2>3, <3>1 DEF Token, TokenSet, Types
  <2> QED
    BY <2>2, <2>3, <2>1
<1>5. /\ ScanItems(words) \in [1 .. 2 * Len(words) -> TokenSet]
  <2>1. ScanItems(words) = [n \in 1 .. 2 * Len(words) |-> ScanItems(words)[n]]
    BY DEF ScanItems
  <2> QED
    BY <2>1, <1>4
<1>6. ScanItems(words) \in Seq(TokenSet) /\ Len(ScanItems(words)) = 2 * Len(words)
  BY <1>1, <1>5
<1>7. ASSUME NEW n \in 1 .. 2 * Len(words)
      PROVE  /\ n % 2 = 1 => ScanItems(words)[n].type = "BLOCK_ENTRY"
             /\ n % 2 # 1 => /\ ScanItems(words)[n].type = "SCALAR"
                             /\ n \div 2 \in 1 .. Len(words)
                             /\ ScanItems(words)[n].word = words[n \div 2]
  <2>1. CASE n % 2 = 1
    <3>1. ScanItems(words)[n] = Token("BLOCK_ENTRY", NoWord)
      BY <1>4, <2>1
    <3>2. Token("BLOCK_ENTRY", NoWord).type = "BLOCK_ENTRY"
      BY DEF Token
    <3> QED
      BY <2>1, <3>1, <3>2
  <2>2. CASE n % 2 # 1
    <3> DEFINE w == words[n \div 2]
    <3>1. ScanItems(words)[n] = Token("SCALAR", w)
      BY <1>4, <2>2
    <3>2. Token("SCALAR", w).type = "SCALAR" /\ Token("SCALAR", w).word = w
      BY DEF Token
    <3> QED
      BY <1>2, <2>2, <3>1, <3>2
  <2> QED
    BY <2>1, <2>2
<1> QED
  BY <1>6, <1>7

\* Two sequences of tokens joined.
LEMMA Joined ==
  ASSUME NEW s \in Seq(TokenSet), NEW t \in Seq(TokenSet)
  PROVE  /\ s \o t \in Seq(TokenSet) /\ Len(s \o t) = Len(s) + Len(t)
         /\ \A k \in 1 .. Len(s) : (s \o t)[k] = s[k]
         /\ \A k \in 1 .. Len(t) : (s \o t)[Len(s) + k] = t[k]
  OBVIOUS

\* A sequence behind three tokens.
Behind(v, s) ==
    /\ s \in Seq(TokenSet) /\ Len(s) = 3 + Len(v)
    /\ s[1].type = "KEY" /\ s[2].type = "SCALAR" /\ s[3].type = "VALUE"
    /\ \A k \in 1 .. Len(v) : s[3 + k] = v[k]

\* Every entry starts with its key.
LEMMA HeadTokens ==
  ASSUME NEW v \in Seq(TokenSet), NEW w \in Strings
  PROVE  LET s == <<Token("KEY", NoWord), Token("SCALAR", w),
                    Token("VALUE", NoWord)>> \o v
         IN  Behind(v, s) /\ s[2].word = w
<1> DEFINE a == Token("KEY", NoWord)
           b == Token("SCALAR", w)
           c == Token("VALUE", NoWord)
<1>2. /\ a \in TokenSet /\ b \in TokenSet /\ c \in TokenSet
      /\ a.type = "KEY" /\ b.type = "SCALAR" /\ c.type = "VALUE" /\ b.word = w
  BY DEF Token, TokenSet, Types
<1> HIDE DEF a, b, c
<1> DEFINE h == <<a, b, c>>
<1>3. h \in Seq(TokenSet) /\ Len(h) = 3 /\ h[1] = a /\ h[2] = b /\ h[3] = c
  BY <1>2
<1> HIDE DEF h
<1>4. /\ h \o v \in Seq(TokenSet) /\ Len(h \o v) = Len(h) + Len(v)
      /\ \A k \in 1 .. Len(h) : (h \o v)[k] = h[k]
      /\ \A k \in 1 .. Len(v) : (h \o v)[Len(h) + k] = v[k]
  BY <1>3, Joined
<1>5. (h \o v)[1] = a /\ (h \o v)[2] = b /\ (h \o v)[3] = c
  BY <1>3, <1>4
<1>6. \A k \in 1 .. Len(v) : (h \o v)[3 + k] = v[k]
  BY <1>3, <1>4
<1> QED
  BY <1>2, <1>3, <1>4, <1>5, <1>6 DEF Behind, h, a, b, c

\* The tokens of a value, by its layout.
ListTokens(words, v) ==
    /\ Len(v) = 2 * Len(words) + 2
    /\ v[1].type = "BLOCK_SEQUENCE_START"
    /\ \A n \in 1 .. 2 * Len(words) : v[n + 1] = ScanItems(words)[n]
    /\ v[2 * Len(words) + 2].type = "BLOCK_END"

MappingTokens(v) ==
    /\ Len(v) = 6
    /\ v[1].type = "BLOCK_MAPPING_START" /\ v[2].type = "KEY"
    /\ v[3].type = "SCALAR" /\ v[4].type = "VALUE" /\ v[5].type = "SCALAR"
    /\ v[6].type = "BLOCK_END"
    /\ v[3].word \in Strings /\ v[5].word \in Strings

\* What libyaml makes of each layout.
LEMMA ValueTokens ==
  ASSUME NEW e \in ConfigEntry
  PROVE  /\ ScanValue(e) \in Seq(TokenSet)
         /\ e.layout = "scalar" => /\ Len(ScanValue(e)) = 1 /\ e.words[1] \in Strings
                                   /\ ScanValue(e)[1].type = "SCALAR"
                                   /\ ScanValue(e)[1].word = e.words[1]
         /\ e.layout = "list" => ListTokens(e.words, ScanValue(e))
         /\ e.layout = "flush" => ScanValue(e) = ScanItems(e.words)
         /\ e.layout = "brackets" => /\ Len(ScanValue(e)) = 1
                                     /\ ScanValue(e)[1].type = "FLOW_SEQUENCE_START"
         /\ e.layout = "mapping" => MappingTokens(ScanValue(e))
<1>1. /\ e.words \in Seq(Strings) /\ e.layout \in Layout
      /\ e.layout = "scalar" => Len(e.words) = 1
      /\ e.layout = "mapping" => Len(e.words) = 2
  BY DEF ConfigEntry
<1>2. CASE e.layout = "scalar"
  <2>1. e.words[1] \in Strings
    BY <1>1, <1>2
  <2> DEFINE t == Token("SCALAR", e.words[1])
  <2>2. t \in TokenSet /\ t.type = "SCALAR" /\ t.word = e.words[1]
    BY <2>1 DEF Token, TokenSet, Types
  <2>3. ScanValue(e) = <<t>>
    BY <1>2 DEF ScanValue
  <2> HIDE DEF t
  <2>4. ScanValue(e) \in Seq(TokenSet) /\ Len(ScanValue(e)) = 1 /\ ScanValue(e)[1] = t
    BY <2>2, <2>3
  <2> QED
    BY <1>2, <2>1, <2>2, <2>4
<1>3. CASE e.layout = "list"
  <2> DEFINE a == Token("BLOCK_SEQUENCE_START", NoWord)
             b == Token("BLOCK_END", NoWord)
             s == ScanItems(e.words)
             L == Len(e.words)
  <2>1. /\ a \in TokenSet /\ a.type = "BLOCK_SEQUENCE_START"
        /\ b \in TokenSet /\ b.type = "BLOCK_END"
    BY DEF Token, TokenSet, Types
  <2>2. s \in Seq(TokenSet) /\ Len(s) = 2 * L /\ L \in Nat
    BY <1>1, ItemTokens
  <2>3. ScanValue(e) = <<a>> \o s \o <<b>>
    BY <1>3 DEF ScanValue
  <2> HIDE DEF a, b, s, L
  <2> DEFINE x == <<a>> \o s
  <2>4. /\ x \in Seq(TokenSet) /\ Len(x) = 2 * L + 1 /\ x[1] = a
        /\ \A n \in 1 .. 2 * L : x[n + 1] = s[n]
    BY <2>1, <2>2
  <2>5. ScanValue(e) = x \o <<b>>
    BY <2>3
  <2> HIDE DEF x
  <2> DEFINE y == <<b>>
  <2>6. y \in Seq(TokenSet) /\ Len(y) = 1 /\ y[1] = b
    BY <2>1
  <2>7. ScanValue(e) = x \o y
    BY <2>5
  <2> HIDE DEF y
  <2>8. /\ x \o y \in Seq(TokenSet) /\ Len(x \o y) = Len(x) + Len(y)
        /\ \A k \in 1 .. Len(x) : (x \o y)[k] = x[k]
        /\ \A k \in 1 .. Len(y) : (x \o y)[Len(x) + k] = y[k]
    BY <2>4, <2>6, Joined
  <2>9. /\ ScanValue(e) \in Seq(TokenSet) /\ Len(ScanValue(e)) = 2 * L + 2
        /\ ScanValue(e)[1] = a /\ ScanValue(e)[2 * L + 2] = b
    <3>1. Len(x) + 1 = 2 * L + 2 /\ 1 \in 1 .. Len(x) /\ 1 \in 1 .. Len(y)
      BY <2>2, <2>4, <2>6
    <3> QED
      BY <2>4, <2>6, <2>7, <2>8, <3>1
  <2>10. \A n \in 1 .. 2 * L : ScanValue(e)[n + 1] = s[n]
    <3> SUFFICES ASSUME NEW n \in 1 .. 2 * L PROVE ScanValue(e)[n + 1] = s[n]
      OBVIOUS
    <3>1. n + 1 \in 1 .. Len(x) /\ x[n + 1] = s[n]
      BY <2>2, <2>4
    <3> QED
      BY <2>7, <2>8, <3>1
  <2> QED
    BY <1>3, <2>1, <2>9, <2>10 DEF ListTokens, s, L
<1>4. CASE e.layout = "flush"
  <2>1. ScanValue(e) = ScanItems(e.words)
    BY <1>4 DEF ScanValue
  <2> QED
    BY <1>1, <1>4, <2>1, ItemTokens
<1>5. CASE e.layout = "brackets"
  <2> DEFINE t == Token("FLOW_SEQUENCE_START", NoWord)
  <2>2. t \in TokenSet /\ t.type = "FLOW_SEQUENCE_START"
    BY DEF Token, TokenSet, Types
  <2>3. ScanValue(e) = <<t>>
    BY <1>5 DEF ScanValue
  <2> HIDE DEF t
  <2>4. ScanValue(e) \in Seq(TokenSet) /\ Len(ScanValue(e)) = 1 /\ ScanValue(e)[1] = t
    BY <2>2, <2>3
  <2> QED
    BY <1>5, <2>2, <2>4
<1>6. CASE e.layout = "mapping"
  <2>1. e.words[1] \in Strings /\ e.words[2] \in Strings
    BY <1>1, <1>6
  <2> DEFINE a == Token("BLOCK_MAPPING_START", NoWord)
             b == Token("KEY", NoWord)
             c == Token("SCALAR", e.words[1])
             d == Token("VALUE", NoWord)
             g == Token("SCALAR", e.words[2])
             h == Token("BLOCK_END", NoWord)
  <2>2. /\ a \in TokenSet /\ a.type = "BLOCK_MAPPING_START"
        /\ b \in TokenSet /\ b.type = "KEY"
        /\ c \in TokenSet /\ c.type = "SCALAR" /\ c.word = e.words[1]
        /\ d \in TokenSet /\ d.type = "VALUE"
        /\ g \in TokenSet /\ g.type = "SCALAR" /\ g.word = e.words[2]
        /\ h \in TokenSet /\ h.type = "BLOCK_END"
    BY <1>1, <2>1 DEF Token, TokenSet, Types
  <2>3. ScanValue(e) = <<a, b, c, d, g, h>>
    BY <1>6 DEF ScanValue
  <2> HIDE DEF a, b, c, d, g, h
  <2>4. /\ ScanValue(e) \in Seq(TokenSet) /\ Len(ScanValue(e)) = 6
        /\ ScanValue(e)[1] = a /\ ScanValue(e)[2] = b /\ ScanValue(e)[3] = c
        /\ ScanValue(e)[4] = d /\ ScanValue(e)[5] = g /\ ScanValue(e)[6] = h
    BY <2>2, <2>3
  <2> QED
    BY <1>6, <2>1, <2>2, <2>4 DEF MappingTokens
<1> QED
  BY <1>1, <1>2, <1>3, <1>4, <1>5, <1>6 DEF Layout

\* The tokens of an entry.
LEMMA EntryTokens ==
  ASSUME NEW f \in Seq(ConfigEntry), NEW i \in 1 .. Len(f)
  PROVE  /\ f[i] \in ConfigEntry /\ ScanValue(f[i]) \in Seq(TokenSet)
         /\ Behind(ScanValue(f[i]), Scan(f, i))
         /\ Word(f[i].key) \in Strings /\ NameOf(Word(f[i].key)) = f[i].key
         /\ Scan(f, i)[2].word = Word(f[i].key)
<1>1. f[i] \in ConfigEntry
  OBVIOUS
<1>2. f[i].key \in Names
  BY <1>1 DEF ConfigEntry
<1>3. Word(f[i].key) \in Strings /\ NameOf(Word(f[i].key)) = f[i].key
  BY <1>2, WordShape
<1>4. ScanValue(f[i]) \in Seq(TokenSet)
  BY <1>1, ValueTokens
<1>5. Scan(f, i) = <<Token("KEY", NoWord), Token("SCALAR", Word(f[i].key)),
                     Token("VALUE", NoWord)>> \o ScanValue(f[i])
  <2>1. i # 0 /\ i # Len(f) + 1
    OBVIOUS
  <2> QED
    BY <2>1 DEF Scan
<1> QED
  BY <1>1, <1>3, <1>4, <1>5, HeadTokens

\* The tokens before and behind the entries.
LEMMA EndTokens ==
  ASSUME NEW f \in Seq(ConfigEntry)
  PROVE  /\ Scan(f, 0) \in Seq(TokenSet) /\ Len(Scan(f, 0)) = 2
         /\ Scan(f, 0)[1].type = "STREAM_START"
         /\ Scan(f, 0)[2].type = "BLOCK_MAPPING_START"
         /\ Scan(f, Len(f) + 1) \in Seq(TokenSet) /\ Len(Scan(f, Len(f) + 1)) = 2
         /\ Scan(f, Len(f) + 1)[1].type = "BLOCK_END"
         /\ Scan(f, Len(f) + 1)[2].type = "STREAM_END"
<1> DEFINE a == Token("STREAM_START", NoWord)
           b == Token("BLOCK_MAPPING_START", NoWord)
           c == Token("BLOCK_END", NoWord)
           d == Token("STREAM_END", NoWord)
           n == Len(f) + 1
<1>1. /\ a \in TokenSet /\ a.type = "STREAM_START"
      /\ b \in TokenSet /\ b.type = "BLOCK_MAPPING_START"
      /\ c \in TokenSet /\ c.type = "BLOCK_END"
      /\ d \in TokenSet /\ d.type = "STREAM_END"
  BY DEF Token, TokenSet, Types
<1>2. n # 0 /\ n \notin 1 .. Len(f)
  OBVIOUS
<1>3. Scan(f, 0) = <<a, b>>
  BY DEF Scan
<1>4. Scan(f, n) = <<c, d>>
  BY <1>2 DEF Scan
<1> HIDE DEF a, b, c, d, n
<1>5. \A x, y \in TokenSet :
         /\ <<x, y>> \in Seq(TokenSet) /\ Len(<<x, y>>) = 2
         /\ <<x, y>>[1] = x /\ <<x, y>>[2] = y
  OBVIOUS
<1> DEFINE x == Scan(f, 0)
           y == Scan(f, n)
<1> HIDE DEF x, y
<1>6. x = <<a, b>> /\ y = <<c, d>>
  BY <1>3, <1>4 DEF x, y
<1>7. x \in Seq(TokenSet) /\ Len(x) = 2 /\ x[1] = a /\ x[2] = b
  BY <1>1, <1>5, <1>6
<1>8. y \in Seq(TokenSet) /\ Len(y) = 2 /\ y[1] = c /\ y[2] = d
  BY <1>1, <1>5, <1>6
<1>9. /\ x[1].type = "STREAM_START" /\ x[2].type = "BLOCK_MAPPING_START"
      /\ y[1].type = "BLOCK_END" /\ y[2].type = "STREAM_END"
  BY <1>1, <1>7, <1>8
<1> QED
  BY <1>7, <1>8, <1>9 DEF x, y, n

\* No part is empty.
LEMMA PartTokens ==
  ASSUME NEW f \in Seq(ConfigEntry), NEW i \in 0 .. Len(f) + 1
  PROVE  Scan(f, i) \in Seq(TokenSet) /\ Len(Scan(f, i)) > 1
<1>1. CASE i \in 1 .. Len(f)
  <2>1. /\ ScanValue(f[i]) \in Seq(TokenSet) /\ Scan(f, i) \in Seq(TokenSet)
        /\ Len(Scan(f, i)) = 3 + Len(ScanValue(f[i]))
    BY <1>1, EntryTokens DEF Behind
  <2> QED
    BY <2>1
<1>2. CASE i = 0 \/ i = Len(f) + 1
  BY <1>2, EndTokens
<1> QED
  BY <1>1, <1>2

\* A token that is no scalar changes the level and nothing that is stored.
LEMMA PlainToken ==
  ASSUME NEW p \in Parser, NEW t \in TokenSet, t.type # "SCALAR"
  PROVE  LET q == ParseToken(p, t)
         IN  /\ q \in Parser /\ q.prev_token = t.type
             /\ q.key = p.key /\ q.conf = p.conf
             /\ Nesting(t.type) => q.level = p.level + 1
             /\ t.type = "BLOCK_END" => q.level = p.level - 1
             /\ ~Nesting(t.type) /\ t.type # "BLOCK_END" => q.level = p.level
<1> DEFINE n == CASE Nesting(t.type) -> p.level + 1
                  [] t.type = "BLOCK_END" -> p.level - 1
                  [] OTHER -> p.level
<1>1. ParseToken(p, t) = [p EXCEPT !.prev_token = t.type, !.level = n]
  BY DEF ParseToken
<1>2. /\ n \in Int
      /\ Nesting(t.type) => n = p.level + 1
      /\ t.type = "BLOCK_END" => n = p.level - 1
      /\ ~Nesting(t.type) /\ t.type # "BLOCK_END" => n = p.level
  <2>1. p.level \in Int
    BY DEF Parser
  <2>2. ~(Nesting(t.type) /\ t.type = "BLOCK_END")
    BY DEF Nesting
  <2> QED
    BY <2>1, <2>2
<1>3. t.type \in Types
  BY DEF TokenSet
<1> HIDE DEF n
<1> QED
  BY <1>1, <1>2, <1>3 DEF Parser

\* A scalar is a key, an origin, a setting or nothing.
LEMMA ScalarToken ==
  ASSUME NEW p \in Parser, NEW t \in TokenSet, t.type = "SCALAR", t.word \in Strings
  PROVE  LET q == ParseToken(p, t)
             origin  == p.prev_token = "BLOCK_ENTRY" /\ p.level = 2 /\ p.key = "origin"
             setting == p.prev_token = "VALUE" /\ p.level = 1 /\ p.key \in Settings
         IN  /\ q \in Parser /\ q.prev_token = "SCALAR" /\ q.level = p.level
             /\ p.prev_token = "KEY" => q.key = NameOf(t.word) /\ q.conf = p.conf
             /\ p.prev_token # "KEY" => q.key = p.key
             /\ origin =>
                   /\ q.conf.setting = p.conf.setting
                   /\ q.conf.origin_list = <<tolower(t.word)>> \o p.conf.origin_list
             /\ setting =>
                   /\ q.conf.setting = [p.conf.setting EXCEPT ![p.key] = t.word]
                   /\ q.conf.origin_list = p.conf.origin_list
             /\ p.prev_token # "KEY" /\ ~origin /\ ~setting => q.conf = p.conf
<1> DEFINE w == t.word
           s == Scalar(p, w)
           origin  == p.prev_token = "BLOCK_ENTRY" /\ p.level = 2 /\ p.key = "origin"
           setting == p.prev_token = "VALUE" /\ p.level = 1 /\ p.key \in Settings
           old == p.conf.origin_list
           new == <<tolower(w)>> \o old
           given == [p.conf.setting EXCEPT ![p.key] = w]
           O == [p EXCEPT !.conf.origin_list = new]
           S == [p EXCEPT !.conf.setting[p.key] = w]
           K == [p EXCEPT !.key = NameOf(w)]
<1>1. /\ p.conf \in Conf /\ p.level \in Int /\ old \in Seq(Strings)
      /\ p.conf.setting \in [Settings -> Strings \cup {NULL}]
  BY DEF Parser, Conf
<1>2. tolower(w) \in Strings /\ NameOf(w) \in Names
  BY LowerShape, NameShape
<1>3. new \in Seq(Strings)
  <2>1. <<tolower(w)>> \in Seq(Strings)
    BY <1>2
  <2> QED
    BY <1>1, <2>1
<1>4. given \in [Settings -> Strings \cup {NULL}]
  BY <1>1
<1>5. K \in Parser /\ K.level = p.level /\ K.key = NameOf(w) /\ K.conf = p.conf
  BY <1>2 DEF Parser
<1>6. /\ O \in Parser /\ O.level = p.level /\ O.key = p.key
      /\ O.conf.setting = p.conf.setting /\ O.conf.origin_list = new
  <2> HIDE DEF new
  <2> QED
    BY <1>3 DEF Parser, Conf
<1>7. /\ S \in Parser /\ S.level = p.level /\ S.key = p.key
      /\ S.conf.setting = given /\ S.conf.origin_list = old
  <2>1. S = [p EXCEPT !.conf.setting = given]
    OBVIOUS
  <2> HIDE DEF S, given
  <2> QED
    BY <1>4, <2>1 DEF Parser, Conf
<1>8. /\ p.prev_token = "KEY" => s = K
      /\ origin => s = O
      /\ setting => s = S
      /\ p.prev_token # "KEY" /\ ~origin /\ ~setting => s = p
  <2> HIDE DEF K, S
  <2> QED
    BY DEF Scalar, K, S
<1>9. s \in Parser
  BY <1>5, <1>6, <1>7, <1>8
<1>10. /\ s.level = p.level
       /\ p.prev_token = "KEY" => s.key = NameOf(w) /\ s.conf = p.conf
       /\ p.prev_token # "KEY" => s.key = p.key
       /\ origin => s.conf.setting = p.conf.setting /\ s.conf.origin_list = new
       /\ setting => s.conf.setting = given /\ s.conf.origin_list = old
       /\ p.prev_token # "KEY" /\ ~origin /\ ~setting => s.conf = p.conf
  <2> HIDE DEF s, K, O, S
  <2> QED
    BY <1>5, <1>6, <1>7, <1>8
<1>11. ParseToken(p, t) = [s EXCEPT !.prev_token = "SCALAR", !.level = s.level]
  BY DEF ParseToken, Nesting
<1> HIDE DEF s
<1>12. /\ ParseToken(p, t) \in Parser
       /\ ParseToken(p, t).prev_token = "SCALAR"
       /\ ParseToken(p, t).level = s.level
       /\ ParseToken(p, t).key = s.key /\ ParseToken(p, t).conf = s.conf
  BY <1>9, <1>11 DEF Parser, Types
<1> QED
  BY <1>10, <1>12

\* A scalar after another token than the key indicator keeps the key.
LEMMA ScalarKeeps ==
  ASSUME NEW p \in Parser, NEW t \in TokenSet, t.type = "SCALAR", t.word \in Strings,
         p.prev_token # "KEY"
  PROVE  /\ ParseToken(p, t).prev_token = "SCALAR"
         /\ ParseToken(p, t).level = p.level /\ ParseToken(p, t).key = p.key
BY ScalarToken

\* The value of a setting is stored and nothing else changes.
LEMMA SettingToken ==
  ASSUME NEW p \in Parser, NEW t \in TokenSet, t.type = "SCALAR", t.word \in Strings,
         p.prev_token = "VALUE", p.level = 1, p.key \in Settings
  PROVE  /\ ParseToken(p, t).conf.setting = [p.conf.setting EXCEPT ![p.key] = t.word]
         /\ ParseToken(p, t).conf.origin_list = p.conf.origin_list
BY ScalarToken

\* A list with one more origin in front.
LEMMA RangeMore ==
  ASSUME NEW s \in Seq(Strings), NEW w \in Strings
  PROVE  <<w>> \o s \in Seq(Strings) /\ Range(<<w>> \o s) = {w} \cup Range(s)
<1> DEFINE t == <<w>> \o s
<1>1. /\ t \in Seq(Strings) /\ Len(t) = Len(s) + 1 /\ t[1] = w
      /\ \A k \in 1 .. Len(s) : t[k + 1] = s[k]
  OBVIOUS
<1> HIDE DEF t
<1>2. DOMAIN t = 1 .. Len(s) + 1 /\ DOMAIN s = 1 .. Len(s) /\ Len(s) \in Nat
  BY <1>1
<1>3. Range(t) \subseteq {w} \cup Range(s)
  <2> SUFFICES ASSUME NEW k \in 1 .. Len(s) + 1 PROVE t[k] \in {w} \cup Range(s)
    BY <1>2 DEF Range
  <2>1. CASE k = 1
    BY <1>1, <2>1
  <2>2. CASE k # 1
    <3>1. k - 1 \in 1 .. Len(s) /\ (k - 1) + 1 = k
      BY <1>2, <2>2
    <3>2. t[k] = s[k - 1]
      BY <1>1, <3>1
    <3> QED
      BY <1>2, <3>1, <3>2 DEF Range
  <2> QED
    BY <2>1, <2>2
<1>4. {w} \cup Range(s) \subseteq Range(t)
  <2>1. w \in Range(t)
    <3>1. 1 \in 1 .. Len(s) + 1
      BY <1>2
    <3> QED
      BY <1>1, <1>2, <3>1 DEF Range
  <2>2. ASSUME NEW k \in 1 .. Len(s) PROVE s[k] \in Range(t)
    <3>1. k + 1 \in 1 .. Len(s) + 1 /\ t[k + 1] = s[k]
      BY <1>1, <1>2
    <3> QED
      BY <1>2, <3>1 DEF Range
  <2> QED
    BY <1>2, <2>1, <2>2 DEF Range
<1> QED
  BY <1>1, <1>3, <1>4 DEF t

\* An indented list of origins.
IsList(e) == e.key = "origin" /\ e.layout = "list"

\* Nothing is read of an entry that is no indented origin list.
LEMMA OriginsSame ==
  ASSUME NEW f \in Seq(ConfigEntry), NEW i \in 1 .. Len(f), NEW m \in Nat,
         IsList(f[i]) => m >= Len(f[i].words)
  PROVE  OriginsRead(f, i + 1, 0) = OriginsRead(f, i, m)
<1>1. f[i] \in ConfigEntry /\ f[i].words \in Seq(Strings) /\ Len(f[i].words) \in Nat
  BY DEF ConfigEntry
<1>2. ASSUME NEW x \in (1 .. Len(f)) \X Nat,
             f[x[1]].key = "origin" /\ f[x[1]].layout = "list",
             x[2] \in 1 .. Len(f[x[1]].words)
      PROVE  x[1] < i + 1 \/ (x[1] = i + 1 /\ x[2] <= 0) <=>
             x[1] < i \/ (x[1] = i /\ x[2] <= m)
  <2> PICK a \in 1 .. Len(f), b \in Nat : x[1] = a /\ x[2] = b
    OBVIOUS
  <2>1. CASE a = i
    <3>1. b \in 1 .. Len(f[i].words) /\ IsList(f[i])
      BY <1>2, <2>1 DEF IsList
    <3>2. b <= m
      BY <1>1, <3>1
    <3> QED
      BY <2>1, <3>2
  <2>2. CASE a # i
    <3>1. b > 0
      <4>1. f[a] \in ConfigEntry
        OBVIOUS
      <4>2. Len(f[a].words) \in Nat /\ b \in 1 .. Len(f[a].words)
        BY <4>1, <1>2 DEF ConfigEntry
      <4> QED
        BY <4>2
    <3> QED
      BY <2>2, <3>1
  <2> QED
    BY <2>1, <2>2
<1>3. ItemsRead(f, i + 1, 0) = ItemsRead(f, i, m)
  BY <1>2 DEF ItemsRead
<1> QED
  BY <1>3 DEF OriginsRead

\* One more item of an indented origin list.
LEMMA OriginsMore ==
  ASSUME NEW f \in Seq(ConfigEntry), NEW i \in 1 .. Len(f), IsList(f[i]),
         NEW m \in 1 .. Len(f[i].words)
  PROVE  OriginsRead(f, i, m) = {tolower(f[i].words[m])} \cup OriginsRead(f, i, m - 1)
<1>1. f[i] \in ConfigEntry /\ f[i].words \in Seq(Strings) /\ Len(f[i].words) \in Nat
  BY DEF ConfigEntry
<1>2. m \in Nat /\ m - 1 \in Nat
  BY <1>1
<1>3. ItemsRead(f, i, m) = {<<i, m>>} \cup ItemsRead(f, i, m - 1)
  <2>1. <<i, m>> \in ItemsRead(f, i, m)
    BY <1>2 DEF ItemsRead, IsList
  <2>2. ItemsRead(f, i, m - 1) \subseteq ItemsRead(f, i, m)
    <3> SUFFICES ASSUME NEW x \in ItemsRead(f, i, m - 1) PROVE x \in ItemsRead(f, i, m)
      OBVIOUS
    <3>1. x[2] \in Nat /\ (x[2] <= m - 1 => x[2] <= m)
      BY <1>2 DEF ItemsRead
    <3> QED
      BY <3>1 DEF ItemsRead
  <2>3. ASSUME NEW x \in ItemsRead(f, i, m), x \notin ItemsRead(f, i, m - 1)
        PROVE  x = <<i, m>>
    <3>1. /\ x \in (1 .. Len(f)) \X Nat
          /\ ~(x[1] < i) /\ x[1] = i /\ x[2] <= m /\ ~(x[2] <= m - 1)
      BY <2>3 DEF ItemsRead
    <3>2. x[2] \in Nat /\ x = <<x[1], x[2]>>
      BY <3>1
    <3>3. x[2] = m
      BY <1>2, <3>1, <3>2
    <3> QED
      BY <3>1, <3>2, <3>3
  <2> QED
    BY <2>1, <2>2, <2>3
<1> DEFINE Origin(x) == tolower(f[x[1]].words[x[2]])
<1>4. Origin(<<i, m>>) = tolower(f[i].words[m])
  OBVIOUS
<1>5. OriginsRead(f, i, m) = {Origin(<<i, m>>)} \cup OriginsRead(f, i, m - 1)
  <2> HIDE DEF Origin
  <2>1. /\ OriginsRead(f, i, m) = {Origin(x) : x \in ItemsRead(f, i, m)}
        /\ OriginsRead(f, i, m - 1) = {Origin(x) : x \in ItemsRead(f, i, m - 1)}
    BY DEF OriginsRead, Origin
  <2> QED
    BY <1>3, <2>1
<1> QED
  BY <1>4, <1>5

\* An entry that gives no setting changes none.
LEMMA SettingsSame ==
  ASSUME NEW f \in Seq(ConfigEntry), NEW i \in 1 .. Len(f),
         ~(f[i].layout = "scalar" /\ f[i].key \in Settings)
  PROVE  SettingsBefore(f, i + 1) = SettingsBefore(f, i)
<1>1. ASSUME NEW s \in Settings PROVE Giving(f, i + 1, s) = Giving(f, i, s)
  <2>1. \A k \in 1 .. Len(f) : k < i + 1 <=> k < i \/ k = i
    OBVIOUS
  <2> QED
    BY <2>1 DEF Giving
<1> QED
  BY <1>1 DEF SettingsBefore

\* The last entry for a setting counts.
LEMMA SettingsNew ==
  ASSUME NEW f \in Seq(ConfigEntry), NEW i \in 1 .. Len(f),
         f[i].layout = "scalar", f[i].key \in Settings
  PROVE  SettingsBefore(f, i + 1) =
            [SettingsBefore(f, i) EXCEPT ![f[i].key] = f[i].words[1]]
<1> DEFINE v(s, n) == LastValue(f, Giving(f, n, s))
<1>1. \A k \in 1 .. Len(f) : k < i + 1 <=> k < i \/ k = i
  OBVIOUS
<1>2. ASSUME NEW s \in Settings, s # f[i].key PROVE v(s, i + 1) = v(s, i)
  <2>1. Giving(f, i + 1, s) = Giving(f, i, s)
    BY <1>1, <1>2 DEF Giving
  <2> QED
    BY <2>1
<1>3. v(f[i].key, i + 1) = f[i].words[1]
  <2> DEFINE at == Giving(f, i + 1, f[i].key)
  <2>1. at \subseteq 1 .. Len(f) /\ i \in at /\ \A j \in at : j <= i
    BY <1>1 DEF Giving
  <2> HIDE DEF at
  <2>2. \A k \in at : (\A j \in at : j <= k) => k = i
    BY <2>1
  <2>3. (CHOOSE k \in at : \A j \in at : j <= k) = i
    BY <2>1, <2>2
  <2> QED
    BY <2>1, <2>3 DEF at, LastValue
<1>4. /\ SettingsBefore(f, i + 1) = [s \in Settings |-> v(s, i + 1)]
      /\ SettingsBefore(f, i) = [s \in Settings |-> v(s, i)]
  BY DEF SettingsBefore
<1> HIDE DEF v
<1> QED
  BY <1>2, <1>3, <1>4

\* The parser q is right for the token behind the j-th of the i-th part.
Advances(f, q, i, j) ==
    IF j < Len(Scan(f, i)) THEN Position(f, q, i, j + 1) ELSE Position(f, q, i + 1, 1)

\* Before the first entry nothing is read.
LEMMA NothingRead ==
  ASSUME NEW f \in Seq(ConfigEntry), NEW i \in 0 .. 1
  PROVE  /\ SettingsBefore(f, i) = [s \in Settings |-> NULL]
         /\ OriginsRead(f, i, 0) = {}
<1>1. ASSUME NEW s \in Settings PROVE LastValue(f, Giving(f, i, s)) = NULL
  <2>1. Giving(f, i, s) = {}
    BY DEF Giving
  <2> QED
    BY <2>1 DEF LastValue
<1>2. ItemsRead(f, i, 0) = {}
  <2> SUFFICES ASSUME NEW x \in ItemsRead(f, i, 0) PROVE FALSE
    OBVIOUS
  <2>1. PICK a \in 1 .. Len(f), b \in Nat : x[1] = a /\ x[2] = b
    BY DEF ItemsRead
  <2>2. f[a] \in ConfigEntry
    OBVIOUS
  <2>3. Len(f[a].words) \in Nat
    BY <2>2 DEF ConfigEntry
  <2>4. b \in 1 .. Len(f[a].words) /\ (a < i \/ (a = i /\ b <= 0))
    BY <2>1 DEF ItemsRead
  <2> QED
    BY <2>1, <2>3, <2>4
<1>3. SettingsBefore(f, i) = [s \in Settings |-> NULL]
  BY <1>1 DEF SettingsBefore
<1>4. OriginsRead(f, i, 0) = {}
  BY <1>2 DEF OriginsRead
<1> QED
  BY <1>3, <1>4

\* The level inside an entry.
LEMMA Levels ==
  ASSUME NEW f \in Seq(ConfigEntry), NEW i \in 1 .. Len(f), NEW j \in Nat
  PROVE  /\ j > 4 /\ f[i].layout \in {"list", "mapping"} => LevelAt(f, i, j) = 2
         /\ ~(j > 4 /\ f[i].layout \in {"list", "mapping"}) => LevelAt(f, i, j) = 1
<1>1. i # 0 /\ i # Len(f) + 1
  OBVIOUS
<1> QED
  BY <1>1 DEF LevelAt

\* The level before and behind the entries.
LEMMA EndLevels ==
  ASSUME NEW f \in Seq(ConfigEntry), NEW j \in Nat
  PROVE  /\ LevelAt(f, 0, j) = 0
         /\ LevelAt(f, Len(f) + 1, j) = IF j = 1 THEN 1 ELSE 0
<1>1. Len(f) + 1 # 0 /\ ~(Len(f) + 1 \in 1 .. Len(f)) /\ ~(0 \in 1 .. Len(f))
  OBVIOUS
<1> QED
  BY <1>1 DEF LevelAt

\* To the next token of a part.
LEMMA Onward ==
  ASSUME NEW f \in Seq(ConfigEntry), NEW i \in 0 .. Len(f) + 1,
         NEW j \in 1 .. Len(Scan(f, i)), j < Len(Scan(f, i)), NEW q,
         q.prev_token = Scan(f, i)[j].type,
         q.level = LevelAt(f, i, j + 1),
         i \in 1 .. Len(f) /\ j > 1 /\ f[i].layout # "mapping" => q.key = f[i].key,
         Agrees(q.conf, f, i, WordsRead(f, i, j + 1))
  PROVE  Advances(f, q, i, j)
<1>1. Len(Scan(f, i)) \in Nat
  BY PartTokens
<1>2. j + 1 \in 1 .. Len(Scan(f, i)) /\ (j + 1) - 1 = j /\ (j + 1 > 2 <=> j > 1)
  BY <1>1
<1>3. Position(f, q, i, j + 1)
  BY <1>2 DEF Position
<1> QED
  BY <1>3 DEF Advances

\* To the next part.
LEMMA NextPart ==
  ASSUME NEW f \in Seq(ConfigEntry), NEW i \in 0 .. Len(f), NEW q,
         NEW j \in 1 .. Len(Scan(f, i)), j = Len(Scan(f, i)),
         q.level = 1, Agrees(q.conf, f, i + 1, 0)
  PROVE  Advances(f, q, i, j)
<1>1. i + 1 \in 0 .. Len(f) + 1
  OBVIOUS
<1>2. 1 \in 1 .. Len(Scan(f, i + 1))
  <2>1. Scan(f, i + 1) \in Seq(TokenSet) /\ Len(Scan(f, i + 1)) > 1
    BY <1>1, PartTokens
  <2> QED
    BY <2>1
<1>3. LevelAt(f, i + 1, 1) = 1
  <2>1. CASE i + 1 \in 1 .. Len(f)
    BY <2>1, Levels
  <2>2. CASE i + 1 = Len(f) + 1
    BY <2>2, EndLevels
  <2> QED
    BY <2>1, <2>2
<1>4. WordsRead(f, i + 1, 1) = 0
  BY DEF WordsRead
<1>5. Position(f, q, i + 1, 1)
  BY <1>1, <1>2, <1>3, <1>4 DEF Position
<1>6. ~(j < Len(Scan(f, i)))
  <2>1. Scan(f, i) \in Seq(TokenSet)
    BY PartTokens
  <2> QED
    BY <2>1
<1> QED
  BY <1>5, <1>6 DEF Advances

\* An entry of which nothing is taken.
LEMMA Passed ==
  ASSUME NEW f \in Seq(ConfigEntry), NEW i \in 1 .. Len(f), NEW c, NEW m \in Nat,
         Agrees(c, f, i, m),
         ~(f[i].layout = "scalar" /\ f[i].key \in Settings),
         IsList(f[i]) => m >= Len(f[i].words)
  PROVE  Agrees(c, f, i + 1, 0)
  BY OriginsSame, SettingsSame DEF Agrees

\* The first three tokens of an entry.
LEMMA KeyStep ==
  ASSUME NEW f \in Seq(ConfigEntry), NEW p \in Parser, NEW i \in 1 .. Len(f),
         NEW j \in 1 .. 3, Position(f, p, i, j)
  PROVE  Advances(f, ParseToken(p, Scan(f, i)[j]), i, j)
<1> DEFINE s == Scan(f, i)
           v == ScanValue(f[i])
           t == s[j]
           q == ParseToken(p, t)
<1>1. /\ s \in Seq(TokenSet) /\ Len(s) = 3 + Len(v) /\ Len(v) \in Nat
      /\ s[1].type = "KEY" /\ s[2].type = "SCALAR" /\ s[3].type = "VALUE"
      /\ s[2].word \in Strings /\ NameOf(s[2].word) = f[i].key
  BY EntryTokens DEF Behind
<1>2. /\ p.level = 1 /\ Agrees(p.conf, f, i, 0)
      /\ j = 2 => p.prev_token = "KEY"
      /\ j = 3 /\ f[i].layout # "mapping" => p.key = f[i].key
  <2>1. LevelAt(f, i, j) = 1 /\ WordsRead(f, i, j) = 0
    BY Levels DEF WordsRead
  <2>2. p.level = LevelAt(f, i, j) /\ Agrees(p.conf, f, i, WordsRead(f, i, j))
    BY DEF Position
  <2>3. j > 1 => p.prev_token = Scan(f, i)[j - 1].type
    BY DEF Position
  <2>4. j = 2 => j - 1 = 1 /\ j > 1
    OBVIOUS
  <2>5. j = 3 /\ f[i].layout # "mapping" => p.key = f[i].key
    BY DEF Position
  <2> QED
    BY <1>1, <2>1, <2>2, <2>3, <2>4, <2>5
<1>3. j \in 1 .. Len(s) /\ t \in TokenSet
  BY <1>1
<1>4. LevelAt(f, i, j + 1) = 1 /\ WordsRead(f, i, j + 1) = 0
  BY Levels DEF WordsRead
<1>5. /\ q.prev_token = t.type /\ q.level = 1 /\ q.conf = p.conf
      /\ j > 1 /\ f[i].layout # "mapping" => q.key = f[i].key
  <2>1. CASE j = 2
    BY <1>1, <1>2, <1>3, <2>1, ScalarToken
  <2>2. CASE j # 2
    <3>1. t.type \in {"KEY", "VALUE"} /\ (j > 1 => j = 3)
      BY <1>1, <2>2
    <3>2. t.type # "SCALAR" /\ ~Nesting(t.type) /\ t.type # "BLOCK_END"
      BY <3>1 DEF Nesting
    <3> QED
      BY <1>2, <1>3, <3>1, <3>2, PlainToken
  <2> QED
    BY <2>1, <2>2
<1> HIDE DEF q
<1>6. CASE j < Len(s)
  <2>1. Agrees(q.conf, f, i, WordsRead(f, i, j + 1)) /\ q.level = LevelAt(f, i, j + 1)
    BY <1>2, <1>4, <1>5
  <2> QED
    BY <1>3, <1>5, <1>6, <2>1, Onward DEF q
<1>7. CASE ~(j < Len(s))
  <2>1. j = Len(s) /\ Len(v) = 0
    BY <1>1, <1>7
  <2>2. f[i].layout = "flush"
    <3>1. f[i] \in ConfigEntry /\ f[i].layout \in Layout /\ Len(f[i].words) \in Nat
      BY DEF ConfigEntry
    <3>2. /\ f[i].layout = "list" => Len(v) = 2 * Len(f[i].words) + 2
          /\ f[i].layout = "mapping" => Len(v) = 6
          /\ f[i].layout \in {"scalar", "brackets"} => Len(v) = 1
      BY <3>1, ValueTokens DEF ListTokens, MappingTokens
    <3> QED
      BY <2>1, <3>1, <3>2 DEF Layout
  <2>3. Agrees(q.conf, f, i + 1, 0)
    BY <1>2, <1>5, <2>2, Passed DEF IsList
  <2> QED
    BY <1>3, <1>5, <2>1, <2>3, NextPart DEF q
<1> QED
  BY <1>6, <1>7

\* The value of an entry `key: value'.
LEMMA ScalarEntry ==
  ASSUME NEW f \in Seq(ConfigEntry), NEW p \in Parser, NEW i \in 1 .. Len(f),
         NEW j \in 1 .. Len(Scan(f, i)), j > 3, Position(f, p, i, j),
         f[i].layout = "scalar"
  PROVE  Advances(f, ParseToken(p, Scan(f, i)[j]), i, j)
<1> DEFINE s == Scan(f, i)
           v == ScanValue(f[i])
           t == s[j]
           q == ParseToken(p, t)
<1>1. /\ s \in Seq(TokenSet) /\ Len(s) = 3 + Len(v)
      /\ s[3].type = "VALUE" /\ \A k \in 1 .. Len(v) : s[3 + k] = v[k]
  BY EntryTokens DEF Behind
<1>2. /\ Len(v) = 1 /\ f[i].words[1] \in Strings
      /\ v[1].type = "SCALAR" /\ v[1].word = f[i].words[1]
  BY EntryTokens, ValueTokens
<1>3. j = 4 /\ j = Len(s)
  BY <1>1, <1>2
<1>4. t \in TokenSet /\ t.type = "SCALAR" /\ t.word = f[i].words[1] /\ t.word \in Strings
  <2>1. s[3 + 1] = v[1]
    BY <1>1, <1>2
  <2>2. t = v[1]
    BY <1>3, <2>1
  <2>3. t \in TokenSet
    BY <1>1
  <2> QED
    BY <1>2, <2>2, <2>3
<1>5. /\ p.level = 1 /\ p.prev_token = "VALUE" /\ p.key = f[i].key
      /\ Agrees(p.conf, f, i, 0)
  <2>1. LevelAt(f, i, j) = 1 /\ WordsRead(f, i, j) = 0
    BY <1>3, Levels DEF WordsRead
  <2>2. j > 1 /\ j > 2 /\ j - 1 = 3
    BY <1>3
  <2> QED
    BY <1>1, <2>1, <2>2 DEF Position
<1>6. q.level = 1
  BY <1>4, <1>5, ScalarToken
<1>7. OriginsRead(f, i + 1, 0) = OriginsRead(f, i, 0)
  BY OriginsSame DEF IsList
<1>8. Agrees(q.conf, f, i + 1, 0)
  <2>1. CASE f[i].key \in Settings
    <3>1. /\ q.conf.setting = [p.conf.setting EXCEPT ![f[i].key] = f[i].words[1]]
          /\ q.conf.origin_list = p.conf.origin_list
      BY <1>4, <1>5, <2>1, SettingToken
    <3>2. SettingsBefore(f, i + 1) =
             [SettingsBefore(f, i) EXCEPT ![f[i].key] = f[i].words[1]]
      BY <2>1, SettingsNew
    <3> QED
      BY <1>5, <1>7, <3>1, <3>2 DEF Agrees
  <2>2. CASE f[i].key \notin Settings
    <3>1. q.conf = p.conf
      BY <1>4, <1>5, <2>2, ScalarToken
    <3> QED
      BY <1>5, <2>2, <3>1, Passed DEF IsList
  <2> QED
    BY <2>1, <2>2
<1>9. j = Len(Scan(f, i)) /\ i \in 0 .. Len(f)
  BY <1>3
<1> HIDE DEF q
<1> QED
  BY <1>6, <1>8, <1>9, NextPart DEF q

\* Every second token of a list is an item.
LEMMA Halves ==
  ASSUME NEW n \in Nat
  PROVE  /\ (2 * n) \div 2 = n
         /\ n % 2 = 1 => (n - 1) \div 2 = n \div 2
         /\ n % 2 # 1 /\ n > 0 => (n - 1) % 2 = 1 /\ (n - 1) \div 2 = (n \div 2) - 1
  OBVIOUS

\* The place of the dash of an item.
LEMMA Dash ==
  ASSUME NEW b \in Nat, NEW n \in 1 .. b, n % 2 # 1
  PROVE  n - 1 \in 1 .. b /\ (n - 1) % 2 = 1 /\ (n - 1) \div 2 = (n \div 2) - 1
<1>1. n \in Nat /\ n > 0 /\ n # 1 /\ n <= b
  OBVIOUS
<1>2. (n - 1) % 2 = 1 /\ (n - 1) \div 2 = (n \div 2) - 1
  BY <1>1, Halves
<1> QED
  BY <1>1, <1>2

\* The tokens of an indented list.
LEMMA ListEntry ==
  ASSUME NEW f \in Seq(ConfigEntry), NEW p \in Parser, NEW i \in 1 .. Len(f),
         NEW j \in 1 .. Len(Scan(f, i)), j > 3, Position(f, p, i, j),
         f[i].layout = "list"
  PROVE  Advances(f, ParseToken(p, Scan(f, i)[j]), i, j)
<1> DEFINE s == Scan(f, i)
           v == ScanValue(f[i])
           w == f[i].words
           L == Len(w)
           t == s[j]
           q == ParseToken(p, t)
           n == j - 4
<1>1. /\ s \in Seq(TokenSet) /\ Len(s) = 3 + Len(v)
      /\ \A k \in 1 .. Len(v) : s[3 + k] = v[k]
  BY EntryTokens DEF Behind
<1>2. f[i] \in ConfigEntry /\ w \in Seq(Strings) /\ L \in Nat
  BY DEF ConfigEntry
<1>3. /\ Len(v) = 2 * L + 2 /\ v[1].type = "BLOCK_SEQUENCE_START"
      /\ \A k \in 1 .. 2 * L : v[k + 1] = ScanItems(w)[k]
      /\ v[2 * L + 2].type = "BLOCK_END"
  BY <1>2, ValueTokens DEF ListTokens
<1>4. /\ Len(s) = 2 * L + 5 /\ s[4].type = "BLOCK_SEQUENCE_START"
      /\ s[2 * L + 5].type = "BLOCK_END"
  <2>1. 1 \in 1 .. Len(v) /\ 2 * L + 2 \in 1 .. Len(v) /\ 3 + (2 * L + 2) = 2 * L + 5
    BY <1>2, <1>3
  <2>2. s[3 + 1] = v[1] /\ s[3 + (2 * L + 2)] = v[2 * L + 2]
    BY <1>1, <2>1
  <2>3. Len(s) = 2 * L + 5
    BY <1>1, <1>2, <1>3
  <2>4. 3 + 1 = 4
    OBVIOUS
  <2> HIDE DEF s, v, L, w
  <2> QED
    BY <1>3, <2>1, <2>2, <2>3, <2>4
<1>5. \A k \in 1 .. 2 * L : s[4 + k] = ScanItems(w)[k]
  <2> SUFFICES ASSUME NEW k \in 1 .. 2 * L PROVE s[4 + k] = ScanItems(w)[k]
    OBVIOUS
  <2>1. k + 1 \in 1 .. Len(v) /\ 3 + (k + 1) = 4 + k
    BY <1>2, <1>3
  <2> QED
    BY <1>1, <1>3, <2>1
<1>6. t \in TokenSet
  BY <1>1
<1>7. p.key = f[i].key /\ p.prev_token = s[j - 1].type
  BY DEF Position
<1>8. /\ p.level = IF j > 4 THEN 2 ELSE 1
      /\ Agrees(p.conf, f, i, IF j > 4 THEN (j - 5) \div 2 ELSE 0)
  <2>1. /\ LevelAt(f, i, j) = IF j > 4 THEN 2 ELSE 1
        /\ WordsRead(f, i, j) = IF j > 4 THEN (j - 5) \div 2 ELSE 0
    BY Levels DEF WordsRead
  <2> QED
    BY <2>1 DEF Position
<1>9. LevelAt(f, i, j + 1) = 2 /\ WordsRead(f, i, j + 1) = n \div 2
  <2>1. j + 1 \in Nat /\ j + 1 > 4 /\ (j + 1) - 5 = j - 4
    OBVIOUS
  <2> QED
    BY <2>1, Levels DEF WordsRead
<1>10. CASE j = 4
  <2>1. t.type # "SCALAR" /\ Nesting(t.type) /\ j < Len(s)
    BY <1>2, <1>4, <1>10 DEF Nesting
  <2>2. /\ q.prev_token = t.type /\ q.key = f[i].key /\ q.conf = p.conf
        /\ q.level = 2
    BY <1>6, <1>7, <1>8, <1>10, <2>1, PlainToken
  <2>3. n \div 2 = 0
    BY <1>10
  <2>4. Agrees(q.conf, f, i, WordsRead(f, i, j + 1)) /\ q.level = LevelAt(f, i, j + 1)
    BY <1>8, <1>9, <1>10, <2>2, <2>3
  <2> HIDE DEF q
  <2> QED
    BY <2>1, <2>2, <2>4, Onward DEF q
<1>11. CASE n \in 1 .. 2 * L
  <2>1. t = ScanItems(w)[n] /\ j < Len(s) /\ j > 4
    <3>1. j < 2 * L + 5 /\ j > 4 /\ 4 + n = j
      BY <1>2, <1>11
    <3>2. s[4 + n] = ScanItems(w)[n]
      BY <1>5, <1>11
    <3>3. t = ScanItems(w)[n]
      BY <3>1, <3>2
    <3> QED
      BY <1>4, <3>1, <3>3
  <2>2. p.level = 2 /\ Agrees(p.conf, f, i, (n - 1) \div 2)
    <3>1. j - 5 = n - 1
      OBVIOUS
    <3> QED
      BY <1>8, <2>1, <3>1
  <2>3. q.prev_token = t.type /\ q.key = f[i].key /\ q.level = 2
        /\ Agrees(q.conf, f, i, n \div 2)
    <3>1. CASE n % 2 = 1
      <4>1. t.type = "BLOCK_ENTRY"
        BY <1>2, <1>11, <2>1, <3>1, ItemTokens
      <4>2. (n - 1) \div 2 = n \div 2
        BY <1>2, <1>11, <3>1, Halves
      <4>3. t.type # "SCALAR" /\ t.type # "BLOCK_END" /\ ~Nesting(t.type)
        BY <4>1 DEF Nesting
      <4>4. /\ q.prev_token = t.type /\ q.key = p.key /\ q.conf = p.conf
            /\ q.level = p.level
        BY <1>6, <4>3, PlainToken
      <4> QED
        BY <1>7, <2>2, <4>2, <4>4
    <3>2. CASE n % 2 # 1
      <4> DEFINE m == n \div 2
      <4>1. t.type = "SCALAR" /\ m \in 1 .. L /\ t.word = w[m]
        BY <1>2, <1>11, <2>1, <3>2, ItemTokens
      <4>2. n - 1 \in 1 .. 2 * L /\ (n - 1) % 2 = 1 /\ (n - 1) \div 2 = m - 1
        <5>1. 2 * L \in Nat /\ n \in 1 .. 2 * L /\ n % 2 # 1
          BY <1>2, <1>11, <3>2
        <5> HIDE DEF n, L
        <5> QED
          BY <5>1, Dash
      <4>3. p.prev_token = "BLOCK_ENTRY"
        <5>1. ScanItems(w)[n - 1].type = "BLOCK_ENTRY"
          BY <1>2, <4>2, ItemTokens
        <5>2. j - 1 = 4 + (n - 1)
          OBVIOUS
        <5> QED
          BY <1>5, <1>7, <4>2, <5>1, <5>2
      <4> HIDE DEF m
      <4>4. t.word \in Strings /\ m \in Nat /\ m - 1 \in Nat
        BY <1>2, <4>1
      <4>5. q.prev_token = "SCALAR" /\ q.level = p.level /\ q.key = p.key
        BY <1>6, <4>1, <4>3, <4>4, ScalarKeeps
      <4>6. CASE f[i].key = "origin"
        <5>1. /\ q.conf.setting = p.conf.setting
              /\ q.conf.origin_list = <<tolower(t.word)>> \o p.conf.origin_list
          BY <1>6, <1>7, <2>2, <4>1, <4>3, <4>4, <4>6, ScalarToken
        <5>2. tolower(t.word) \in Strings /\ p.conf.origin_list \in Seq(Strings)
          BY <4>4, LowerShape DEF Parser, Conf
        <5>3. Range(q.conf.origin_list) = {tolower(t.word)} \cup Range(p.conf.origin_list)
          BY <5>1, <5>2, RangeMore
        <5>4. OriginsRead(f, i, m) = {tolower(w[m])} \cup OriginsRead(f, i, m - 1)
          BY <4>1, <4>6, OriginsMore DEF IsList
        <5>5. Agrees(p.conf, f, i, m - 1)
          BY <2>2, <4>2
        <5>6. Agrees(q.conf, f, i, m)
          BY <4>1, <5>1, <5>3, <5>4, <5>5 DEF Agrees
        <5> QED
          BY <1>7, <2>2, <4>1, <4>5, <5>6 DEF m
      <4>7. CASE f[i].key # "origin"
        <5>1. q.conf = p.conf
          BY <1>6, <1>7, <4>1, <4>3, <4>4, <4>7, ScalarToken
        <5>2. /\ OriginsRead(f, i + 1, 0) = OriginsRead(f, i, m)
              /\ OriginsRead(f, i + 1, 0) = OriginsRead(f, i, m - 1)
          BY <4>4, <4>7, OriginsSame DEF IsList
        <5>3. Agrees(p.conf, f, i, m - 1)
          BY <2>2, <4>2
        <5>4. Agrees(q.conf, f, i, m)
          BY <5>1, <5>2, <5>3 DEF Agrees
        <5> QED
          BY <1>7, <2>2, <4>1, <4>5, <5>4 DEF m
      <4> QED
        BY <4>6, <4>7
    <3> QED
      BY <3>1, <3>2
  <2>4. Agrees(q.conf, f, i, WordsRead(f, i, j + 1)) /\ q.level = LevelAt(f, i, j + 1)
    BY <1>9, <2>3
  <2>5. q.prev_token = Scan(f, i)[j].type /\ q.key = f[i].key /\ j < Len(Scan(f, i))
    BY <2>1, <2>3
  <2> HIDE DEF q
  <2> QED
    BY <2>4, <2>5, Onward DEF q
<1>12. CASE j = 2 * L + 5
  <2>1. t.type = "BLOCK_END" /\ t.type # "SCALAR" /\ j = Len(s) /\ j > 4
    BY <1>2, <1>4, <1>12
  <2>2. p.level = 2 /\ Agrees(p.conf, f, i, L)
    <3>1. j - 5 = 2 * L
      BY <1>2, <1>12
    <3>2. (2 * L) \div 2 = L
      BY <1>2, Halves
    <3> QED
      BY <1>8, <2>1, <3>1, <3>2
  <2>3. q.conf = p.conf /\ q.level = 1
    BY <1>6, <2>1, <2>2, PlainToken
  <2>4. Agrees(q.conf, f, i + 1, 0)
    BY <1>2, <2>2, <2>3, Passed
  <2> HIDE DEF q
  <2> QED
    BY <2>1, <2>3, <2>4, NextPart DEF q
<1> QED
  BY <1>2, <1>4, <1>10, <1>11, <1>12

\* The tokens of a list that is not indented.
LEMMA FlushEntry ==
  ASSUME NEW f \in Seq(ConfigEntry), NEW p \in Parser, NEW i \in 1 .. Len(f),
         NEW j \in 1 .. Len(Scan(f, i)), j > 3, Position(f, p, i, j),
         f[i].layout = "flush"
  PROVE  Advances(f, ParseToken(p, Scan(f, i)[j]), i, j)
<1> DEFINE s == Scan(f, i)
           w == f[i].words
           t == s[j]
           q == ParseToken(p, t)
           n == j - 3
<1>1. f[i] \in ConfigEntry /\ w \in Seq(Strings) /\ Len(w) \in Nat
  BY DEF ConfigEntry
<1>2. ScanValue(f[i]) = ScanItems(w) /\ Len(ScanItems(w)) = 2 * Len(w)
  BY <1>1, ValueTokens, ItemTokens
<1>3. /\ s \in Seq(TokenSet) /\ Len(s) = 3 + 2 * Len(w)
      /\ \A k \in 1 .. 2 * Len(w) : s[3 + k] = ScanItems(w)[k]
  <2> DEFINE v == ScanValue(f[i])
  <2>1. /\ s \in Seq(TokenSet) /\ Len(s) = 3 + Len(v)
        /\ \A k \in 1 .. Len(v) : s[3 + k] = v[k]
    BY EntryTokens DEF Behind
  <2>2. v = ScanItems(w) /\ Len(v) = 2 * Len(w)
    BY <1>2
  <2> HIDE DEF v, s
  <2> QED
    BY <2>1, <2>2
<1>4. t \in TokenSet /\ n \in 1 .. 2 * Len(w) /\ t = ScanItems(w)[n]
  <2>1. t \in TokenSet
    BY <1>3
  <2>2. n \in 1 .. 2 * Len(w) /\ j = 3 + n
    BY <1>1, <1>3
  <2> QED
    BY <1>3, <2>1, <2>2
<1>5. /\ p.level = 1 /\ p.key = f[i].key /\ p.prev_token = s[j - 1].type
      /\ Agrees(p.conf, f, i, 0)
  <2>1. LevelAt(f, i, j) = 1 /\ WordsRead(f, i, j) = 0
    BY Levels DEF WordsRead
  <2> QED
    BY <2>1 DEF Position
<1>6. LevelAt(f, i, j + 1) = 1 /\ WordsRead(f, i, j + 1) = 0
  BY Levels DEF WordsRead
<1>7. /\ q.prev_token = t.type /\ q.key = f[i].key /\ q.level = 1
      /\ q.conf = p.conf
  <2>1. CASE n % 2 = 1
    <3>1. t.type = "BLOCK_ENTRY"
      BY <1>1, <1>4, <2>1, ItemTokens
    <3>2. t.type # "SCALAR" /\ t.type # "BLOCK_END" /\ ~Nesting(t.type)
      BY <3>1 DEF Nesting
    <3> QED
      BY <1>4, <1>5, <3>2, PlainToken
  <2>2. CASE n % 2 # 1
    <3>1. t.type = "SCALAR" /\ n \div 2 \in 1 .. Len(w) /\ t.word = w[n \div 2]
      BY <1>1, <1>4, <2>2, ItemTokens
    <3>2. n - 1 \in 1 .. 2 * Len(w) /\ (n - 1) % 2 = 1
      <4>1. 2 * Len(w) \in Nat /\ n \in 1 .. 2 * Len(w) /\ n % 2 # 1
        BY <1>1, <1>4, <2>2
      <4> HIDE DEF n
      <4> QED
        BY <4>1, Dash
    <3>3. p.prev_token = "BLOCK_ENTRY"
      <4>1. ScanItems(w)[n - 1].type = "BLOCK_ENTRY"
        BY <1>1, <3>2, ItemTokens
      <4>2. j - 1 = 3 + (n - 1)
        OBVIOUS
      <4> QED
        BY <1>3, <1>5, <3>2, <4>1, <4>2
    <3>4. t.word \in Strings
      BY <1>1, <3>1
    <3>5. q.prev_token = "SCALAR" /\ q.level = p.level /\ q.key = p.key
      BY <1>4, <3>1, <3>3, <3>4, ScalarToken
    <3>6. q.conf = p.conf
      <4>1. p.prev_token # "KEY" /\ p.level # 2 /\ p.prev_token # "VALUE"
        BY <1>5, <3>3
      <4> QED
        BY <1>4, <3>1, <3>4, <4>1, ScalarToken
    <3> QED
      BY <1>5, <3>1, <3>5, <3>6
  <2> QED
    BY <2>1, <2>2
<1>8. q.prev_token = Scan(f, i)[j].type /\ q.key = f[i].key /\ q.level = 1
  BY <1>7
<1>9. Agrees(q.conf, f, i, 0) /\ Agrees(q.conf, f, i + 1, 0)
  BY <1>5, <1>7, Passed DEF IsList
<1> HIDE DEF q
<1>10. CASE j < Len(s)
  <2>1. Agrees(q.conf, f, i, WordsRead(f, i, j + 1)) /\ q.level = LevelAt(f, i, j + 1)
    BY <1>6, <1>8, <1>9
  <2> QED
    BY <1>8, <1>10, <2>1, Onward DEF q
<1>11. CASE j = Len(s)
  BY <1>8, <1>9, <1>11, NextPart DEF q
<1> QED
  BY <1>3, <1>10, <1>11

\* The tokens of a mapping inside an entry.
LEMMA MappingEntry ==
  ASSUME NEW f \in Seq(ConfigEntry), NEW p \in Parser, NEW i \in 1 .. Len(f),
         NEW j \in 1 .. Len(Scan(f, i)), j > 3, Position(f, p, i, j),
         f[i].layout = "mapping"
  PROVE  Advances(f, ParseToken(p, Scan(f, i)[j]), i, j)
<1> DEFINE s == Scan(f, i)
           v == ScanValue(f[i])
           t == s[j]
           q == ParseToken(p, t)
<1>1. MappingTokens(v)
  BY EntryTokens, ValueTokens
<1>2. /\ s \in Seq(TokenSet) /\ Len(s) = 3 + Len(v)
      /\ \A k \in 1 .. Len(v) : s[3 + k] = v[k]
  BY EntryTokens DEF Behind
<1>3. /\ Len(s) = 9
      /\ s[4].type = "BLOCK_MAPPING_START" /\ s[5].type = "KEY"
      /\ s[6].type = "SCALAR" /\ s[7].type = "VALUE" /\ s[8].type = "SCALAR"
      /\ s[9].type = "BLOCK_END" /\ s[6].word \in Strings /\ s[8].word \in Strings
  <2>1. Len(v) = 6
    BY <1>1 DEF MappingTokens
  <2>2. /\ s[3 + 1] = v[1] /\ s[3 + 2] = v[2] /\ s[3 + 3] = v[3]
        /\ s[3 + 4] = v[4] /\ s[3 + 5] = v[5] /\ s[3 + 6] = v[6]
    BY <1>2, <2>1
  <2>3. /\ s[4] = v[1] /\ s[5] = v[2] /\ s[6] = v[3]
        /\ s[7] = v[4] /\ s[8] = v[5] /\ s[9] = v[6]
    BY <2>2
  <2> QED
    BY <1>1, <1>2, <2>1, <2>3 DEF MappingTokens
<1>4. t \in TokenSet /\ j \in {4, 5, 6, 7, 8, 9}
  <2>1. t \in TokenSet
    BY <1>2
  <2>2. j \in 1 .. 9
    BY <1>3
  <2> QED
    BY <2>1, <2>2
<1>5. /\ p.level = IF j > 4 THEN 2 ELSE 1
      /\ p.prev_token = s[j - 1].type
      /\ Agrees(p.conf, f, i, 0)
  <2>1. /\ LevelAt(f, i, j) = IF j > 4 THEN 2 ELSE 1
        /\ WordsRead(f, i, j) = 0
    BY Levels DEF WordsRead
  <2> QED
    BY <2>1 DEF Position
<1>6. LevelAt(f, i, j + 1) = 2 /\ WordsRead(f, i, j + 1) = 0
  <2>1. j + 1 \in Nat /\ j + 1 > 4
    OBVIOUS
  <2> QED
    BY <2>1, Levels DEF WordsRead
<1>7. /\ q.prev_token = t.type /\ q.conf = p.conf
      /\ j < 9 => q.level = 2
      /\ j = 9 => q.level = 1
  <2>1. CASE j \in {6, 8}
    <3>1. t.type = "SCALAR" /\ t.word \in Strings
      BY <1>3, <2>1
    <3>2. p.level = 2 /\ j < 9 /\ p.prev_token \in {"KEY", "VALUE"}
      <4>1. j - 1 = 5 \/ j - 1 = 7
        BY <2>1
      <4>2. s[j - 1].type \in {"KEY", "VALUE"}
        BY <1>3, <4>1
      <4> QED
        BY <1>5, <2>1, <4>2
    <3>3. q.prev_token = "SCALAR" /\ q.level = p.level
      BY <1>4, <3>1, ScalarToken
    <3>4. q.conf = p.conf
      <4>1. CASE p.prev_token = "KEY"
        BY <1>4, <3>1, <4>1, ScalarToken
      <4>2. CASE p.prev_token = "VALUE"
        <5>1. p.prev_token # "KEY" /\ p.prev_token # "BLOCK_ENTRY" /\ p.level # 1
          BY <3>2, <4>2
        <5> QED
          BY <1>4, <3>1, <5>1, ScalarToken
      <4> QED
        BY <3>2, <4>1, <4>2
    <3> QED
      BY <2>1, <3>1, <3>2, <3>3, <3>4
  <2>2. CASE j = 4
    <3>1. t.type # "SCALAR" /\ Nesting(t.type)
      BY <1>3, <2>2 DEF Nesting
    <3> QED
      BY <1>4, <1>5, <2>2, <3>1, PlainToken
  <2>3. CASE j \in {5, 7}
    <3>1. t.type \in {"KEY", "VALUE"}
      BY <1>3, <2>3
    <3>2. t.type # "SCALAR" /\ ~Nesting(t.type) /\ t.type # "BLOCK_END"
      BY <3>1 DEF Nesting
    <3> QED
      BY <1>4, <1>5, <2>3, <3>2, PlainToken
  <2>4. CASE j = 9
    <3>1. t.type # "SCALAR" /\ t.type = "BLOCK_END"
      BY <1>3, <2>4
    <3> QED
      BY <1>4, <1>5, <2>4, <3>1, PlainToken
  <2> QED
    BY <1>4, <2>1, <2>2, <2>3, <2>4
<1>8. Agrees(q.conf, f, i, 0) /\ Agrees(q.conf, f, i + 1, 0)
  BY <1>5, <1>7, Passed DEF IsList
<1>9. q.prev_token = Scan(f, i)[j].type
  BY <1>7
<1> HIDE DEF q
<1>10. CASE j < 9
  <2>1. /\ Agrees(q.conf, f, i, WordsRead(f, i, j + 1))
        /\ q.level = LevelAt(f, i, j + 1) /\ j < Len(Scan(f, i))
    BY <1>3, <1>6, <1>7, <1>8, <1>10
  <2> QED
    BY <1>9, <2>1, Onward DEF q
<1>11. CASE j = 9
  <2>1. j = Len(Scan(f, i)) /\ q.level = 1
    BY <1>3, <1>7, <1>11
  <2> QED
    BY <1>8, <2>1, NextPart DEF q
<1> QED
  BY <1>4, <1>10, <1>11

\* The tokens before and behind the entries.
LEMMA EndStep ==
  ASSUME NEW f \in Seq(ConfigEntry), NEW p \in Parser, NEW i \in {0, Len(f) + 1},
         NEW j \in 1 .. Len(Scan(f, i)), Position(f, p, i, j),
         Scan(f, i)[j].type # "STREAM_END"
  PROVE  Advances(f, ParseToken(p, Scan(f, i)[j]), i, j)
<1> DEFINE t == Scan(f, i)[j]
           q == ParseToken(p, t)
<1>1. i \in 0 .. Len(f) + 1 /\ ~(i \in 1 .. Len(f)) /\ Len(f) \in Nat
  OBVIOUS
<1>2. Scan(f, i) \in Seq(TokenSet) /\ Len(Scan(f, i)) = 2
  BY EndTokens
<1>3. t \in TokenSet /\ j \in {1, 2}
  <2> DEFINE s == Scan(f, i)
  <2>1. s \in Seq(TokenSet) /\ j \in 1 .. Len(s)
    BY <1>2
  <2> HIDE DEF s
  <2>2. s[j] \in TokenSet
    BY <2>1
  <2>3. t \in TokenSet
    BY <2>2 DEF s
  <2>4. j \in 1 .. 2
    BY <1>2
  <2> QED
    BY <2>3, <2>4
<1>4. WordsRead(f, i, j) = 0 /\ WordsRead(f, i, j + 1) = 0
  BY <1>1 DEF WordsRead
<1>5. p.level = LevelAt(f, i, j) /\ Agrees(p.conf, f, i, 0)
  BY <1>4 DEF Position
<1>6. CASE i = 0 /\ j = 1
  <2>1. t.type = "STREAM_START" /\ p.level = 0 /\ LevelAt(f, i, j + 1) = 0
    <3>1. j + 1 \in Nat /\ j \in Nat
      OBVIOUS
    <3>2. LevelAt(f, 0, j) = 0 /\ LevelAt(f, 0, j + 1) = 0
      BY <3>1, EndLevels
    <3>3. Scan(f, 0)[1].type = "STREAM_START"
      BY EndTokens
    <3> QED
      BY <1>5, <1>6, <3>2, <3>3
  <2>2. t.type # "SCALAR" /\ ~Nesting(t.type) /\ t.type # "BLOCK_END"
    BY <2>1 DEF Nesting
  <2>3. q.prev_token = Scan(f, i)[j].type /\ q.level = 0 /\ q.conf = p.conf
    BY <1>3, <2>1, <2>2, PlainToken
  <2>4. /\ Agrees(q.conf, f, i, WordsRead(f, i, j + 1))
        /\ q.level = LevelAt(f, i, j + 1) /\ j < Len(Scan(f, i))
    BY <1>2, <1>4, <1>5, <1>6, <2>1, <2>3
  <2> HIDE DEF q
  <2> QED
    BY <1>1, <2>3, <2>4, Onward DEF q
<1>7. CASE i = 0 /\ j = 2
  <2>1. t.type = "BLOCK_MAPPING_START" /\ p.level = 0
    BY <1>5, <1>7, EndTokens, EndLevels
  <2>2. t.type # "SCALAR" /\ Nesting(t.type)
    BY <2>1 DEF Nesting
  <2>3. q.level = 1 /\ q.conf = p.conf
    BY <1>3, <2>1, <2>2, PlainToken
  <2>4. Agrees(q.conf, f, i + 1, 0)
    <3>1. i \in 0 .. 1 /\ i + 1 \in 0 .. 1
      BY <1>7
    <3>2. /\ SettingsBefore(f, i + 1) = SettingsBefore(f, i)
          /\ OriginsRead(f, i + 1, 0) = OriginsRead(f, i, 0)
      BY <3>1, NothingRead
    <3> QED
      BY <1>5, <2>3, <3>2 DEF Agrees
  <2>5. j = Len(Scan(f, i)) /\ i \in 0 .. Len(f)
    BY <1>1, <1>2, <1>7
  <2> HIDE DEF q
  <2> QED
    BY <2>3, <2>4, <2>5, NextPart DEF q
<1>8. CASE i = Len(f) + 1
  <2>1. j = 1
    BY <1>3, <1>8, EndTokens
  <2>2. t.type = "BLOCK_END" /\ p.level = 1 /\ LevelAt(f, i, j + 1) = 0
    BY <1>5, <1>8, <2>1, EndTokens, EndLevels
  <2>3. q.prev_token = Scan(f, i)[j].type /\ q.level = 0 /\ q.conf = p.conf
    BY <1>3, <2>2, PlainToken
  <2>4. /\ Agrees(q.conf, f, i, WordsRead(f, i, j + 1))
        /\ q.level = LevelAt(f, i, j + 1) /\ j < Len(Scan(f, i))
    BY <1>2, <1>4, <1>5, <2>1, <2>2, <2>3
  <2> HIDE DEF q
  <2> QED
    BY <1>1, <2>3, <2>4, Onward DEF q
<1> QED
  BY <1>3, <1>6, <1>7, <1>8

\* Every token that does not end config_parse leads to the next place.
LEMMA TokenStep ==
  ASSUME NEW f \in Seq(ConfigEntry), NEW p \in Parser, NEW i \in Nat, NEW j \in Nat,
         Position(f, p, i, j), Expected(Scan(f, i)[j].type),
         Scan(f, i)[j].type # "STREAM_END"
  PROVE  Advances(f, ParseToken(p, Scan(f, i)[j]), i, j)
<1>1. i \in 0 .. Len(f) + 1 /\ j \in 1 .. Len(Scan(f, i)) /\ Len(f) \in Nat
  BY DEF Position
<1>2. CASE i \in {0, Len(f) + 1}
  BY <1>1, <1>2, EndStep
<1>3. CASE i \in 1 .. Len(f) /\ j \in 1 .. 3
  BY <1>3, KeyStep
<1>4. CASE i \in 1 .. Len(f) /\ j > 3
  <2>1. f[i] \in ConfigEntry
    BY <1>4
  <2>2. f[i].layout \in Layout /\ f[i].layout # "brackets"
    <3>1. f[i].layout \in Layout
      BY <2>1 DEF ConfigEntry
    <3>2. ASSUME f[i].layout = "brackets" PROVE FALSE
      <4> DEFINE s == Scan(f, i)
                 v == ScanValue(f[i])
      <4>1. /\ s \in Seq(TokenSet) /\ Len(s) = 3 + Len(v)
            /\ \A k \in 1 .. Len(v) : s[3 + k] = v[k]
        BY <1>4, EntryTokens DEF Behind
      <4>2. Len(v) = 1 /\ v[1].type = "FLOW_SEQUENCE_START"
        BY <2>1, <3>2, ValueTokens
      <4>3. j = 4 /\ s[3 + 1] = v[1]
        BY <1>1, <1>4, <4>1, <4>2
      <4>4. s[j].type = "FLOW_SEQUENCE_START"
        BY <4>2, <4>3
      <4> QED
        BY <4>4 DEF Expected, Nesting
    <3> QED
      BY <3>1, <3>2
  <2>3. CASE f[i].layout = "scalar"
    BY <1>1, <1>4, <2>3, ScalarEntry
  <2>4. CASE f[i].layout = "list"
    BY <1>1, <1>4, <2>4, ListEntry
  <2>5. CASE f[i].layout = "flush"
    BY <1>1, <1>4, <2>5, FlushEntry
  <2>6. CASE f[i].layout = "mapping"
    BY <1>1, <1>4, <2>6, MappingEntry
  <2> QED
    BY <2>2, <2>3, <2>4, <2>5, <2>6 DEF Layout
<1> QED
  BY <1>1, <1>2, <1>3, <1>4

\* Only the last token of a file ends the stream.
LEMMA StreamEnd ==
  ASSUME NEW f \in Seq(ConfigEntry), NEW i \in 0 .. Len(f) + 1,
         NEW j \in 1 .. Len(Scan(f, i)), Scan(f, i)[j].type = "STREAM_END"
  PROVE  i = Len(f) + 1
<1> SUFFICES ASSUME i # Len(f) + 1 PROVE FALSE
  OBVIOUS
<1>1. CASE i = 0
  <2>1. j \in 1 .. 2
    BY <1>1, EndTokens
  <2>2. j = 1 \/ j = 2
    BY <2>1
  <2> QED
    BY <1>1, <2>2, EndTokens
<1>2. CASE i \in 1 .. Len(f)
  <2> DEFINE s == Scan(f, i)
             v == ScanValue(f[i])
             w == f[i].words
  <2>1. /\ s \in Seq(TokenSet) /\ Len(s) = 3 + Len(v) /\ Len(v) \in Nat
        /\ s[1].type = "KEY" /\ s[2].type = "SCALAR" /\ s[3].type = "VALUE"
        /\ \A k \in 1 .. Len(v) : s[3 + k] = v[k]
    BY <1>2, EntryTokens DEF Behind
  <2>2. f[i] \in ConfigEntry /\ w \in Seq(Strings) /\ Len(w) \in Nat
        /\ f[i].layout \in Layout
    BY <1>2 DEF ConfigEntry
  <2>3. \A k \in 1 .. 2 * Len(w) : ScanItems(w)[k].type \in {"BLOCK_ENTRY", "SCALAR"}
    BY <2>2, ItemTokens
  <2>4. ASSUME NEW k \in 1 .. Len(v) PROVE v[k].type # "STREAM_END"
    <3>1. CASE f[i].layout = "scalar"
      BY <2>2, <3>1, ValueTokens
    <3>2. CASE f[i].layout = "brackets"
      BY <2>2, <3>2, ValueTokens
    <3>3. CASE f[i].layout = "flush"
      <4>1. v = ScanItems(w) /\ Len(v) = 2 * Len(w)
        BY <2>2, <3>3, ValueTokens, ItemTokens
      <4>2. k \in 1 .. 2 * Len(w)
        BY <4>1
      <4> QED
        BY <2>3, <4>1, <4>2
    <3>4. CASE f[i].layout = "mapping"
      <4>1. MappingTokens(v)
        BY <2>2, <3>4, ValueTokens
      <4>2. k \in 1 .. 6
        BY <4>1 DEF MappingTokens
      <4>3. k = 1 \/ k = 2 \/ k = 3 \/ k = 4 \/ k = 5 \/ k = 6
        BY <4>2
      <4> QED
        BY <4>1, <4>3 DEF MappingTokens
    <3>5. CASE f[i].layout = "list"
      <4>1. /\ Len(v) = 2 * Len(w) + 2 /\ v[1].type = "BLOCK_SEQUENCE_START"
            /\ \A n \in 1 .. 2 * Len(w) : v[n + 1] = ScanItems(w)[n]
            /\ v[2 * Len(w) + 2].type = "BLOCK_END"
        BY <2>2, <3>5, ValueTokens DEF ListTokens
      <4>2. CASE k = 1 \/ k = 2 * Len(w) + 2
        BY <4>1, <4>2
      <4>3. CASE k - 1 \in 1 .. 2 * Len(w)
        <5>1. (k - 1) + 1 = k
          OBVIOUS
        <5>2. v[k] = ScanItems(w)[k - 1]
          BY <4>1, <4>3, <5>1
        <5> QED
          BY <2>3, <4>3, <5>2
      <4>4. k = 1 \/ k = 2 * Len(w) + 2 \/ k - 1 \in 1 .. 2 * Len(w)
        <5>1. PICK a \in Nat : a = Len(w)
          BY <2>2
        <5>2. k \in 1 .. 2 * a + 2
          BY <4>1, <5>1
        <5>3. k = 1 \/ k = 2 * a + 2 \/ k - 1 \in 1 .. 2 * a
          BY <5>2
        <5> QED
          BY <5>1, <5>3
      <4> QED
        BY <4>2, <4>3, <4>4
    <3> QED
      BY <2>2, <3>1, <3>2, <3>3, <3>4, <3>5 DEF Layout
  <2>5. CASE j > 3
    <3>1. j - 3 \in 1 .. Len(v) /\ 3 + (j - 3) = j
      BY <2>1, <2>5
    <3>2. s[j] = v[j - 3]
      BY <2>1, <3>1
    <3> QED
      BY <2>4, <3>1, <3>2
  <2>6. CASE ~(j > 3)
    <3>1. j = 1 \/ j = 2 \/ j = 3
      BY <2>6
    <3> QED
      BY <2>1, <3>1
  <2> QED
    BY <2>5, <2>6
<1> QED
  BY <1>1, <1>2

\* Behind the last entry everything is read as it is meant.
LEMMA AllRead ==
  ASSUME NEW f \in Seq(ConfigEntry)
  PROVE  /\ SettingsBefore(f, Len(f) + 1) = Meaning(f).setting
         /\ Indented(f) => OriginsRead(f, Len(f) + 1, 0) = Meaning(f).origins
<1> DEFINE n == Len(f) + 1
           given(s) == {i \in 1 .. Len(f) : f[i].key = s /\ f[i].layout = "scalar"}
<1>1. \A k \in 1 .. Len(f) : k < n
  OBVIOUS
<1>2. ASSUME NEW s \in Settings PROVE Giving(f, n, s) = given(s)
  BY <1>1 DEF Giving
<1>3. Meaning(f).setting = [s \in Settings |-> LastValue(f, given(s))]
  BY DEF Meaning, LastValue
<1>4. SettingsBefore(f, n) = Meaning(f).setting
  BY <1>2, <1>3 DEF SettingsBefore
<1>5. ASSUME Indented(f) PROVE OriginsRead(f, n, 0) = Meaning(f).origins
  <2> DEFINE lists == {j \in 1 .. Len(f) : f[j].key = "origin"
                                            /\ f[j].layout \in {"list", "flush"}}
             words == UNION {Range(f[i].words) : i \in lists}
  <2>1. Meaning(f).origins = {tolower(w) : w \in words}
    BY DEF Meaning
  <2>2. lists = {j \in 1 .. Len(f) : IsList(f[j])}
    BY <1>5 DEF Indented, IsList
  <2>3. ASSUME NEW x \in ItemsRead(f, n, 0) PROVE f[x[1]].words[x[2]] \in words
    <3>1. /\ x[1] \in lists /\ x[2] \in 1 .. Len(f[x[1]].words)
          /\ x[1] \in 1 .. Len(f)
      BY <2>2 DEF ItemsRead, IsList
    <3>2. f[x[1]] \in ConfigEntry
      BY <3>1
    <3>3. f[x[1]].words \in Seq(Strings)
      BY <3>2 DEF ConfigEntry
    <3>4. f[x[1]].words[x[2]] \in Range(f[x[1]].words)
      BY <3>1, <3>3 DEF Range
    <3> QED
      BY <3>1, <3>4
  <2>4. ASSUME NEW w \in words PROVE \E x \in ItemsRead(f, n, 0) : w = f[x[1]].words[x[2]]
    <3> HIDE DEF lists
    <3>1. PICK a \in lists : w \in Range(f[a].words)
      OBVIOUS
    <3>2. a \in 1 .. Len(f) /\ IsList(f[a])
      BY <2>2
    <3>3. f[a] \in ConfigEntry
      BY <3>2
    <3>4. f[a].words \in Seq(Strings)
      BY <3>3 DEF ConfigEntry
    <3>5. PICK b \in 1 .. Len(f[a].words) : w = f[a].words[b]
      BY <3>1, <3>4 DEF Range
    <3>6. b \in Nat /\ a < n
      BY <1>1, <3>2
    <3>7. <<a, b>> \in ItemsRead(f, n, 0)
      BY <3>2, <3>6 DEF ItemsRead, IsList
    <3>8. w = f[<<a, b>>[1]].words[<<a, b>>[2]]
      BY <3>5
    <3> QED
      BY <3>7, <3>8
  <2>5. OriginsRead(f, n, 0) = {tolower(f[x[1]].words[x[2]]) : x \in ItemsRead(f, n, 0)}
    BY DEF OriginsRead
  <2> HIDE DEF words, n
  <2> QED
    BY <2>1, <2>3, <2>4, <2>5
<1> QED
  BY <1>4, <1>5

\* config_parse starts with nothing read.
LEMMA ConfInit == Init => ConfInv
<1> SUFFICES ASSUME Init PROVE ConfInv
  OBVIOUS
<1>1. /\ file \in Seq(ConfigEntry) /\ parser = Start
      /\ scanned = [part |-> 0, token |-> 1]
      /\ meant = Meaning(file) /\ indented = Indented(file) /\ phase = "config"
  BY FilesAssumption DEF Init, ConfigInit
<1> DEFINE e == <<>>
<1>2. /\ parser = [level |-> 0, prev_token |-> "NO", key |-> "other",
                   conf |-> [setting |-> [s \in Settings |-> NULL], origin_list |-> e]]
  BY <1>1 DEF Start, config_create
<1>3. e \in Seq(Strings) /\ Range(e) = {}
  BY DEF Range
<1> HIDE DEF e
<1>4. /\ parser \in Parser /\ parser.level = 0
      /\ parser.conf.setting = [s \in Settings |-> NULL] /\ parser.conf.origin_list = e
  <2> DEFINE g == [s \in Settings |-> NULL]
             c == [setting |-> g, origin_list |-> e]
  <2>1. g \in [Settings -> Strings \cup {NULL}]
    OBVIOUS
  <2> HIDE DEF g
  <2>2. c \in Conf /\ c.setting = g /\ c.origin_list = e
    BY <1>3, <2>1 DEF Conf
  <2>3. parser = [level |-> 0, prev_token |-> "NO", key |-> "other", conf |-> c]
    BY <1>2 DEF g
  <2> HIDE DEF c
  <2>4. PICK n, k : n = "NO" /\ k = "other"
    OBVIOUS
  <2>5. n \in Types \cup {"NO"} /\ k \in Names
    <3>1. n \in Types \cup {"NO"}
      BY <2>4, Zenon
    <3>2. k \in Names
      BY <2>4, Zenon DEF Names
    <3> QED
      BY <3>1, <3>2
  <2>6. PICK l \in Int : l = 0
    OBVIOUS
  <2>7. parser = [level |-> l, prev_token |-> n, key |-> k, conf |-> c]
    BY <2>3, <2>4, <2>6
  <2>8. parser \in Parser /\ parser.level = l /\ parser.conf = c
    BY <2>2, <2>5, <2>7 DEF Parser
  <2> QED
    BY <2>2, <2>6, <2>8 DEF g
<1>5. /\ scanned \in [part : Nat, token : Nat]
      /\ scanned.part = 0 /\ scanned.token = 1
  BY <1>1
<1>6. Position(file, parser, 0, 1)
  <2>1. 0 \in 0 .. Len(file) + 1 /\ ~(0 \in 1 .. Len(file))
    BY <1>1
  <2>2. 1 \in 1 .. Len(Scan(file, 0))
    BY <1>1, EndTokens
  <2>3. LevelAt(file, 0, 1) = 0
    BY <1>1, EndLevels
  <2>4. WordsRead(file, 0, 1) = 0
    BY <2>1 DEF WordsRead
  <2>5. 0 \in 0 .. 1
    OBVIOUS
  <2>6. Agrees(parser.conf, file, 0, 0)
    BY <1>1, <1>3, <1>4, <2>5, NothingRead DEF Agrees
  <2> QED
    BY <1>4, <2>1, <2>2, <2>3, <2>4, <2>6 DEF Position
<1> QED
  BY <1>1, <1>4, <1>5, <1>6 DEF ConfInv, Reading, ConfAsWritten

\* Every step keeps what config_parse has read right.
LEMMA ConfStep ==
  ASSUME ConfInv, [Next]_vars
  PROVE  ConfInv'
<1>1. CASE phase = "config" /\ ConfigToken /\ UNCHANGED <<phase, meant, indented>>
  <2> DEFINE i == scanned.part
             j == scanned.token
             t == Scan(file, i)[j]
             q == ParseToken(parser, t)
  <2>1. Reading
    BY <1>1 DEF ConfInv
  <2>2. /\ file \in Seq(ConfigEntry) /\ parser \in Parser
        /\ i \in Nat /\ j \in Nat /\ Position(file, parser, i, j)
        /\ scanned \in [part : Nat, token : Nat]
    BY <2>1 DEF Reading
  <2>3. /\ Expected(t.type) /\ t.type # "STREAM_END"
        /\ parser' = q /\ file' = file
        /\ scanned' = IF j < Len(Scan(file, i)) THEN [scanned EXCEPT !.token = @ + 1]
                      ELSE [part |-> i + 1, token |-> 1]
    BY <1>1 DEF ConfigToken, Upcoming
  <2>4. Advances(file, q, i, j)
    BY <2>2, <2>3, TokenStep
  <2>5. q \in Parser
    <3>1. i \in 0 .. Len(file) + 1 /\ j \in 1 .. Len(Scan(file, i))
      BY <2>2 DEF Position
    <3>2. Scan(file, i) \in Seq(TokenSet)
      BY <2>2, <3>1, PartTokens
    <3>3. t \in TokenSet
      BY <3>1, <3>2
    <3>4. CASE t.type = "SCALAR"
      <4>1. t.word \in Strings
        BY <3>3, <3>4 DEF TokenSet
      <4> QED
        BY <2>2, <3>3, <3>4, <4>1, ScalarToken
    <3>5. CASE t.type # "SCALAR"
      BY <2>2, <3>3, <3>5, PlainToken
    <3> QED
      BY <3>4, <3>5
  <2> HIDE DEF q
  <2>6. CASE j < Len(Scan(file, i))
    <3>1. /\ scanned' \in [part : Nat, token : Nat]
          /\ scanned'.part = i /\ scanned'.token = j + 1
      BY <2>2, <2>3, <2>6
    <3>2. Position(file, q, i, j + 1)
      BY <2>4, <2>6 DEF Advances
    <3>3. Reading'
      BY <1>1, <2>1, <2>2, <2>3, <2>5, <3>1, <3>2 DEF Reading
    <3> QED
      BY <1>1, <3>3 DEF ConfInv, ConfAsWritten
  <2>7. CASE ~(j < Len(Scan(file, i)))
    <3>1. /\ scanned' \in [part : Nat, token : Nat]
          /\ scanned'.part = i + 1 /\ scanned'.token = 1
      BY <2>2, <2>3, <2>7
    <3>2. Position(file, q, i + 1, 1)
      BY <2>4, <2>7 DEF Advances
    <3>3. Reading'
      BY <1>1, <2>1, <2>2, <2>3, <2>5, <3>1, <3>2 DEF Reading
    <3> QED
      BY <1>1, <3>3 DEF ConfInv, ConfAsWritten
  <2> QED
    BY <2>6, <2>7
<1>2. CASE phase = "config" /\ ConfigDone /\ phase' = "request"
           /\ UNCHANGED <<meant, indented>>
  <2> DEFINE i == scanned.part
             j == scanned.token
  <2>1. /\ file \in Seq(ConfigEntry) /\ parser \in Parser
        /\ Position(file, parser, i, j)
        /\ meant = Meaning(file) /\ indented = Indented(file)
    BY <1>2 DEF ConfInv, Reading
  <2>2. Scan(file, i)[j].type = "STREAM_END" /\ conf' = parser.conf
    BY <1>2 DEF ConfigDone, Upcoming
  <2>3. i \in 0 .. Len(file) + 1 /\ j \in 1 .. Len(Scan(file, i))
    BY <2>1 DEF Position
  <2>4. i = Len(file) + 1
    BY <2>1, <2>2, <2>3, StreamEnd
  <2>5. Agrees(parser.conf, file, i, 0)
    <3>1. WordsRead(file, i, j) = 0
      <4>1. ~(i \in 1 .. Len(file))
        BY <2>1, <2>4
      <4> QED
        BY <4>1 DEF WordsRead
    <3> QED
      BY <2>1, <3>1 DEF Position
  <2>6. parser.conf.origin_list \in Seq(Strings)
    BY <2>1 DEF Parser, Conf
  <2>7. /\ parser.conf.setting = meant.setting
        /\ indented => Range(parser.conf.origin_list) = meant.origins
    BY <2>1, <2>4, <2>5, AllRead DEF Agrees
  <2> QED
    BY <1>2, <2>2, <2>6, <2>7 DEF ConfInv, ConfAsWritten
<1>3. CASE phase = "config" /\ phase' = "exit"
  BY <1>3 DEF ConfInv, ConfAsWritten
<1>4. CASE /\ phase = "request" /\ phase' \in {"request", "closed", "answered"}
           /\ UNCHANGED <<conf, meant, indented>>
  BY <1>4 DEF ConfInv, ConfAsWritten
<1>5. CASE UNCHANGED vars
  BY <1>5 DEF ConfInv, Reading, ConfAsWritten, vars, configVars
<1>6. ASSUME NEW line, AddLine(line)
      PROVE  /\ phase = "request" /\ phase' \in {"request", "closed", "answered"}
             /\ UNCHANGED <<conf, meant, indented>>
  <2>1. phase = "request" /\ \E r : AfterLine(r)
    BY <1>6 DEF AddLine
  <2>2. PICK r : AfterLine(r)
    BY <2>1
  <2> QED
    BY <2>1, <2>2 DEF AfterLine, configVars
<1>7. CASE RequestLine
  <2>1. phase = "request" /\ \E r : AfterLine(r)
    BY <1>7 DEF RequestLine
  <2>2. PICK r : AfterLine(r)
    BY <2>1
  <2>3. /\ phase' \in {"request", "closed", "answered"}
        /\ UNCHANGED <<conf, meant, indented>>
    BY <2>1, <2>2 DEF AfterLine, configVars
  <2> QED
    BY <1>4, <2>1, <2>3
<1>8. CASE UsualLine \/ UnusualLine \/ EmptyLine
  <2>1. \E line : AddLine(line)
    BY <1>8 DEF UsualLine, UnusualLine, EmptyLine
  <2> QED
    BY <1>4, <1>6, <2>1
<1>9. CASE Configure
  BY <1>1, <1>2, <1>3, <1>9 DEF Configure
<1> QED
  BY <1>5, <1>7, <1>8, <1>9 DEF Next

\* config_parse reads every file as it is meant, if origin lists are indented.
THEOREM ReadAsWritten == Spec => []ConfAsWritten
<1>1. ConfInv => ConfAsWritten
  BY DEF ConfInv
<1> QED
  BY <1>1, ConfInit, ConfStep, PTL DEF Spec

-----------------------------------------------------------------------------
(***************************************************************************)
(* A valid request                                                         *)
(***************************************************************************)

\* A value that is not among the long ones is kept whole.
LEMMA KeptWhole ==
  ASSUME Inv, NEW k \in Keys
  PROVE  /\ LastSent(k) \notin Long(k) => Cut(k, LastSent(k)) = LastSent(k)
         /\ \A v \in AllSent(k) : v \notin Long(k) => Cut(k, v) = v
<1>1. /\ k \in Buffers /\ Capacity[k] \in Nat
      /\ \A v \in AllSent(k) : v \in Strings
      /\ LastSent(k) = <<>> \/ LastSent(k) \in AllSent(k)
  BY KeyShape, Sizes, Said
<1>2. \A v \in AllSent(k) : v \notin Long(k) => Cut(k, v) = v
  <2> SUFFICES ASSUME NEW v \in AllSent(k), v \notin Long(k)
               PROVE  Cut(k, v) = v
    OBVIOUS
  <2>1. v \in Strings /\ Len(v) \in Nat
    BY <1>1 DEF Strings
  <2>2. Len(v) <= Capacity[k]
    BY <1>1, <2>1 DEF Long
  <2> QED
    BY <1>1, <2>1, <2>2, CutString
<1>3. Cut(k, <<>>) = <<>>
  BY <1>1, CutEmpty
<1> QED
  BY <1>1, <1>2, <1>3

\* With any file, any request and any size of the buffers, rq_analyze accepts only
\* a request that has no defect, save what is due to a value that was cut and a
\* Connection header when _find_connection_upgrade has returned without a value.
THEOREM AcceptsOnlyValid == Spec => []AcceptedOnlyValid
<1>1. Inv /\ ConfAsWritten => AcceptedOnlyValid
  <2> SUFFICES ASSUME Inv, ConfAsWritten, response.status = 101, indented
               PROVE  /\ ~Defect(405) /\ ~Defect(426) /\ UpgradeMeant
                      /\ LastSent("sec-websocket-key") # <<>>
                      /\ OriginMeant \/ LastSent("origin") \in Long("origin")
                      /\ HostMeant \/ LastSent("host") \in Long("host")
                      /\ ResourceMeant \/ Len(asked[2]) > Capacity["resource"]
                      /\ ProtocolMeant \/ Long("sec-websocket-protocol") # {}
                      /\ ConnectionMeant \/ Long("connection") # {} \/ undefined
    BY DEF AcceptedOnlyValid
  <2>1. /\ phase = "answered" /\ response = rq_analyze(req)
        /\ asked[1] \in Strings /\ asked[2] \in Strings
        /\ req.method = Cut("method", asked[1])
        /\ req.resource = Cut("resource", asked[2])
    BY AnsweredThen
  <2>2. \A i \in 1 .. 9 : ~Checks(req)[i][2]
    <3>1. \A i \in 1 .. 9 : Checks(req)[i][1] # 101
      BY DEF Checks
    <3> QED
      BY <2>1, <3>1, Verdicts
  <2>3. /\ tolower(req.method) = Word("get")
        /\ config_check_origin(conf, req.str["origin"])
        /\ Word("xmpp") \in req.protocols
        /\ req.str["sec-websocket-key"] # <<>>
    BY <2>2, CheckList
  <2>4. /\ conf.setting["host"] # NULL => req.str["host"] = conf.setting["host"]
        /\ req.fl_upgrade_found
        /\ req.fl_connection_found
        /\ conf.setting["resource"] # NULL =>
              tolower(req.resource) = tolower(conf.setting["resource"])
        /\ req.str["sec-websocket-version"] = Word("13")
    BY SMTT(30), <2>2, CheckList
  <2>5. /\ conf.setting = meant.setting /\ conf.origin_list \in Seq(Strings)
        /\ Range(conf.origin_list) = meant.origins
    BY <2>1 DEF ConfAsWritten
  <2>6. \A k \in Keys : LastSent(k) \in Strings /\ \A v \in AllSent(k) : v \in Strings
    BY Said
  <2>7. /\ {"host", "sec-websocket-key", "sec-websocket-version"} \subseteq Stored \ {"origin"}
        /\ {"host", "sec-websocket-key", "sec-websocket-version", "origin", "upgrade",
            "connection", "sec-websocket-protocol"} \subseteq Keys
    BY DEF Stored, Keys
  <2>8. \A k \in {"host", "sec-websocket-key", "sec-websocket-version"} :
           req.str[k] = Cut(k, LastSent(k))
    BY <2>7, Said
  <2>9. ~Defect(405)
    <3>1. tolower(asked[1]) = Word("get")
      BY <2>1, <2>3, KeyShape, LookedFor, CutWord
    <3> QED
      BY <3>1 DEF Defect
  <2>10. ~Defect(426)
    <3>1. LastSent("sec-websocket-version") = Word("13")
      BY <2>4, <2>6, <2>7, <2>8, KeyShape, LookedFor, CutWord
    <3> QED
      BY <3>1 DEF Defect
  <2>11. UpgradeMeant
    <3>1. PICK v \in AllSent("upgrade") : IsWebsocket(Cut("upgrade", v))
      BY <2>4, Said
    <3>2. v \in Strings /\ "upgrade" \in Buffers
      BY <2>6, <2>7, <3>1, KeyShape
    <3>3. IsWebsocket(v)
      BY <3>1, <3>2, LookedFor, CutWord DEF IsWebsocket
    <3> QED
      BY <3>1, <3>3 DEF UpgradeMeant
  <2>12. LastSent("sec-websocket-key") # <<>>
    <3>1. "sec-websocket-key" \in Buffers
      BY <2>7, KeyShape
    <3>2. Cut("sec-websocket-key", <<>>) = <<>>
      BY <3>1, CutEmpty
    <3> QED
      BY <2>3, <2>8, <3>2
  <2>13. OriginMeant \/ LastSent("origin") \in Long("origin")
    <3> SUFFICES ASSUME LastSent("origin") \notin Long("origin") PROVE OriginMeant
      OBVIOUS
    <3>1. Cut("origin", LastSent("origin")) = LastSent("origin")
      BY <2>7, KeptWhole
    <3>2. req.str["origin"] = tolower(LastSent("origin"))
      BY <3>1, Said
    <3> QED
      BY <2>3, <2>5, <3>2, SameOrigins DEF OriginMeant
  <2>14. HostMeant \/ LastSent("host") \in Long("host")
    <3> SUFFICES ASSUME LastSent("host") \notin Long("host") PROVE HostMeant
      OBVIOUS
    <3>1. req.str["host"] = LastSent("host")
      BY <2>7, <2>8, KeptWhole
    <3> QED
      BY <2>4, <2>5, <3>1 DEF HostMeant
  <2>15. ResourceMeant \/ Len(asked[2]) > Capacity["resource"]
    <3> SUFFICES ASSUME ~(Len(asked[2]) > Capacity["resource"]) PROVE ResourceMeant
      OBVIOUS
    <3>1. Len(asked[2]) <= Capacity["resource"]
      BY <2>1, KeyShape, Sizes DEF Strings
    <3>2. req.resource = asked[2]
      BY <2>1, <3>1, KeyShape, CutString
    <3> QED
      BY <2>4, <2>5, <3>2 DEF ResourceMeant
  <2>16. ProtocolMeant \/ Long("sec-websocket-protocol") # {}
    <3> SUFFICES ASSUME Long("sec-websocket-protocol") = {} PROVE ProtocolMeant
      OBVIOUS
    <3>1. PICK v \in AllSent("sec-websocket-protocol") :
             Word("xmpp") \in Items(Cut("sec-websocket-protocol", v))
      BY <2>3, Said
    <3>2. Cut("sec-websocket-protocol", v) = v /\ v \in Strings
      BY <2>6, <2>7, <3>1, KeptWhole
    <3> QED
      BY <3>1, <3>2, ListedItems DEF ProtocolMeant
  <2>17. ConnectionMeant \/ Long("connection") # {} \/ undefined
    <3> SUFFICES ASSUME Long("connection") = {}, ~undefined PROVE ConnectionMeant
      OBVIOUS
    <3>1. PICK v \in AllSent("connection") : Upgrades(Cut("connection", v))
      BY <2>4, Said
    <3>2. Cut("connection", v) = v /\ v \in Strings
      BY <2>6, <2>7, <3>1, KeptWhole
    <3> QED
      BY <3>1, <3>2, ListedItems DEF ConnectionMeant
  <2> QED
    BY <2>9, <2>10, <2>11, <2>12, <2>13, <2>14, <2>15, <2>16, <2>17
<1> QED
  BY <1>1, InvCorrect, ReadAsWritten, PTL

\* With any file, rq_analyze refuses a request whose values fit only for a defect
\* it has.
THEOREM RefusesForDefect == Spec => []RefusedForDefect
<1>1. Inv /\ ConfAsWritten => RefusedForDefect
  <2> SUFFICES ASSUME Inv, ConfAsWritten, response.status \in Statuses, Fits,
                      response.status = 403 => indented
               PROVE  Defect(response.status)
    BY DEF RefusedForDefect
  <2>1. /\ phase = "answered" /\ response = rq_analyze(req)
        /\ asked[1] \in Strings /\ asked[2] \in Strings
        /\ req.method = Cut("method", asked[1])
        /\ req.resource = Cut("resource", asked[2])
    BY AnsweredThen DEF Statuses
  <2>2. PICK i \in 1 .. 9 : Checks(req)[i][2] /\ response.status = Checks(req)[i][1]
    BY <2>1, Verdicts DEF Statuses
  <2>3. /\ conf.setting = meant.setting /\ conf.origin_list \in Seq(Strings)
        /\ indented => Range(conf.origin_list) = meant.origins
    BY <2>1 DEF ConfAsWritten
  <2>4. \A k \in Keys : \A v \in AllSent(k) : v \in Strings /\ Cut(k, v) = v
    BY Said, KeptWhole DEF Fits
  <2>5. \A k \in Keys : Cut(k, LastSent(k)) = LastSent(k)
    BY KeptWhole DEF Fits
  <2>6. {"host", "sec-websocket-key", "sec-websocket-version"}
           \subseteq (Stored \ {"origin"}) \cap Keys
    BY DEF Stored, Keys
  <2>7. \A k \in {"host", "sec-websocket-key", "sec-websocket-version"} :
           req.str[k] = LastSent(k)
    BY <2>5, <2>6, Said
  <2>8. /\ "sec-websocket-protocol" \in Keys /\ "upgrade" \in Keys
        /\ "connection" \in Keys /\ "origin" \in Keys
    BY DEF Keys
  <2>9. CASE i = 1
    <3>1. response.status = 405 /\ tolower(req.method) # Word("get")
      BY <2>2, <2>9, CheckList
    <3>2. tolower(asked[1]) # Word("get")
      BY <2>1, <3>1, KeyShape, LookedFor, CutWord
    <3> QED
      BY <3>1, <3>2 DEF Defect
  <2>10. CASE i = 2
    <3>1. /\ response.status = 403
          /\ ~config_check_origin(conf, req.str["origin"])
      BY <2>2, <2>10, CheckList
    <3>2. req.str["origin"] = tolower(LastSent("origin"))
      BY <2>5, <2>8, Said
    <3>3. ~OriginMeant
      BY <2>3, <3>1, <3>2, SameOrigins DEF OriginMeant
    <3> QED
      BY <3>1, <3>3 DEF Defect
  <2>11. CASE i = 3
    <3>1. response.status = 400 /\ Word("xmpp") \notin req.protocols
      BY <2>2, <2>11, CheckList
    <3>2. ~ \E v \in AllSent("sec-websocket-protocol") :
               Word("xmpp") \in Items(Cut("sec-websocket-protocol", v))
      BY <3>1, Said
    <3>3. ~ProtocolMeant
      BY <2>4, <2>8, <3>2, ListedItems DEF ProtocolMeant
    <3> QED
      BY <3>1, <3>3 DEF Defect
  <2>12. CASE i = 4
    <3>1. response.status = 400 /\ req.str["sec-websocket-key"] = <<>>
      BY <2>2, <2>12, CheckList
    <3> QED
      BY <2>7, <3>1 DEF Defect
  <2>13. CASE i = 5
    <3>1. /\ response.status = 400 /\ conf.setting["host"] # NULL
          /\ req.str["host"] # conf.setting["host"]
      BY <2>2, <2>13, CheckList
    <3>2. ~HostMeant
      BY <2>3, <2>7, <3>1 DEF HostMeant
    <3> QED
      BY <3>1, <3>2 DEF Defect
  <2>14. CASE i = 6
    <3>1. response.status = 400 /\ ~req.fl_upgrade_found
      BY <2>2, <2>14, CheckList
    <3>2. ~ \E v \in AllSent("upgrade") : IsWebsocket(Cut("upgrade", v))
      BY <3>1, Said
    <3>3. ~UpgradeMeant
      BY <2>4, <2>8, <3>2 DEF UpgradeMeant
    <3> QED
      BY <3>1, <3>3 DEF Defect
  <2>15. CASE i = 7
    <3>1. response.status = 400 /\ ~req.fl_connection_found
      BY <2>2, <2>15, CheckList
    <3>2. ~ \E v \in AllSent("connection") : Upgrades(Cut("connection", v))
      BY <3>1, Said
    <3>3. ~ConnectionMeant
      BY <2>4, <2>8, <3>2, ListedItems DEF ConnectionMeant
    <3> QED
      BY <3>1, <3>3 DEF Defect
  <2>16. CASE i = 8
    <3>1. /\ response.status = 404 /\ conf.setting["resource"] # NULL
          /\ tolower(req.resource) # tolower(conf.setting["resource"])
      BY <2>2, <2>16, CheckList
    <3>2. req.resource = asked[2]
      BY <2>1, KeyShape, CutString DEF Fits
    <3>3. ~ResourceMeant
      BY <2>3, <3>1, <3>2 DEF ResourceMeant
    <3> QED
      BY <3>1, <3>3 DEF Defect
  <2>17. CASE i = 9
    <3>1. /\ response.status = 426
          /\ req.str["sec-websocket-version"] # Word("13")
      BY <2>2, <2>17, CheckList
    <3> QED
      BY <2>7, <3>1 DEF Defect
  <2> QED
    BY <2>9, <2>10, <2>11, <2>12, <2>13, <2>14, <2>15, <2>16, <2>17
<1> QED
  BY <1>1, InvCorrect, ReadAsWritten, PTL

=============================================================================
