--------------------------------- MODULE Text ---------------------------------
(***************************************************************************)
(* Strings: the str_t of util.c and the functions of the C library that    *)
(* the request and the configuration are read with.                        *)
(*                                                                         *)
(* A string is a sequence of symbols, the units that a buffer's size       *)
(* counts.  With a symbol for every byte these are the program's strings;  *)
(* TLC takes larger pieces, at whose borders every cut of interest falls.  *)
(***************************************************************************)
EXTENDS Naturals, Sequences, SequencesExt, FiniteSetsExt

CONSTANT
    Spelling    \* the strings that the source compares with, in small letters

\* `upper': in capitals.
Symbol == [text : STRING, upper : BOOLEAN]

Sym(t) == [text |-> t, upper |-> FALSE]

Space == Sym(" ")      \* and whatever else isspace accepts
Comma == Sym(",")
Colon == Sym(":")
Star  == Sym("*")

Strings == Seq(Symbol)

\* The keys of headers and settings, and the values that are looked for;
\* "other" is any other key.
Names ==
    {"host", "upgrade", "connection", "sec-websocket-key", "sec-websocket-protocol",
     "sec-websocket-version", "origin", "resource", "websocket", "xmpp", "get", "13",
     "other"}

ASSUME SpellingAssumption ==
    /\ Spelling \in [Names -> Strings]
    /\ \A m, n \in Names : Spelling[m] = Spelling[n] => m = n

Word(n) == Spelling[n]

\* strcmp with each of the names.
NameOf(s) ==
    IF \E n \in Names : s = Word(n) THEN CHOOSE n \in Names : s = Word(n) ELSE "other"

-----------------------------------------------------------------------------

\* sz_tolower and str_tolower, and the two sides of strcasecmp.
tolower(s) == [i \in 1 .. Len(s) |-> [text |-> s[i].text, upper |-> FALSE]]

\* Seeded fault: the size of the buffer is not looked at.
str_set_string_Unbounded(s, n) == s

\* What a buffer for n symbols and the final '\0' keeps of s.
str_set_string(s, n) == IF Len(s) <= n THEN s ELSE SubSeq(s, 1, n)

\* Where s has no white space.
Solid(s) == {i \in 1 .. Len(s) : s[i] # Space}

\* s without the white space at its beginning; str_set_string then stores it.
str_trim_beginning(s) ==
    IF Solid(s) = {} THEN <<>> ELSE SubSeq(s, Min(Solid(s)), Len(s))

\* s without the white space at both ends.
str_trim_whitespace(s) ==
    IF Solid(s) = {} THEN <<>> ELSE SubSeq(s, Min(Solid(s)), Max(Solid(s)))

\* i .. j is one of the parts strtok_r finds between the commas: never empty.
Part(s, i, j) ==
    /\ \A n \in i .. j : s[n] # Comma
    /\ i = 1 \/ s[i - 1] = Comma
    /\ j = Len(s) \/ s[j + 1] = Comma

\* The items of a list, trimmed.
Tokens(s) ==
    UNION {{str_trim_whitespace(SubSeq(s, i, j)) : j \in {n \in i .. Len(s) : Part(s, i, n)}} :
        i \in 1 .. Len(s)}

\* strchr(s, ':').
Colons(s) == {i \in 1 .. Len(s) : s[i] = Colon}

\* fnmatch(p, s, 0): `at' gives the end of what each symbol of the pattern
\* stands for.  Patterns with ?, [ or \ are left out.
fnmatch(p, s) ==
    \E at \in [0 .. Len(p) -> 0 .. Len(s)] :
        /\ at[0] = 0 /\ at[Len(p)] = Len(s)
        /\ \A i \in 1 .. Len(p) :
              \/ p[i] = Star /\ at[i - 1] <= at[i]
              \/ p[i] # Star /\ at[i] = at[i - 1] + 1 /\ s[at[i]] = p[i]

=============================================================================
