-------------------------------- MODULE Relay --------------------------------
(***************************************************************************)
(* What jabsocket promises for a connection, without its memory, flags and *)
(* callbacks: the browser is answered once; while the session is open the  *)
(* two sides are relayed, each in order; the session ends once, perhaps    *)
(* with a Close frame, and nothing but Pongs follows; then the connection  *)
(* is given up.  An open session never disappears without ending first.    *)
(***************************************************************************)
EXTENDS Naturals, Sequences

CONSTANT Conns

VARIABLES
    phase,  \* "new", "waiting" for a request, "open", "ending" or "over"
    out,    \* what the browser is sent
    fwd     \* the messages the XMPP server is sent, by their numbers

vars == <<phase, out, fwd>>

-----------------------------------------------------------------------------

\* The stream header is the first message; no message comes twice or late.
Ordered(s) ==
    \A i \in 1 .. Len(s) : IF i = 1 THEN s[i] = 1 ELSE s[i - 1] < s[i]

\* The sequence t is s with more at its end.
Extends(s, t) == Len(s) <= Len(t) /\ \A i \in 1 .. Len(s) : t[i] = s[i]

Closed(s) == \E i \in 1 .. Len(s) : s[i] = "close"

\* The connection moves from phase a to phase b.
Move(c, a, b) == phase[c] = a /\ phase' = [phase EXCEPT ![c] = b]

Send(c, f) == out' = [out EXCEPT ![c] = Append(@, f)]

Accept(c) == Move(c, "new", "waiting") /\ UNCHANGED <<out, fwd>>

Open(c) ==
    /\ Move(c, "waiting", "open")
    /\ Send(c, "accept")
    /\ UNCHANGED fwd

\* The request is refused, or the browser goes away before it is complete.
Refuse(c) ==
    /\ Move(c, "waiting", "ending")
    /\ Send(c, "reject") \/ UNCHANGED out
    /\ UNCHANGED fwd

Text(c) ==
    /\ phase[c] = "open"
    /\ Send(c, "text")
    /\ UNCHANGED <<phase, fwd>>

\* A Ping is answered while the session is open, and one that arrived with the
\* end of the session even after the Close frame.
Pong(c) ==
    /\ phase[c] = "open" \/ (phase[c] = "ending" /\ Closed(out[c]))
    /\ Send(c, "pong")
    /\ UNCHANGED <<phase, fwd>>

Forward(c) ==
    /\ phase[c] = "open"
    /\ Extends(fwd[c], fwd'[c]) /\ Ordered(fwd'[c])
    /\ fwd' = [fwd EXCEPT ![c] = fwd'[c]]
    /\ UNCHANGED <<phase, out>>

End(c) ==
    /\ Move(c, "open", "ending")
    /\ Send(c, "close") \/ UNCHANGED out
    /\ UNCHANGED fwd

GiveUp(c) == Move(c, "ending", "over") /\ UNCHANGED <<out, fwd>>

Init ==
    /\ phase = [c \in Conns |-> "new"]
    /\ out = [c \in Conns |-> <<>>]
    /\ fwd = [c \in Conns |-> <<>>]

Next ==
    \E c \in Conns :
        \/ Accept(c) \/ Open(c) \/ Refuse(c)
        \/ Text(c) \/ Pong(c) \/ Forward(c)
        \/ End(c) \/ GiveUp(c)

Spec == Init /\ [][Next]_vars

=============================================================================
