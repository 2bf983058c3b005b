----------------------------- MODULE LimitsProofs -----------------------------
(***************************************************************************)
(* Proofs about Limits, for every pair of limits, every stream of frames   *)
(* and every way of reading it.                                            *)
(*                                                                         *)
(* What is in a buffer is compared with sums over the frames it comes      *)
(* from.  The first part shows of SumSeq what the rest needs: it is a      *)
(* number, and one more element adds its value.  Both are shown by a least *)
(* counterexample.  Buffered, Whole and Unblocked are the invariants: what *)
(* frame_buffer holds of the stream, what message_buffer holds of the      *)
(* message, and when the loop leaves nothing behind.                       *)
(***************************************************************************)
EXTENDS Limits, WellFoundedInduction, TLAPS

-----------------------------------------------------------------------------
(***************************************************************************)
(* Sums                                                                    *)
(***************************************************************************)

\* A set of numbers has a least one.
LEMMA LeastNumber ==
  ASSUME NEW T, T \subseteq Nat, T # {}
  PROVE  \E x \in T : \A y \in T : x <= y
<1>1. \E x \in T : \A y \in T : ~(<<y, x>> \in OpToRel(<, Nat))
  BY NatLessThanWellFounded, WFMin
<1>2. PICK x \in T : \A y \in T : ~(<<y, x>> \in OpToRel(<, Nat))
  BY <1>1
<1>3. \A y \in T : ~(y < x)
  BY <1>2 DEF OpToRel
<1> QED
  BY <1>3

\* Max is the greatest element of a bounded set.
LEMMA Greatest ==
  ASSUME NEW n \in Nat, NEW t, t \subseteq 1 .. n, t # {}
  PROVE  Max(t) \in t /\ \A y \in t : y <= Max(t)
<1> DEFINE Bounds == {k \in Nat : \A y \in t : y <= k}
<1>1. n \in Bounds
  OBVIOUS
<1>2. PICK k \in Bounds : \A j \in Bounds : k <= j
  BY <1>1, LeastNumber
<1>3. k \in t
  <2> SUFFICES ASSUME k \notin t PROVE FALSE
    OBVIOUS
  <2>1. \A y \in t : y \in Nat /\ 1 <= y /\ y <= k
    BY <1>2
  <2>2. \A y \in t : y <= k - 1
    BY <1>2, <2>1
  <2>3. k - 1 \in Nat
    <3>1. PICK y : y \in t
      OBVIOUS
    <3>2. y \in Nat /\ 1 <= y /\ y <= k /\ k \in Nat
      BY <2>1, <3>1
    <3> QED
      BY <3>2
  <2>4. k - 1 \in Bounds
    BY <2>2, <2>3
  <2> QED
    BY <1>2, <2>4
<1>4. \E x \in t : \A y \in t : x >= y
  BY <1>2, <1>3
<1>5. Max(t) \in t /\ \A y \in t : Max(t) >= y
  BY <1>4, Zenon DEF Max
<1> QED
  BY <1>5

\* What SumSeq iterates over the subsets of S.
Iterates(f, s, S) ==
    f = [t \in SUBSET S |->
            IF t = {} THEN 0 ELSE f[t \ {Max(t)}] + s[Max(t)]]

\* SumSeq by that function.
LEMMA SumByIteration ==
  ASSUME NEW s
  PROVE  SumSeq(s) = (CHOOSE f : Iterates(f, s, DOMAIN s))[DOMAIN s]
  BY DEF SumSeq, FoldLeft, MapThenFoldSet, Iterates

\* One more number.
LEMMA IterationGrows ==
  ASSUME NEW m \in Nat \ {0}, NEW s \in [1 .. m -> Nat],
         NEW r \in [1 .. m - 1 -> Nat], \A i \in 1 .. m - 1 : r[i] = s[i],
         NEW f, Iterates(f, r, 1 .. m - 1)
  PROVE  \E g : Iterates(g, s, 1 .. m)
<1> DEFINE g == [t \in SUBSET (1 .. m) |->
                   IF m \in t THEN f[t \ {m}] + s[m] ELSE f[t]]
           h == [t \in SUBSET (1 .. m) |->
                   IF t = {} THEN 0 ELSE g[t \ {Max(t)}] + s[Max(t)]]
<1>1. \A t \in SUBSET (1 .. m - 1) :
         f[t] = IF t = {} THEN 0 ELSE f[t \ {Max(t)}] + r[Max(t)]
  BY DEF Iterates
<1>2. ASSUME NEW t \in SUBSET (1 .. m) PROVE g[t] = h[t]
  <2>1. CASE t = {}
    BY <1>1, <2>1
  <2>2. CASE m \in t
    <3>1. Max(t) = m
      <4>1. Max(t) \in t /\ m <= Max(t)
        BY <2>2, Greatest
      <4>2. Max(t) \in 1 .. m
        BY <4>1
      <4> QED
        BY <4>1, <4>2
    <3>2. t \ {m} \in SUBSET (1 .. m) /\ m \notin t \ {m}
      OBVIOUS
    <3>3. g[t \ {m}] = f[t \ {m}]
      BY <3>2
    <3> QED
      BY <2>2, <3>1, <3>3
  <2>3. CASE t # {} /\ m \notin t
    <3>1. t \in SUBSET (1 .. m - 1) /\ m - 1 \in Nat
      BY <2>3
    <3>2. Max(t) \in t
      BY <2>3, <3>1, Greatest
    <3>3. Max(t) \in 1 .. m - 1 /\ t \ {Max(t)} \in SUBSET (1 .. m)
          /\ m \notin t \ {Max(t)}
      BY <2>3, <3>1, <3>2
    <3>4. g[t] = f[t] /\ g[t \ {Max(t)}] = f[t \ {Max(t)}]
      BY <2>3, <3>3
    <3>5. f[t] = f[t \ {Max(t)}] + r[Max(t)]
      BY <1>1, <2>3, <3>1
    <3> QED
      BY <2>3, <3>3, <3>4, <3>5
  <2> QED
    BY <2>1, <2>2, <2>3
<1>3. g = h
  <2>1. g = [t \in SUBSET (1 .. m) |-> g[t]] /\ h = [t \in SUBSET (1 .. m) |-> h[t]]
    OBVIOUS
  <2> HIDE DEF g, h
  <2> QED
    BY <1>2, <2>1
<1>4. Iterates(g, s, 1 .. m)
  BY <1>3 DEF Iterates
<1> QED
  BY <1>4

\* The function exists for every sequence of numbers.
LEMMA IterationExists ==
  ASSUME NEW n \in Nat, NEW s \in [1 .. n -> Nat]
  PROVE  \E f : Iterates(f, s, 1 .. n)
<1> DEFINE T == {k \in Nat : \E r \in [1 .. k -> Nat] : ~\E f : Iterates(f, r, 1 .. k)}
<1> SUFFICES ASSUME n \in T PROVE FALSE
  OBVIOUS
<1>1. PICK m \in T : \A k \in T : m <= k
  BY LeastNumber
<1>2. PICK r \in [1 .. m -> Nat] : ~\E f : Iterates(f, r, 1 .. m)
  BY <1>1
<1>3. m \in Nat
  OBVIOUS
<1>4. CASE m = 0
  <2> DEFINE z == [t \in SUBSET (1 .. 0) |-> 0]
             y == [t \in SUBSET (1 .. 0) |->
                      IF t = {} THEN 0 ELSE z[t \ {Max(t)}] + r[Max(t)]]
  <2>1. 1 .. 0 = {}
    OBVIOUS
  <2>2. \A t \in SUBSET (1 .. 0) : t = {}
    BY <2>1
  <2>3. z = y
    BY <2>2
  <2>4. Iterates(z, r, 1 .. 0)
    BY <2>3 DEF Iterates
  <2> QED
    BY <1>2, <1>4, <2>4
<1>5. CASE m # 0
  <2> DEFINE q == [i \in 1 .. m - 1 |-> r[i]]
  <2>1. m \in Nat \ {0} /\ m - 1 \in Nat /\ ~(m <= m - 1)
    BY <1>3, <1>5
  <2>2. q \in [1 .. m - 1 -> Nat] /\ \A i \in 1 .. m - 1 : q[i] = r[i]
    BY <2>1
  <2> HIDE DEF q
  <2>3. m - 1 \notin T
    BY <1>1, <2>1
  <2>4. PICK f : Iterates(f, q, 1 .. m - 1)
    BY <2>1, <2>2, <2>3
  <2> QED
    BY <1>2, <2>1, <2>2, <2>4, IterationGrows
<1> QED
  BY <1>4, <1>5

\* f adds up the prefixes of s.
Adds(f, s, n) == \A k \in 1 .. n : f[1 .. k] = f[1 .. k - 1] + s[k]

\* The last number of a prefix is the one that Max chooses.
LEMMA PrefixStep ==
  ASSUME NEW n \in Nat, NEW s, NEW f, Iterates(f, s, 1 .. n)
  PROVE  Adds(f, s, n)
<1> SUFFICES ASSUME NEW k \in 1 .. n PROVE f[1 .. k] = f[1 .. k - 1] + s[k]
  BY DEF Adds
<1>1. 1 .. k \in SUBSET (1 .. n) /\ k \in 1 .. k /\ 1 .. k # {} /\ k \in Nat
  <2>1. k \in Nat /\ 1 <= k /\ k <= n
    OBVIOUS
  <2>2. k \in 1 .. k
    BY <2>1
  <2>3. \A i \in 1 .. k : i \in 1 .. n
    BY <2>1
  <2> QED
    BY <2>1, <2>2, <2>3
<1>2. Max(1 .. k) = k
  <2>1. Max(1 .. k) \in 1 .. k /\ k <= Max(1 .. k)
    BY <1>1, Greatest
  <2> QED
    BY <1>1, <2>1
<1>3. (1 .. k) \ {k} = 1 .. k - 1
  OBVIOUS
<1>4. f[1 .. k] = f[(1 .. k) \ {Max(1 .. k)}] + s[Max(1 .. k)]
  BY <1>1 DEF Iterates
<1> QED
  BY <1>2, <1>3, <1>4

\* Nothing is iterated over the empty prefix.
LEMMA PrefixEmpty ==
  ASSUME NEW n \in Nat, NEW s, NEW f, Iterates(f, s, 1 .. n)
  PROVE  f[1 .. 0] = 0
<1>1. 1 .. 0 = {} /\ {} \in SUBSET (1 .. n)
  OBVIOUS
<1>2. f[{}] = 0
  BY <1>1 DEF Iterates
<1> QED
  BY <1>1, <1>2

\* The iteration over a prefix depends on that prefix only, and is a number.
LEMMA PrefixSame ==
  ASSUME NEW n \in Nat, NEW s \in [1 .. n -> Nat], NEW f, Iterates(f, s, 1 .. n),
         NEW m \in Nat, NEW r, NEW g, Iterates(g, r, 1 .. m),
         NEW k \in Nat, k <= n, k <= m, \A i \in 1 .. k : r[i] = s[i]
  PROVE  f[1 .. k] = g[1 .. k] /\ f[1 .. k] \in Nat
<1>a. Adds(f, s, n) /\ Adds(g, r, m)
  BY PrefixStep
<1> DEFINE T == {j \in 0 .. k : ~(f[1 .. j] = g[1 .. j] /\ f[1 .. j] \in Nat)}
<1> SUFFICES ASSUME k \in T PROVE FALSE
  OBVIOUS
<1>1. T \subseteq Nat
  OBVIOUS
<1>2. PICK j \in T : \A i \in T : j <= i
  BY <1>1, LeastNumber
<1>3. j \in 0 .. k /\ ~(f[1 .. j] = g[1 .. j] /\ f[1 .. j] \in Nat)
  BY <1>2
<1>4. CASE j = 0
  <2>1. f[1 .. 0] = 0 /\ g[1 .. 0] = 0
    BY PrefixEmpty
  <2> QED
    BY <1>3, <1>4, <2>1
<1>5. CASE j # 0
  <2>1. j \in 1 .. n /\ j \in 1 .. m /\ j \in 1 .. k /\ j - 1 \in 0 .. k
        /\ ~(j <= j - 1)
    BY <1>3, <1>5
  <2>2. j - 1 \notin T
    BY <1>2, <2>1
  <2>3. f[1 .. j - 1] = g[1 .. j - 1] /\ f[1 .. j - 1] \in Nat
    BY <2>1, <2>2
  <2>4. f[1 .. j] = f[1 .. j - 1] + s[j] /\ g[1 .. j] = g[1 .. j - 1] + r[j]
    BY <1>a, <2>1 DEF Adds
  <2>5. r[j] = s[j] /\ s[j] \in Nat
    BY <2>1
  <2> HIDE DEF T
  <2> QED
    BY SMTT(30), <1>3, <2>3, <2>4, <2>5
<1> QED
  BY <1>4, <1>5

\* The function that SumSeq chooses.
LEMMA SumChosen ==
  ASSUME NEW n \in Nat, NEW s \in [1 .. n -> Nat]
  PROVE  \E f : Iterates(f, s, 1 .. n) /\ SumSeq(s) = f[1 .. n]
<1> DEFINE f == CHOOSE f : Iterates(f, s, 1 .. n)
<1>1. DOMAIN s = 1 .. n
  OBVIOUS
<1>2. SumSeq(s) = f[1 .. n]
  BY <1>1, SumByIteration
<1>3. Iterates(f, s, 1 .. n)
  BY IterationExists, Zenon
<1> QED
  BY <1>2, <1>3

\* A sum of numbers is a number, and zero if there are none.
LEMMA SumType ==
  ASSUME NEW n \in Nat, NEW s \in [1 .. n -> Nat]
  PROVE  SumSeq(s) \in Nat /\ (n = 0 => SumSeq(s) = 0)
<1>1. PICK f : Iterates(f, s, 1 .. n) /\ SumSeq(s) = f[1 .. n]
  BY SumChosen
<1>2. f[1 .. n] \in Nat
  BY <1>1, PrefixSame
<1>3. f[1 .. 0] = 0
  BY <1>1, PrefixEmpty
<1> QED
  BY <1>1, <1>2, <1>3

\* One more number adds its value.
LEMMA SumGrows ==
  ASSUME NEW n \in Nat, NEW s \in [1 .. n -> Nat], NEW r \in [1 .. n + 1 -> Nat],
         \A i \in 1 .. n : r[i] = s[i]
  PROVE  SumSeq(r) = SumSeq(s) + r[n + 1]
<1>1. n + 1 \in Nat /\ n + 1 \in 1 .. n + 1 /\ (n + 1) - 1 = n /\ n <= n + 1 /\ n <= n
  OBVIOUS
<1>2. PICK f : Iterates(f, s, 1 .. n) /\ SumSeq(s) = f[1 .. n]
  BY SumChosen
<1>3. PICK g : Iterates(g, r, 1 .. n + 1) /\ SumSeq(r) = g[1 .. n + 1]
  BY <1>1, SumChosen
<1>4. f[1 .. n] = g[1 .. n]
  BY SMTT(30), <1>1, <1>2, <1>3, PrefixSame
<1>5. Adds(g, r, n + 1)
  BY <1>1, <1>3, PrefixStep
<1>6. g[1 .. n + 1] = g[1 .. (n + 1) - 1] + r[n + 1]
  BY <1>1, <1>5 DEF Adds
<1> QED
  BY <1>1, <1>2, <1>3, <1>4, <1>6

-----------------------------------------------------------------------------
(***************************************************************************)
(* The stream and the message                                              *)
(***************************************************************************)

\* A frame has a length and a header.
LEMMA FrameShape ==
  ASSUME NEW f \in Frame
  PROVE  /\ f.size \in Nat /\ f.ping \in BOOLEAN /\ f.fin \in BOOLEAN
         /\ Total(f) \in Nat /\ Total(f) > 0
<1>1. f.size \in Sizes /\ f.ping \in BOOLEAN /\ f.fin \in BOOLEAN
  BY DEF Frame
<1>2. f.size \in Nat
  BY <1>1, LimitsAssumption, Zenon
<1>3. Header \in Nat /\ Header # 0
  BY LimitsAssumption
<1> QED
  BY <1>1, <1>2, <1>3 DEF Total

\* The lesser of two numbers.
LEMMA MinOfTwo ==
  ASSUME NEW a \in Nat, NEW b \in Nat
  PROVE  Min({a, b}) = IF a <= b THEN a ELSE b
<1>1. CASE a <= b
  <2>1. Min({a, b}) \in {a, b} /\ Min({a, b}) <= a
    <3>1. \E x \in {a, b} : \A y \in {a, b} : x <= y
      BY <1>1
    <3> QED
      BY <3>1, Zenon DEF Min
  <2> QED
    BY <1>1, <2>1
<1>2. CASE ~(a <= b)
  <2>1. Min({a, b}) \in {a, b} /\ Min({a, b}) <= b
    <3>1. \E x \in {a, b} : \A y \in {a, b} : x <= y
      BY <1>2
    <3> QED
      BY <3>1, Zenon DEF Min
  <2> QED
    BY <1>2, <2>1
<1> QED
  BY <1>1, <1>2

\* The bytes of the first k frames of s.
Upto(s, k) == Bytes(SubSeq(s, 1, k))

\* One more frame.
LEMMA UptoStep ==
  ASSUME NEW s \in Seq(Frame), NEW k \in Nat, k < Len(s)
  PROVE  Upto(s, k + 1) = Upto(s, k) + Total(s[k + 1])
<1> DEFINE q == SubSeq(s, 1, k)
           r == SubSeq(s, 1, k + 1)
           a == [i \in 1 .. k |-> Total(q[i])]
           b == [i \in 1 .. k + 1 |-> Total(r[i])]
<1>1. /\ Len(q) = k /\ Len(r) = k + 1
      /\ \A i \in 1 .. k : q[i] = s[i]
      /\ \A i \in 1 .. k + 1 : r[i] = s[i]
      /\ \A i \in 1 .. k + 1 : s[i] \in Frame
  OBVIOUS
<1> HIDE DEF q, r
<1>0. \A i \in 1 .. k : q[i] \in Frame
  BY <1>1
<1>2. a \in [1 .. k -> Nat]
  BY <1>0, FrameShape
<1>3. b \in [1 .. k + 1 -> Nat]
  BY <1>1, FrameShape
<1>4. \A i \in 1 .. k : b[i] = a[i]
  BY <1>1
<1>5. b[k + 1] = Total(s[k + 1])
  BY <1>1
<1>6. Bytes(q) = SumSeq(a) /\ Bytes(r) = SumSeq(b)
  BY <1>1 DEF Bytes
<1> HIDE DEF a, b
<1>7. SumSeq(b) = SumSeq(a) + b[k + 1]
  BY <1>2, <1>3, <1>4, SumGrows
<1> QED
  BY <1>5, <1>6, <1>7 DEF Upto, q, r

\* The bytes of a stream, of none and of all of its frames.
LEMMA UptoEnds ==
  ASSUME NEW s \in Seq(Frame)
  PROVE  /\ \A k \in 0 .. Len(s) : Upto(s, k) \in Nat
         /\ Upto(s, 0) = 0
         /\ Upto(s, Len(s)) = Bytes(s)
<1>1. ASSUME NEW k \in 0 .. Len(s)
      PROVE  Upto(s, k) \in Nat /\ (k = 0 => Upto(s, k) = 0)
  <2> DEFINE q == SubSeq(s, 1, k)
             a == [i \in 1 .. k |-> Total(q[i])]
  <2>1. k \in Nat /\ Len(q) = k /\ \A i \in 1 .. k : q[i] \in Frame
    OBVIOUS
  <2> HIDE DEF q
  <2>2. a \in [1 .. k -> Nat]
    BY <2>1, FrameShape
  <2>3. Bytes(q) = SumSeq(a)
    BY <2>1 DEF Bytes
  <2> HIDE DEF a
  <2>4. SumSeq(a) \in Nat /\ (k = 0 => SumSeq(a) = 0)
    BY <2>1, <2>2, SumType
  <2> QED
    BY <2>3, <2>4 DEF Upto, q
<1>2. 0 \in 0 .. Len(s)
  OBVIOUS
<1>3. Upto(s, 0) = 0
  BY <1>1, <1>2
<1>4. SubSeq(s, 1, Len(s)) = s
  OBVIOUS
<1> QED
  BY <1>1, <1>3, <1>4 DEF Upto

\* The payload of the frames p of the stream s, and what frame_data keeps of the
\* first n of them.
SizeOf(s, p) == SumSeq([i \in 1 .. Len(p) |-> s[p[i]].size])

KeptOf(s, p, n) == SumSeq([i \in 1 .. n |-> Min({s[p[i]].size, MaxFrame})])

\* A message_buffer of n bytes holds what its limit allows of the frames p; no
\* frame with a payload came when it was full already.
Holds(s, p, n) ==
    /\ n = Min({KeptOf(s, p, Len(p)), MaxMessage})
    /\ KeptOf(s, p, Len(p)) <= SizeOf(s, p)
    /\ KeptOf(s, p, Len(p)) = SizeOf(s, p) <=>
          \A i \in 1 .. Len(p) : s[p[i]].size <= MaxFrame
    /\ \A j \in 1 .. Len(p) : s[p[j]].size > 0 => KeptOf(s, p, j - 1) < MaxMessage

\* What is kept of one payload.
LEMMA KeptOne ==
  ASSUME NEW f \in Frame
  PROVE  LET d == Min({f.size, MaxFrame})
         IN  /\ d \in Nat /\ d <= f.size
             /\ d = f.size <=> f.size <= MaxFrame
             /\ f.size > 0 => d > 0
<1>1. f.size \in Nat
  BY FrameShape
<1>2. MaxFrame \in Nat /\ MaxFrame # 0
  BY LimitsAssumption
<1>3. Min({f.size, MaxFrame}) = IF f.size <= MaxFrame THEN f.size ELSE MaxFrame
  BY <1>1, <1>2, MinOfTwo
<1> QED
  BY <1>1, <1>2, <1>3

\* Both sums are numbers.
LEMMA KeptType ==
  ASSUME NEW s \in Seq(Frame), NEW p \in Seq(1 .. Len(s))
  PROVE  /\ SizeOf(s, p) \in Nat
         /\ \A n \in 0 .. Len(p) : KeptOf(s, p, n) \in Nat
<1>1. \A i \in 1 .. Len(p) : s[p[i]] \in Frame
  <2> SUFFICES ASSUME NEW i \in 1 .. Len(p) PROVE s[p[i]] \in Frame
    OBVIOUS
  <2>1. p[i] \in 1 .. Len(s)
    OBVIOUS
  <2> QED
    BY <2>1
<1>2. Len(p) \in Nat
  OBVIOUS
<1>3. SizeOf(s, p) \in Nat
  <2> DEFINE a == [i \in 1 .. Len(p) |-> s[p[i]].size]
  <2>1. a \in [1 .. Len(p) -> Nat]
    BY <1>1, FrameShape
  <2> HIDE DEF a
  <2>2. SumSeq(a) \in Nat
    BY <1>2, <2>1, SumType
  <2> QED
    BY <2>2 DEF SizeOf, a
<1>4. ASSUME NEW n \in 0 .. Len(p) PROVE KeptOf(s, p, n) \in Nat
  <2> DEFINE a == [i \in 1 .. n |-> Min({s[p[i]].size, MaxFrame})]
  <2>1. n \in Nat /\ \A i \in 1 .. n : s[p[i]] \in Frame
    BY <1>1
  <2>2. a \in [1 .. n -> Nat]
    BY <2>1, KeptOne
  <2> HIDE DEF a
  <2>3. SumSeq(a) \in Nat
    BY <2>1, <2>2, SumType
  <2> QED
    BY <2>3 DEF KeptOf, a
<1> QED
  BY <1>3, <1>4

\* q is p with one more frame.
Longer(s, p, k, q) ==
    /\ q \in Seq(1 .. Len(s)) /\ Len(q) = Len(p) + 1 /\ q[Len(p) + 1] = k
    /\ \A i \in 1 .. Len(p) : q[i] = p[i]
    /\ SizeOf(s, q) = SizeOf(s, p) + s[k].size
    /\ KeptOf(s, q, Len(q)) = KeptOf(s, p, Len(p)) + Min({s[k].size, MaxFrame})
    /\ \A n \in 0 .. Len(p) : KeptOf(s, q, n) = KeptOf(s, p, n)

\* It adds its payload to both sums.
LEMMA KeptStep ==
  ASSUME NEW s \in Seq(Frame), NEW p \in Seq(1 .. Len(s)), NEW k \in 1 .. Len(s),
         NEW q, q = Append(p, k)
  PROVE  Longer(s, p, k, q)
<1>1. /\ q \in Seq(1 .. Len(s)) /\ Len(q) = Len(p) + 1 /\ q[Len(p) + 1] = k
      /\ \A i \in 1 .. Len(p) : q[i] = p[i]
      /\ Len(p) \in Nat
  OBVIOUS
<1>2. /\ \A i \in 1 .. Len(q) : s[q[i]] \in Frame
      /\ \A i \in 1 .. Len(p) : s[p[i]] \in Frame
  <2>1. ASSUME NEW r \in Seq(1 .. Len(s)), NEW i \in 1 .. Len(r)
        PROVE  s[r[i]] \in Frame
    <3>1. r[i] \in 1 .. Len(s)
      OBVIOUS
    <3> QED
      BY <3>1
  <2> QED
    BY <1>1, <2>1
<1>3. SizeOf(s, q) = SizeOf(s, p) + s[k].size
  <2> DEFINE a == [i \in 1 .. Len(p) |-> s[p[i]].size]
             b == [i \in 1 .. Len(p) + 1 |-> s[q[i]].size]
  <2>1. a \in [1 .. Len(p) -> Nat]
    BY <1>2, FrameShape
  <2>2. b \in [1 .. Len(p) + 1 -> Nat]
    BY <1>1, <1>2, FrameShape
  <2>3. (\A i \in 1 .. Len(p) : b[i] = a[i]) /\ b[Len(p) + 1] = s[k].size
    BY <1>1
  <2>4. SizeOf(s, p) = SumSeq(a) /\ SizeOf(s, q) = SumSeq(b)
    BY <1>1 DEF SizeOf
  <2> HIDE DEF a, b
  <2>5. SumSeq(b) = SumSeq(a) + b[Len(p) + 1]
    BY <1>1, <2>1, <2>2, <2>3, SumGrows
  <2> QED
    BY <2>3, <2>4, <2>5
<1>4. KeptOf(s, q, Len(q)) = KeptOf(s, p, Len(p)) + Min({s[k].size, MaxFrame})
  <2> DEFINE a == [i \in 1 .. Len(p) |-> Min({s[p[i]].size, MaxFrame})]
             b == [i \in 1 .. Len(p) + 1 |-> Min({s[q[i]].size, MaxFrame})]
  <2>1. a \in [1 .. Len(p) -> Nat]
    BY <1>2, KeptOne
  <2>2. b \in [1 .. Len(p) + 1 -> Nat]
    BY <1>1, <1>2, KeptOne
  <2>3. /\ \A i \in 1 .. Len(p) : b[i] = a[i]
        /\ b[Len(p) + 1] = Min({s[k].size, MaxFrame})
    BY SMTT(30), <1>1
  <2>4. KeptOf(s, p, Len(p)) = SumSeq(a) /\ KeptOf(s, q, Len(q)) = SumSeq(b)
    BY <1>1 DEF KeptOf
  <2> HIDE DEF a, b
  <2>5. SumSeq(b) = SumSeq(a) + b[Len(p) + 1]
    BY <1>1, <2>1, <2>2, <2>3, SumGrows
  <2> QED
    BY <2>3, <2>4, <2>5
<1>5. ASSUME NEW n \in 0 .. Len(p) PROVE KeptOf(s, q, n) = KeptOf(s, p, n)
  <2>1. \A i \in 1 .. n : q[i] = p[i]
    BY <1>1
  <2>2. [i \in 1 .. n |-> Min({s[q[i]].size, MaxFrame})]
           = [i \in 1 .. n |-> Min({s[p[i]].size, MaxFrame})]
    BY <2>1
  <2> QED
    BY <2>2 DEF KeptOf
<1> QED
  BY <1>1, <1>3, <1>4, <1>5 DEF Longer

\* An empty message_buffer.
LEMMA HoldsNone ==
  ASSUME NEW s \in Seq(Frame)
  PROVE  Holds(s, <<>>, 0)
<1> DEFINE e == <<>>
<1>1. e \in Seq(1 .. Len(s)) /\ Len(e) = 0 /\ 1 .. 0 = {}
  OBVIOUS
<1> HIDE DEF e
<1> DEFINE a == [i \in 1 .. 0 |-> s[e[i]].size]
           b == [i \in 1 .. 0 |-> Min({s[e[i]].size, MaxFrame})]
<1>2. a \in [1 .. 0 -> Nat] /\ b \in [1 .. 0 -> Nat]
  BY <1>1
<1>3. SizeOf(s, e) = SumSeq(a) /\ KeptOf(s, e, 0) = SumSeq(b)
  BY <1>1 DEF SizeOf, KeptOf
<1> HIDE DEF a, b
<1>4. SizeOf(s, e) = 0 /\ KeptOf(s, e, 0) = 0
  BY <1>2, <1>3, SumType
<1>5. MaxMessage \in Nat
  BY LimitsAssumption
<1>6. Min({0, MaxMessage}) = 0
  BY <1>5, MinOfTwo
<1>7. Holds(s, e, 0)
  <2>1. \A j \in 1 .. Len(e) : FALSE
    BY <1>1
  <2>2. 0 <= 0
    OBVIOUS
  <2> QED
    BY <1>1, <1>4, <1>6, <2>1, <2>2, Zenon DEF Holds
<1> QED
  BY <1>7 DEF e

\* One more frame, if buffer_append reports no error.
LEMMA HoldsStep ==
  ASSUME NEW s \in Seq(Frame), NEW p \in Seq(1 .. Len(s)), NEW k \in 1 .. Len(s),
         NEW n \in Nat, Holds(s, p, n),
         NEW d, d = buffer_set_data(s[k].size, MaxFrame),
         Appends(n, d, MaxMessage)
  PROVE  Holds(s, Append(p, k), buffer_append(n, d, MaxMessage))
<1> DEFINE size == s[k].size
<1>1. PICK q : q = Append(p, k)
  OBVIOUS
<1>2. s[k] \in Frame
  OBVIOUS
<1>3. size \in Nat /\ MaxFrame \in Nat /\ MaxMessage \in Nat /\ MaxMessage # 0
  BY <1>2, FrameShape, LimitsAssumption
<1>4. d = Min({size, MaxFrame})
  <2>1. 0 + size = size
    BY <1>3
  <2> QED
    BY <2>1 DEF buffer_set_data, buffer_append
<1>5. /\ d \in Nat /\ d <= size /\ (size > 0 => d > 0)
      /\ (d = size <=> size <= MaxFrame)
  BY <1>2, <1>4, KeptOne
<1>6. /\ q \in Seq(1 .. Len(s)) /\ Len(q) = Len(p) + 1 /\ q[Len(p) + 1] = k
      /\ \A i \in 1 .. Len(p) : q[i] = p[i]
      /\ SizeOf(s, q) = SizeOf(s, p) + size
      /\ KeptOf(s, q, Len(q)) = KeptOf(s, p, Len(p)) + d
      /\ \A i \in 0 .. Len(p) : KeptOf(s, q, i) = KeptOf(s, p, i)
  <2>1. Longer(s, p, k, q)
    BY <1>1, KeptStep
  <2> QED
    BY <1>4, <2>1 DEF Longer
<1> HIDE DEF size
<1>7. Len(p) \in Nat /\ Len(p) \in 0 .. Len(p)
  OBVIOUS
<1>8. PICK K \in Nat : K = KeptOf(s, p, Len(p))
  <2>1. KeptOf(s, p, Len(p)) \in Nat
    BY <1>7, KeptType
  <2> QED
    BY <2>1
<1>9. PICK S \in Nat : S = SizeOf(s, p)
  BY KeptType
<1>10. n = (IF K <= MaxMessage THEN K ELSE MaxMessage) /\ K <= S
  BY <1>3, <1>8, <1>9, MinOfTwo DEF Holds
<1>11. K = S <=> \A i \in 1 .. Len(p) : s[p[i]].size <= MaxFrame
  BY <1>8, <1>9 DEF Holds
<1>12. buffer_append(n, d, MaxMessage) = Min({KeptOf(s, q, Len(q)), MaxMessage})
  <2>1. n + d \in Nat /\ K + d \in Nat
    BY <1>5
  <2>2. /\ Min({n + d, MaxMessage}) = IF n + d <= MaxMessage THEN n + d ELSE MaxMessage
        /\ Min({K + d, MaxMessage}) = IF K + d <= MaxMessage THEN K + d ELSE MaxMessage
    BY <1>3, <2>1, MinOfTwo
  <2>3. Min({n + d, MaxMessage}) = Min({K + d, MaxMessage})
    BY <1>3, <1>5, <1>10, <2>2
  <2> QED
    BY <1>6, <1>8, <2>3 DEF buffer_append
<1>13. KeptOf(s, q, Len(q)) <= SizeOf(s, q)
  BY SMTT(30), <1>3, <1>5, <1>6, <1>8, <1>9, <1>10
<1>14. KeptOf(s, q, Len(q)) = SizeOf(s, q) <=>
          \A i \in 1 .. Len(q) : s[q[i]].size <= MaxFrame
  <2>1. K + d = S + size <=> K = S /\ d = size
    BY SMTT(30), <1>3, <1>5, <1>10
  <2>2. (\A i \in 1 .. Len(q) : s[q[i]].size <= MaxFrame) <=>
           /\ \A i \in 1 .. Len(p) : s[p[i]].size <= MaxFrame
           /\ size <= MaxFrame
    <3>1. 1 .. Len(q) = (1 .. Len(p)) \cup {Len(p) + 1}
      BY <1>6, <1>7
    <3> QED
      BY <1>6, <3>1 DEF size
  <2> QED
    BY <1>5, <1>6, <1>8, <1>9, <1>11, <2>1, <2>2
<1>15. ASSUME NEW j \in 1 .. Len(q), s[q[j]].size > 0
       PROVE  KeptOf(s, q, j - 1) < MaxMessage
  <2>1. CASE j \in 1 .. Len(p)
    <3>1. j - 1 \in 0 .. Len(p) /\ q[j] = p[j]
      BY SMTT(30), <1>6, <1>7, <2>1
    <3>2. KeptOf(s, p, j - 1) < MaxMessage
      BY <1>15, <2>1, <3>1 DEF Holds
    <3> QED
      BY <1>6, <3>1, <3>2
  <2>2. CASE j = Len(p) + 1
    <3>1. j - 1 = Len(p) /\ Len(p) \in 0 .. Len(p) /\ size > 0
      BY <1>6, <1>7, <1>15, <2>2 DEF size
    <3>2. d > 0
      BY <1>5, <3>1
    <3>3. n < MaxMessage
      BY <1>5, <3>2 DEF Appends
    <3>4. K < MaxMessage
      BY <1>3, <1>10, <3>3
    <3> QED
      BY <1>6, <1>8, <3>1, <3>4
  <2> QED
    BY <1>6, <1>7, <2>1, <2>2
<1> QED
  BY <1>1, <1>12, <1>13, <1>14, <1>15 DEF Holds

-----------------------------------------------------------------------------
(***************************************************************************)
(* The invariant                                                           *)
(***************************************************************************)

Flags == [frame : BOOLEAN, message : BOOLEAN, error : BOOLEAN]

Message == [parts : Seq(1 .. Len(sent)), length : Nat]

\* Types.
Typed ==
    /\ sent \in Seq(Frame)
    /\ TypeOK
    /\ wsmsg \in Flags /\ pinged \in BOOLEAN /\ dropped \in BOOLEAN
    /\ parts \in Seq(1 .. Len(sent))
    /\ delivered \in Seq(Message)

\* Until bytes are dropped, frame_buffer holds what has arrived behind the
\* frames taken.
Buffered ==
    ~dropped => /\ valid = frame_buffer
                /\ frame_buffer = arrived - Upto(sent, taken)

\* The loop finds nothing only when no whole frame is there, and returns with
\* nothing left but after a Ping.
Unblocked ==
    /\ pc = "loop" /\ ~Waiting /\ ~dropped => ~Ready
    /\ pc = "idle" /\ ~dropped /\ ~pinged => ~Waiting /\ ~Ready

\* Every message is what its frames come to within the limits.
Whole ==
    /\ Holds(sent, parts, message_buffer)
    /\ \A m \in 1 .. Len(delivered) :
          Holds(sent, delivered[m].parts, delivered[m].length)

Inv == Typed /\ Buffered /\ Unblocked /\ Whole

\* The sizes of the buffers are numbers.
LEMMA LimitTypes ==
  /\ MaxFrame \in Nat /\ MaxMessage \in Nat /\ Room \in Nat
  /\ MaxFrame > 0 /\ MaxMessage > 0 /\ Room > 0
<1>1. MaxFrame \in Nat /\ MaxMessage \in Nat /\ MaxFrame # 0 /\ MaxMessage # 0
  BY LimitsAssumption
<1> QED
  BY <1>1 DEF Room

\* It holds at the start.
LEMMA InvInit == Init => Inv
<1> SUFFICES ASSUME Init PROVE Inv
  OBVIOUS
<1>1. PICK n \in 1 .. MaxSent : sent \in [1 .. n -> Frame]
  BY DEF Init
<1>2. n \in Nat /\ n > 0
  BY LimitsAssumption
<1>3. sent \in Seq(Frame) /\ Len(sent) = n
  BY <1>1, <1>2
<1>4. /\ arrived = 0 /\ taken = 0 /\ frame_buffer = 0 /\ valid = 0
      /\ message_buffer = 0 /\ parts = <<>> /\ delivered = <<>>
      /\ wsmsg = [frame |-> FALSE, message |-> FALSE, error |-> FALSE]
      /\ pc = "idle" /\ pinged = FALSE /\ dropped = FALSE
  BY DEF Init, wsmsg_create
<1>5. Bytes(sent) \in Nat /\ Upto(sent, 0) = 0
  <2>1. Len(sent) \in 0 .. Len(sent)
    BY <1>2, <1>3
  <2> QED
    BY <1>3, <2>1, UptoEnds
<1>6. TypeOK
  BY <1>2, <1>3, <1>4, <1>5, LimitTypes DEF TypeOK
<1>7. Typed
  <2>1. parts \in Seq(1 .. Len(sent)) /\ delivered \in Seq(Message)
    BY <1>4
  <2>2. wsmsg \in Flags
    BY <1>4 DEF Flags
  <2> QED
    BY <1>3, <1>4, <1>6, <2>1, <2>2 DEF Typed
<1>8. Buffered
  BY <1>4, <1>5 DEF Buffered
<1>9. Unblocked
  <2>1. sent[0 + 1] \in Frame
    BY <1>2, <1>3
  <2>2. Total(sent[0 + 1]) \in Nat /\ Total(sent[0 + 1]) > 0
    BY <2>1, FrameShape
  <2>3. ~Ready
    BY <1>4, <2>2 DEF Ready
  <2>4. ~Waiting
    BY <1>4 DEF Waiting
  <2> QED
    BY <2>3, <2>4 DEF Unblocked
<1>10. Whole
  <2>1. Holds(sent, <<>>, 0)
    BY <1>3, HoldsNone
  <2>2. Len(delivered) = 0
    BY <1>4
  <2> QED
    BY <1>4, <2>1, <2>2 DEF Whole
<1> QED
  BY <1>7, <1>8, <1>9, <1>10 DEF Inv

\* A read: what does not fit is dropped.
LEMMA ReadStep ==
  ASSUME Inv, Read
  PROVE  Inv'
<1>1. PICK n \in 1 .. Bytes(sent) - arrived : wsmsg_add(n)
  BY DEF Read
<1>2. /\ arrived' = arrived + n
      /\ frame_buffer' = buffer_append(frame_buffer, n, Room)
      /\ valid' = IF dropped THEN valid ELSE frame_buffer'
      /\ dropped' = (dropped \/ frame_buffer' # frame_buffer + n)
      /\ pc' = IF Appends(frame_buffer, n, Room) /\ ~Waiting THEN "process" ELSE "loop"
      /\ pinged' = FALSE
      /\ sent' = sent /\ taken' = taken /\ message_buffer' = message_buffer
      /\ parts' = parts /\ wsmsg' = wsmsg /\ delivered' = delivered
  BY <1>1 DEF wsmsg_add
<1>3. /\ sent \in Seq(Frame) /\ TypeOK /\ Room \in Nat
      /\ taken \in 0 .. Len(sent)
      /\ frame_buffer \in 0 .. Room /\ valid \in 0 .. frame_buffer
      /\ arrived \in 0 .. Bytes(sent)
      /\ dropped \in BOOLEAN
  BY LimitTypes DEF Inv, Typed, TypeOK
<1>4. Bytes(sent) \in Nat /\ Upto(sent, taken) \in Nat
  <2>1. Len(sent) \in 0 .. Len(sent)
    BY <1>3
  <2> QED
    BY <1>3, <2>1, UptoEnds
<1>5. n \in Nat /\ n > 0 /\ arrived + n <= Bytes(sent) /\ arrived \in Nat
      /\ frame_buffer \in Nat /\ valid \in Nat /\ valid <= frame_buffer
      /\ frame_buffer <= Room
  BY <1>3, <1>4
<1>6. frame_buffer' = IF frame_buffer + n <= Room THEN frame_buffer + n ELSE Room
  BY <1>2, <1>3, <1>5, MinOfTwo DEF buffer_append
<1>7. Bytes(sent)' = Bytes(sent) /\ Len(sent') = Len(sent)
  BY <1>2
<1>8. TypeOK'
  <2>1. arrived' \in 0 .. Bytes(sent)'
    BY <1>2, <1>4, <1>5, <1>7
  <2>2. frame_buffer' \in 0 .. Room /\ frame_buffer <= frame_buffer'
    BY <1>3, <1>5, <1>6
  <2>3. valid' \in 0 .. frame_buffer'
    BY <1>2, <1>3, <1>5, <2>2
  <2>4. pc' \in {"process", "loop"}
    BY <1>2
  <2> QED
    BY <1>2, <1>3, <2>1, <2>2, <2>3, <2>4 DEF TypeOK, Room
<1>9. Typed'
  <2>1. dropped' \in BOOLEAN /\ pinged' \in BOOLEAN
    BY <1>2, Zenon
  <2> QED
    BY <1>2, <1>8, <2>1 DEF Inv, Typed, Message
<1>10. Buffered'
  <2> SUFFICES ASSUME ~dropped'
               PROVE  valid' = frame_buffer' /\ frame_buffer' = arrived' - Upto(sent', taken')
    BY DEF Buffered, Upto
  <2>1. ~dropped /\ frame_buffer' = frame_buffer + n
    BY <1>2, Zenon
  <2>2. frame_buffer = arrived - Upto(sent, taken)
    BY <2>1 DEF Inv, Buffered
  <2>3. Upto(sent', taken') = Upto(sent, taken)
    BY <1>2
  <2> QED
    BY <1>2, <1>4, <1>5, <2>1, <2>2, <2>3
<1>11. Unblocked'
  <2>1. pc' # "idle"
    BY <1>2
  <2>2. ASSUME pc' = "loop", ~Waiting', ~dropped' PROVE FALSE
    <3>1. ~Waiting
      BY <1>2, <2>2 DEF Waiting
    <3>2. ~Appends(frame_buffer, n, Room)
      BY <1>2, <2>2, <3>1
    <3>3. frame_buffer = Room
      BY <1>5, <3>2, LimitTypes DEF Appends
    <3>4. frame_buffer' # frame_buffer + n
      BY <1>3, <1>5, <1>6, <3>3
    <3> QED
      BY <1>2, <2>2, <3>4, Zenon
  <2> QED
    BY <2>1, <2>2 DEF Unblocked
<1>12. Whole'
  BY <1>2 DEF Inv, Whole
<1> QED
  BY <1>9, <1>10, <1>11, <1>12 DEF Inv

\* A step of the loop that takes nothing from the stream and writes no message.
LEMMA TurnStep ==
  ASSUME Inv,
         UNCHANGED <<sent, arrived, taken, frame_buffer, valid, message_buffer,
                     parts, dropped, delivered>>,
         wsmsg' \in Flags, pinged' \in BOOLEAN,
         pc' \in {"idle", "process", "loop", "closed", "garbled"},
         Unblocked'
  PROVE  Inv'
<1>1. /\ sent' = sent /\ arrived' = arrived /\ taken' = taken
      /\ frame_buffer' = frame_buffer /\ valid' = valid
      /\ message_buffer' = message_buffer /\ parts' = parts
      /\ dropped' = dropped /\ delivered' = delivered
  OBVIOUS
<1>2. Bytes(sent') = Bytes(sent) /\ Upto(sent', taken') = Upto(sent, taken)
  BY <1>1
<1>3. TypeOK'
  BY <1>1, <1>2 DEF Inv, Typed, TypeOK, Room
<1>4. Typed'
  BY <1>1, <1>3 DEF Inv, Typed, Message
<1>5. Buffered'
  BY <1>1, <1>2 DEF Inv, Buffered
<1>6. Whole'
  BY <1>1 DEF Inv, Whole
<1> QED
  BY <1>4, <1>5, <1>6 DEF Inv

\* FS_BUILDING, the gap, and the turns of the loop but for a message.
LEMMA TurnSteps ==
  ASSUME Inv, ProcessBuilding \/ ProcessGap \/ LoopFail \/ LoopPing \/ LoopDone
  PROVE  Inv'
<1>0. wsmsg \in Flags /\ pinged \in BOOLEAN
  BY DEF Inv, Typed
<1>1. CASE ProcessBuilding
  <2>1. /\ UNCHANGED <<sent, arrived, taken, frame_buffer, valid, message_buffer,
                       parts, dropped, delivered>>
        /\ wsmsg' = wsmsg /\ pinged' = pinged /\ ~Ready
        /\ pc' = IF pinged THEN "idle" ELSE "loop"
    BY <1>1 DEF ProcessBuilding
  <2>2. ~Ready'
    BY <2>1 DEF Ready
  <2>3. pc' = "idle" => pinged'
    BY <2>1
  <2>4. Unblocked'
    BY <2>2, <2>3 DEF Unblocked
  <2> QED
    BY <1>0, <2>1, <2>4, TurnStep
<1>2. CASE ProcessGap
  <2>1. /\ UNCHANGED <<sent, arrived, taken, frame_buffer, valid, message_buffer,
                       parts, dropped, delivered>>
        /\ wsmsg' = wsmsg /\ pinged' = pinged /\ pc' = "garbled"
    BY <1>2 DEF ProcessGap
  <2>2. Unblocked'
    BY <2>1 DEF Unblocked
  <2> QED
    BY <1>0, <2>1, <2>2, TurnStep
<1>3. CASE LoopFail
  <2>1. /\ UNCHANGED <<sent, arrived, taken, frame_buffer, valid, message_buffer,
                       parts, dropped, delivered>>
        /\ wsmsg' = wsmsg /\ pinged' = pinged /\ pc' = "closed"
    BY <1>3 DEF LoopFail
  <2>2. Unblocked'
    BY <2>1 DEF Unblocked
  <2> QED
    BY <1>0, <2>1, <2>2, TurnStep
<1>4. CASE LoopPing
  <2>1. /\ UNCHANGED <<sent, arrived, taken, frame_buffer, valid, message_buffer,
                       parts, dropped, delivered>>
        /\ wsmsg' = [wsmsg EXCEPT !.frame = FALSE] /\ pinged' = TRUE
        /\ pc' = IF wsmsg.message THEN "idle" ELSE "process"
    BY <1>4 DEF LoopPing
  <2>2. wsmsg' \in Flags
    BY <1>0, <2>1 DEF Flags
  <2>3. Unblocked'
    BY <2>1 DEF Unblocked
  <2> QED
    BY <2>1, <2>2, <2>3, TurnStep
<1>5. CASE LoopDone
  <2>1. /\ UNCHANGED <<sent, arrived, taken, frame_buffer, valid, message_buffer,
                       parts, dropped, delivered>>
        /\ wsmsg' = wsmsg /\ pinged' = pinged /\ pc = "loop" /\ pc' = "idle"
        /\ ~Waiting
    BY <1>5 DEF LoopDone
  <2>2. ~dropped => ~Ready
    BY <2>1 DEF Inv, Unblocked
  <2>3. ~Waiting' /\ (~dropped' => ~Ready')
    BY <2>1, <2>2 DEF Waiting, Ready
  <2>4. Unblocked'
    BY <2>1, <2>3 DEF Unblocked
  <2> QED
    BY <1>0, <2>1, <2>4, TurnStep
<1> QED
  BY <1>1, <1>2, <1>3, <1>4, <1>5

\* A message is handed out and message_buffer is empty.
LEMMA MessageStep ==
  ASSUME Inv, LoopMessage
  PROVE  Inv'
<1>1. /\ sent' = sent /\ arrived' = arrived /\ taken' = taken
      /\ frame_buffer' = frame_buffer /\ valid' = valid
      /\ message_buffer' = 0 /\ parts' = <<>>
      /\ pinged' = pinged /\ dropped' = dropped /\ pc' = "process"
      /\ wsmsg' = [wsmsg EXCEPT !.message = FALSE]
      /\ delivered' = Append(delivered, [parts |-> parts, length |-> message_buffer])
  BY DEF LoopMessage, buffer_move
<1>2. /\ sent \in Seq(Frame) /\ wsmsg \in Flags /\ delivered \in Seq(Message)
      /\ parts \in Seq(1 .. Len(sent)) /\ message_buffer \in Nat
  BY LimitTypes DEF Inv, Typed, TypeOK
<1>3. Bytes(sent') = Bytes(sent) /\ Upto(sent', taken') = Upto(sent, taken)
  BY <1>1
<1>4. TypeOK'
  BY <1>1, <1>3, LimitTypes DEF Inv, Typed, TypeOK, Room
<1>5. PICK msg \in Message : msg = [parts |-> parts, length |-> message_buffer]
  BY <1>2 DEF Message
<1>6. delivered' = Append(delivered, msg)
  BY <1>1, <1>5
<1>7. /\ delivered' \in Seq(Message) /\ Len(delivered') = Len(delivered) + 1
      /\ Len(delivered) \in Nat
      /\ \A m \in 1 .. Len(delivered) : delivered'[m] = delivered[m]
      /\ delivered'[Len(delivered) + 1] = msg
  BY <1>2, <1>6
<1>8. Typed'
  <2>1. wsmsg' \in Flags
    BY <1>1, <1>2 DEF Flags
  <2>2. parts' \in Seq(1 .. Len(sent'))
    BY <1>1
  <2>3. delivered' \in Seq(Message')
    BY <1>1, <1>7 DEF Message
  <2> QED
    BY <1>1, <1>4, <2>1, <2>2, <2>3 DEF Inv, Typed
<1>9. Buffered'
  BY <1>1, <1>3 DEF Inv, Buffered
<1>10. Unblocked'
  BY <1>1 DEF Unblocked
<1>11. Whole'
  <2>1. Holds(sent', parts', message_buffer')
    BY <1>1, <1>2, HoldsNone
  <2>2. ASSUME NEW m \in 1 .. Len(delivered')
        PROVE  Holds(sent', delivered'[m].parts, delivered'[m].length)
    <3>1. CASE m \in 1 .. Len(delivered)
      BY <1>1, <1>7, <3>1 DEF Inv, Whole
    <3>2. CASE m = Len(delivered) + 1
      <4>1. msg.parts = parts /\ msg.length = message_buffer
        BY <1>5
      <4>2. Holds(sent, msg.parts, msg.length)
        BY <4>1 DEF Inv, Whole
      <4> QED
        BY <1>1, <1>7, <3>2, <4>2
    <3> QED
      BY <1>7, <3>1, <3>2
  <2> QED
    BY <2>1, <2>2 DEF Whole
<1> QED
  BY <1>8, <1>9, <1>10, <1>11 DEF Inv

\* What a frame that is taken leaves in frame_buffer.
LEMMA TakeShape ==
  ASSUME Inv, Take
  PROVE  /\ sent' = sent /\ arrived' = arrived /\ pinged' = pinged
         /\ dropped' = dropped /\ delivered' = delivered /\ pc = "process"
         /\ taken' = taken + 1 /\ taken' \in 1 .. Len(sent)
         /\ sent[taken + 1] \in Frame
         /\ frame_buffer' \in 0 .. Room /\ valid' \in 0 .. frame_buffer'
         /\ Buffered'
<1> DEFINE t == Total(sent[taken + 1])
<1>1. /\ sent' = sent /\ arrived' = arrived /\ pinged' = pinged
      /\ dropped' = dropped /\ delivered' = delivered /\ pc = "process"
      /\ taken' = taken + 1
      /\ frame_buffer' = frame_buffer - t /\ valid' = valid - t
      /\ Ready /\ ~Gap
  BY DEF Take
<1>2. /\ sent \in Seq(Frame) /\ taken \in 0 .. Len(sent) /\ arrived \in 0 .. Bytes(sent)
      /\ frame_buffer \in 0 .. Room /\ valid \in 0 .. frame_buffer /\ Room \in Nat
  BY LimitTypes DEF Inv, Typed, TypeOK
<1>3. taken < Len(sent) /\ frame_buffer >= t
  BY <1>1 DEF Ready
<1>4. taken \in Nat /\ taken + 1 \in 1 .. Len(sent) /\ sent[taken + 1] \in Frame
  BY <1>2, <1>3
<1>5. t \in Nat
  BY <1>4, FrameShape
<1>6. ~(frame_buffer > valid) \/ ~(valid < t)
  BY <1>1, <1>3 DEF Gap
<1> HIDE DEF t
<1>7. valid >= t
  BY <1>2, <1>3, <1>5, <1>6
<1>8. frame_buffer' \in 0 .. Room /\ valid' \in 0 .. frame_buffer'
  BY <1>1, <1>2, <1>3, <1>5, <1>7
<1>9. Upto(sent, taken + 1) = Upto(sent, taken) + t
  BY <1>2, <1>3, <1>4, UptoStep DEF t
<1>10. Upto(sent, taken) \in Nat /\ arrived \in Nat
  <2>1. Len(sent) \in 0 .. Len(sent) /\ Bytes(sent) = Upto(sent, Len(sent))
    BY <1>2, UptoEnds
  <2>2. Bytes(sent) \in Nat /\ Upto(sent, taken) \in Nat
    BY <1>2, <2>1, UptoEnds
  <2> QED
    BY <1>2, <2>2
<1>11. Buffered'
  <2>1. Upto(sent', taken') = Upto(sent, taken) + t
    BY <1>1, <1>9
  <2>2. ASSUME ~dropped
        PROVE  valid' = frame_buffer' /\ frame_buffer' = arrived' - Upto(sent', taken')
    <3>1. valid = frame_buffer /\ frame_buffer = arrived - Upto(sent, taken)
      BY <2>2 DEF Inv, Buffered
    <3> QED
      BY <1>1, <1>5, <1>10, <2>1, <3>1
  <2> QED
    BY <1>1, <2>2 DEF Buffered
<1> QED
  BY <1>1, <1>4, <1>8, <1>11

\* A frame is taken, as long as the message stays what its frames come to.
LEMMA TakeStep ==
  ASSUME Inv, Take, wsmsg' \in Flags, pc' \in {"idle", "process", "loop"},
         parts' \in Seq(1 .. Len(sent)), message_buffer' \in 0 .. MaxMessage,
         Holds(sent, parts', message_buffer'),
         Unblocked'
  PROVE  Inv'
<1>1. /\ sent' = sent /\ arrived' = arrived /\ pinged' = pinged
      /\ dropped' = dropped /\ delivered' = delivered
      /\ taken' \in 1 .. Len(sent)
      /\ frame_buffer' \in 0 .. Room /\ valid' \in 0 .. frame_buffer'
      /\ Buffered'
  BY TakeShape
<1>2. Bytes(sent') = Bytes(sent)
  BY <1>1
<1>3. TypeOK'
  <2>1. Len(sent') = Len(sent) /\ taken' \in 0 .. Len(sent)
    BY <1>1
  <2> QED
    BY <1>1, <1>2, <2>1 DEF Inv, Typed, TypeOK, Room
<1>4. Typed'
  BY <1>1, <1>3 DEF Inv, Typed, Message
<1>5. Whole'
  BY <1>1 DEF Inv, Whole
<1> QED
  BY <1>1, <1>4, <1>5 DEF Inv

\* A Ping leaves the message alone.
LEMMA PingStep ==
  ASSUME Inv, ProcessPing
  PROVE  Inv'
<1>1. /\ Take /\ wsmsg' = [wsmsg EXCEPT !.frame = TRUE]
      /\ pc' = (IF pinged THEN "idle" ELSE "loop")
      /\ message_buffer' = message_buffer /\ parts' = parts
  BY DEF ProcessPing
<1>2. /\ wsmsg \in Flags /\ parts \in Seq(1 .. Len(sent))
      /\ message_buffer \in 0 .. MaxMessage
      /\ Holds(sent, parts, message_buffer)
  BY DEF Inv, Typed, TypeOK, Whole
<1>3. wsmsg' \in Flags /\ wsmsg'.frame
  BY <1>1, <1>2 DEF Flags
<1>4. pinged' = pinged
  BY <1>1, TakeShape
<1>5. Waiting' /\ (pc' = "idle" => pinged')
  BY <1>1, <1>3, <1>4 DEF Waiting
<1>6. Unblocked'
  BY <1>5 DEF Unblocked
<1> QED
  BY <1>1, <1>2, <1>3, <1>6, TakeStep

\* A data frame is out of place, finds message_buffer full, or is appended.
LEMMA DataStep ==
  ASSUME Inv, ProcessData
  PROVE  Inv'
<1> DEFINE f == sent[taken + 1]
           data == buffer_set_data(f.size, MaxFrame)
<1>1. /\ Take
      /\ \/ /\ wsmsg' = [wsmsg EXCEPT !.error = TRUE]
            /\ pc' = (IF pinged THEN "idle" ELSE "loop")
            /\ message_buffer' = message_buffer /\ parts' = parts
         \/ /\ Appends(message_buffer, data, MaxMessage)
            /\ message_buffer' = buffer_append(message_buffer, data, MaxMessage)
            /\ parts' = Append(parts, taken + 1)
            /\ wsmsg' = [wsmsg EXCEPT !.message = f.fin]
            /\ pc' = pc
  BY DEF ProcessData
<1>2. /\ sent \in Seq(Frame) /\ wsmsg \in Flags /\ parts \in Seq(1 .. Len(sent))
      /\ message_buffer \in 0 .. MaxMessage
      /\ Holds(sent, parts, message_buffer)
  BY DEF Inv, Typed, TypeOK, Whole
<1>3. /\ pinged' = pinged /\ pc = "process" /\ taken + 1 \in 1 .. Len(sent)
      /\ f \in Frame
  BY <1>1, TakeShape
<1>4. CASE /\ wsmsg' = [wsmsg EXCEPT !.error = TRUE]
           /\ pc' = (IF pinged THEN "idle" ELSE "loop")
           /\ message_buffer' = message_buffer /\ parts' = parts
  <2>1. wsmsg' \in Flags /\ wsmsg'.error
    BY <1>2, <1>4 DEF Flags
  <2>2. Waiting' /\ (pc' = "idle" => pinged')
    BY <1>3, <1>4, <2>1 DEF Waiting
  <2>3. Unblocked'
    BY <2>2 DEF Unblocked
  <2> QED
    BY <1>1, <1>2, <1>4, <2>1, <2>3, TakeStep
<1>5. CASE /\ Appends(message_buffer, data, MaxMessage)
           /\ message_buffer' = buffer_append(message_buffer, data, MaxMessage)
           /\ parts' = Append(parts, taken + 1)
           /\ wsmsg' = [wsmsg EXCEPT !.message = f.fin]
           /\ pc' = pc
  <2>1. wsmsg' \in Flags
    BY <1>2, <1>3, <1>5, FrameShape DEF Flags
  <2>2. Unblocked'
    BY <1>3, <1>5 DEF Unblocked
  <2>3. parts' \in Seq(1 .. Len(sent))
    BY <1>2, <1>3, <1>5
  <2>4. f.size \in Nat
    BY <1>3, FrameShape
  <2>5. data \in Nat
    <3>1. 0 + f.size \in Nat
      BY <2>4
    <3>2. Min({0 + f.size, MaxFrame}) \in Nat
      BY <3>1, LimitTypes, MinOfTwo
    <3> QED
      BY <3>2 DEF buffer_set_data, buffer_append
  <2>6. message_buffer \in Nat
    BY <1>2, LimitTypes
  <2>7. message_buffer' \in 0 .. MaxMessage
    <3> HIDE DEF data
    <3>1. message_buffer + data \in Nat
      BY <2>5, <2>6
    <3>2. message_buffer' = IF message_buffer + data <= MaxMessage
                            THEN message_buffer + data ELSE MaxMessage
      BY <1>5, <3>1, LimitTypes, MinOfTwo DEF buffer_append
    <3> QED
      BY <3>1, <3>2, LimitTypes
  <2>8. Holds(sent, parts', message_buffer')
    BY <1>2, <1>3, <1>5, <2>6, HoldsStep
  <2> QED
    BY <1>1, <1>3, <1>5, <2>1, <2>2, <2>3, <2>7, <2>8, TakeStep
<1> QED
  BY <1>1, <1>4, <1>5

\* The invariant holds at the start and is kept by every step.
LEMMA Invariance == Spec => []Inv
<1>1. Inv /\ [Next]_vars => Inv'
  <2> SUFFICES ASSUME Inv, [Next]_vars PROVE Inv'
    OBVIOUS
  <2>1. CASE UNCHANGED vars
    <3>1. /\ UNCHANGED <<sent, arrived, taken, frame_buffer, valid, message_buffer,
                         parts, dropped, delivered>>
          /\ wsmsg' = wsmsg /\ pinged' = pinged /\ pc' = pc
      BY <2>1 DEF vars
    <3>2. /\ wsmsg \in Flags /\ pinged \in BOOLEAN
          /\ pc \in {"idle", "process", "loop", "closed", "garbled"}
      BY DEF Inv, Typed, TypeOK
    <3>3. Unblocked'
      BY <3>1 DEF Inv, Unblocked, Waiting, Ready
    <3> QED
      BY <3>1, <3>2, <3>3, TurnStep
  <2> QED
    BY <2>1, ReadStep, TurnSteps, PingStep, DataStep, MessageStep DEF Next
<1> QED
  BY <1>1, InvInit, PTL DEF Spec

-----------------------------------------------------------------------------
(***************************************************************************)
(* Theorems                                                                *)
(***************************************************************************)

\* No buffer outgrows its limit, and get_frame never takes more bytes from
\* frame_buffer than it holds in front of a gap, for any limits and any stream.
THEOREM TypeCorrect == Spec => []TypeOK
<1>1. Inv => TypeOK
  BY DEF Inv, Typed
<1> QED
  BY <1>1, Invariance, PTL

\* A message is handed out whole exactly within both limits.
THEOREM WholeExactly == Spec => []WholeWithinLimits
<1>1. Inv => WholeWithinLimits
  <2> SUFFICES ASSUME Inv, NEW m \in 1 .. Len(delivered)
               PROVE  LET p == delivered[m].parts
                      IN  delivered[m].length = Payload(p) <=>
                             /\ \A i \in 1 .. Len(p) : sent[p[i]].size <= MaxFrame
                             /\ Payload(p) <= MaxMessage
    BY DEF WholeWithinLimits
  <2> DEFINE p == delivered[m].parts
             n == delivered[m].length
  <2>1. sent \in Seq(Frame) /\ p \in Seq(1 .. Len(sent)) /\ n \in Nat
        /\ Holds(sent, p, n)
    <3>1. sent \in Seq(Frame) /\ delivered \in Seq(Message)
      BY DEF Inv, Typed
    <3>2. delivered[m] \in Message
      BY <3>1
    <3>3. p \in Seq(1 .. Len(sent)) /\ n \in Nat
      BY <3>2 DEF Message
    <3>4. Holds(sent, p, n)
      BY DEF Inv, Whole
    <3> QED
      BY <3>1, <3>3, <3>4
  <2> HIDE DEF p, n
  <2>2. Len(p) \in 0 .. Len(p)
    BY <2>1
  <2>3. PICK K \in Nat : K = KeptOf(sent, p, Len(p))
    <3>1. KeptOf(sent, p, Len(p)) \in Nat
      BY <2>1, <2>2, KeptType
    <3> QED
      BY <3>1
  <2>4. PICK S \in Nat : S = SizeOf(sent, p)
    BY <2>1, KeptType
  <2>5. n = (IF K <= MaxMessage THEN K ELSE MaxMessage) /\ K <= S
    BY <2>1, <2>3, <2>4, LimitTypes, MinOfTwo DEF Holds
  <2>6. K = S <=> \A i \in 1 .. Len(p) : sent[p[i]].size <= MaxFrame
    BY <2>1, <2>3, <2>4 DEF Holds
  <2>7. Payload(p) = S
    BY <2>4 DEF Payload, SizeOf
  <2>8. n = S <=> K = S /\ S <= MaxMessage
    BY <2>5, LimitTypes
  <2>9. n = Payload(p) <=> /\ \A i \in 1 .. Len(p) : sent[p[i]].size <= MaxFrame
                           /\ Payload(p) <= MaxMessage
    BY <2>6, <2>7, <2>8
  <2> QED
    BY <2>9 DEF p, n
<1> QED
  BY <1>1, Invariance, PTL

\* A message lacks bytes only of its last frame that has any, or of frames
\* above max_frame_size: none is appended to a full message_buffer.
THEOREM CutLast == Spec => []CutOnlyAtTheEnd
<1>1. Inv => CutOnlyAtTheEnd
  <2> SUFFICES ASSUME Inv, NEW m \in 1 .. Len(delivered),
                      NEW j \in 1 .. Len(delivered[m].parts),
                      sent[delivered[m].parts[j]].size > 0
               PROVE  Kept(delivered[m].parts, j - 1) < MaxMessage
    BY DEF CutOnlyAtTheEnd
  <2>1. Holds(sent, delivered[m].parts, delivered[m].length)
    BY DEF Inv, Whole
  <2>2. KeptOf(sent, delivered[m].parts, j - 1) < MaxMessage
    BY <2>1 DEF Holds
  <2> QED
    BY <2>2 DEF Kept, KeptOf
<1> QED
  BY <1>1, Invariance, PTL

\* A connection is stuck with a full frame_buffer only on a frame larger than it,
\* unless bytes were dropped or the loop has stopped at a Ping.
THEOREM StuckOnLarge == Spec => []StuckOnlyOnLargeFrame
<1>1. Inv => StuckOnlyOnLargeFrame
  <2> SUFFICES ASSUME Inv, pc = "idle", ~dropped, ~pinged
               PROVE  /\ ~Waiting
                      /\ frame_buffer = arrived - Bytes(SubSeq(sent, 1, taken))
                      /\ taken < Len(sent) => frame_buffer < Total(sent[taken + 1])
                      /\ frame_buffer = Room => Total(sent[taken + 1]) > Room
    BY DEF StuckOnlyOnLargeFrame
  <2>1. ~Waiting /\ ~Ready
    BY DEF Inv, Unblocked
  <2>2. frame_buffer = arrived - Upto(sent, taken)
    BY DEF Inv, Buffered
  <2>3. /\ sent \in Seq(Frame) /\ taken \in 0 .. Len(sent)
        /\ arrived \in 0 .. Bytes(sent) /\ frame_buffer \in Nat
    BY LimitTypes DEF Inv, Typed, TypeOK
  <2>4. ASSUME taken < Len(sent) PROVE frame_buffer < Total(sent[taken + 1])
    <3>1. sent[taken + 1] \in Frame
      BY <2>3, <2>4
    <3>2. Total(sent[taken + 1]) \in Nat
      BY <3>1, FrameShape
    <3>3. ~(frame_buffer >= Total(sent[taken + 1]))
      BY <2>1, <2>4 DEF Ready
    <3> QED
      BY <2>3, <3>2, <3>3
  <2>5. ASSUME frame_buffer = Room PROVE taken < Len(sent)
    <3> SUFFICES ASSUME taken = Len(sent) PROVE FALSE
      BY <2>3
    <3>1. Upto(sent, taken) = Bytes(sent) /\ Bytes(sent) \in Nat
      <4>1. Len(sent) \in 0 .. Len(sent)
        BY <2>3
      <4> QED
        BY <2>3, <4>1, UptoEnds
    <3>2. frame_buffer <= 0
      BY <2>2, <2>3, <3>1
    <3> QED
      BY <2>5, <3>2, LimitTypes
  <2> QED
    BY <2>1, <2>2, <2>4, <2>5 DEF Upto
<1> QED
  BY <1>1, Invariance, PTL

=============================================================================
