--------------------------- MODULE McpTablesProofs ---------------------------
(***************************************************************************)
(* Safety of the two tables that 1C and the clients of the MCP server      *)
(* share: the resources and templates of McpResources, for any alphabet,   *)
(* batches, URIs and values; and the tasks of McpTasks, for any set of     *)
(* tasks and any number of starts and stops.                               *)
(*                                                                         *)
(* The proofs about templates go over the loops of compile and capture.    *)
(* Each loop is a recursive function in the model; Recursion says that it  *)
(* exists and is what its equation says, UpTo is the induction over its    *)
(* rounds, and its invariant says how the segments or the arguments so far *)
(* cut the text that was read into pieces.                                 *)
(***************************************************************************)
EXTENDS McpResources, McpTasks, SequenceTheorems, FiniteSetTheorems, WellFoundedInduction, TLAPS

-----------------------------------------------------------------------------
(* Induction, and what it says of the recursive functions.                  *)

\* A set of numbers has a least one: 0..n shrinks with n, and sets of numbers are finite.
LEMMA LeastNumber ==
    ASSUME NEW T, T \subseteq Nat, T # {}
    PROVE  \E m \in T : \A n \in T : m <= n
<1> DEFINE U == {0..n : n \in T}
           R == StrictSubsetOrdering(Nat)
<1>1. U \subseteq FiniteSubsetsOf(Nat)
  <2>1. ASSUME NEW n \in T
        PROVE  0..n \in FiniteSubsetsOf(Nat)
    <3>1. n \in Int /\ 0..n \in SUBSET Nat
      OBVIOUS
    <3>2. QED
      BY <3>1, FS_Interval DEF FiniteSubsetsOf
  <2>2. QED
    BY <2>1
<1>2. U # {}
  OBVIOUS
<1>3. PICK x \in U : \A y \in U : ~ (<<y, x>> \in R)
  BY <1>1, <1>2, FS_StrictSubsetOrderingWellFounded, WFMin, Zenon
<1>4. PICK m \in T : x = 0..m
  OBVIOUS
<1>5. ASSUME NEW n \in T
      PROVE  m <= n
  <2>1. m \in Nat /\ n \in Nat
    OBVIOUS
  <2>2. ~ (<<0..n, 0..m>> \in R)
    BY <1>3, <1>4
  <2>3. ASSUME n < m
        PROVE  FALSE
    <3>1. /\ 0..n \subseteq 0..m /\ m \in 0..m /\ m \notin 0..n
          /\ 0..n \in SUBSET Nat /\ 0..m \in SUBSET Nat
      BY <2>1, <2>3
    <3>2. QED
      BY <2>2, <3>1 DEF StrictSubsetOrdering
  <2>4. QED
    BY <2>1, <2>3
<1>6. QED
  BY <1>5

\* Induction up to N, with a set for the induction hypothesis.
LEMMA UpTo ==
    ASSUME NEW N \in Nat, NEW S, 0 \in S, \A n \in 1..N : n - 1 \in S => n \in S
    PROVE  \A n \in 0..N : n \in S
<1> DEFINE T == {n \in 0..N : n \notin S}
<1> SUFFICES ASSUME T # {} PROVE FALSE
  OBVIOUS
<1>1. T \subseteq Nat
  OBVIOUS
<1>2. PICK m \in T : \A n \in T : m <= n
  BY <1>1, LeastNumber
<1>3. m \in 0..N /\ m \notin S /\ m # 0
  BY <1>2
<1>4. m \in 1..N /\ m - 1 \in 0..N /\ ~(m <= m - 1)
  BY <1>3
<1>5. m - 1 \notin T
  BY <1>2, <1>4
<1>6. QED
  BY <1>3, <1>4, <1>5

\* f[0], .., f[N] are computed each from the one before, and nothing else is.
Solves(f, N, X, first, G) ==
    /\ f \in [0..N -> X]
    /\ f[0] = first
    /\ \A n \in 1..N : f[n] = G[<<n, f[n - 1]>>]
    /\ \A g : (g[0] = first /\ \A n \in 1..N : g[n - 1] \in X => g[n] = G[<<n, g[n - 1]>>])
                 => g[N] = f[N]

\* There is such a function, so a recursive definition that asks for it means it.
LEMMA Recursion ==
    ASSUME NEW N \in Nat, NEW X, NEW first \in X, NEW G \in [(1..N) \X X -> X]
    PROVE  \E f : Solves(f, N, X, first, G)
<1> DEFINE Is(f, m) == /\ f \in [0..m -> X]
                       /\ f[0] = first
                       /\ \A n \in 1..m : f[n] = G[<<n, f[n - 1]>>]
           S == {m \in 0..N : \E f : Is(f, m)}
<1>1. 0 \in S
  <2>1. Is([n \in 0..0 |-> first], 0)
    OBVIOUS
  <2> HIDE DEF Is
  <2>2. 0 \in 0..N /\ \E f : Is(f, 0)
    BY <2>1
  <2>3. QED
    BY <2>2, Zenon DEF S
<1>2. ASSUME NEW m \in 1..N, m - 1 \in S
      PROVE  m \in S
  <2>1. PICK g : Is(g, m - 1)
    BY <1>2
  <2>2. m - 1 \in 0..(m - 1)
    OBVIOUS
  <2> DEFINE value == G[<<m, g[m - 1]>>]
             f == [n \in 0..m |-> IF n = m THEN value ELSE g[n]]
  <2>3. value \in X
    BY <2>1, <2>2
  <2>4. f \in [0..m -> X] /\ f[m] = value /\ \A n \in 0..(m - 1) : f[n] = g[n]
    <3> HIDE DEF value
    <3>1. QED
      BY <2>1, <2>3
  <2>5. ASSUME NEW n \in 1..m
        PROVE  f[n] = G[<<n, f[n - 1]>>]
    <3> HIDE DEF f
    <3>1. CASE n = m
      BY <2>2, <2>4, <3>1
    <3>2. CASE n \in 1..(m - 1)
      <4>1. n \in 0..(m - 1) /\ n - 1 \in 0..(m - 1)
        BY <3>2
      <4>2. QED
        BY <2>1, <2>4, <3>2, <4>1
    <3>3. QED
      BY <3>1, <3>2
  <2>6. f[0] = first
    <3> HIDE DEF f
    <3>1. QED
      BY <2>1, <2>4
  <2>7. Is(f, m)
    <3> HIDE DEF f
    <3>1. QED
      BY <2>4, <2>5, <2>6
  <2> HIDE DEF f, Is
  <2>8. m \in 0..N /\ \E h : Is(h, m)
    BY <2>7
  <2>9. QED
    BY <2>8, Zenon DEF S
<1>3. N \in S
  <2> HIDE DEF S
  <2>1. N \in 0..N
    OBVIOUS
  <2>2. QED
    BY <1>1, <1>2, <2>1, UpTo
<1>4. PICK f : Is(f, N)
  BY <1>3
<1>5. ASSUME NEW g, g[0] = first,
             \A n \in 1..N : g[n - 1] \in X => g[n] = G[<<n, g[n - 1]>>]
      PROVE  g[N] = f[N]
  <2> DEFINE E == {n \in 0..N : g[n] = f[n]}
  <2>1. 0 \in E
    BY <1>4, <1>5
  <2>2. ASSUME NEW n \in 1..N, n - 1 \in E
        PROVE  n \in E
    <3>1. n \in 0..N /\ n - 1 \in 0..N /\ f[n - 1] \in X /\ g[n - 1] = f[n - 1]
      BY <1>4, <2>2
    <3>2. g[n] = G[<<n, g[n - 1]>>] /\ f[n] = G[<<n, f[n - 1]>>]
      BY <1>4, <1>5, <3>1
    <3>3. QED
      BY <3>1, <3>2
  <2>3. N \in 0..N
    OBVIOUS
  <2> HIDE DEF E
  <2>4. N \in E
    BY <2>1, <2>2, <2>3, UpTo
  <2>5. QED
    BY <2>4 DEF E
<1> HIDE DEF Is
<1>6. \A g : (g[0] = first /\ \A n \in 1..N : g[n - 1] \in X => g[n] = G[<<n, g[n - 1]>>])
            => g[N] = f[N]
  BY <1>5
<1>7. Solves(f, N, X, first, G)
  BY <1>4, <1>6, Zenon DEF Is, Solves
<1>8. QED
  BY <1>7

-----------------------------------------------------------------------------
(* Types.                                                                  *)

\* Texts, segments, arguments, and the state of the loop of capture.
Texts == Seq(Chars)
Segments == [kind : {"literal", "variable"}, text : Texts]
Bindings == UNION {[D -> Texts] : D \in SUBSET Texts}
Readings(uri) == [at : 0..Len(uri), args : Bindings]

\* A variable is bound to its value, and the others stay.
LEMMA BindTyped ==
    ASSUME NEW args \in Bindings, NEW name \in Texts, NEW value \in Texts,
           NEW bound \in Bind(args, name, value)
    PROVE  /\ bound \in Bindings
           /\ DOMAIN bound = DOMAIN args \cup {name}
           /\ bound[name] = value
           /\ \A v \in DOMAIN args : bound[v] = args[v]
<1>1. PICK D \in SUBSET Texts : args \in [D -> Texts]
  BY DEF Bindings
<1>2. bound = Put(args, name, value) /\ (name \in D => args[name] = value)
  BY <1>1 DEF Bind
<1>3. bound \in [D \cup {name} -> Texts]
  BY <1>1, <1>2 DEF Put
<1>4. D \cup {name} \in SUBSET Texts
  OBVIOUS
<1>5. bound \in Bindings
  BY <1>3, <1>4, Zenon DEF Bindings
<1>6. QED
  BY <1>1, <1>2, <1>3, <1>5 DEF Put

\* A text is its length and its characters.
LEMMA TextFacts ==
    ASSUME NEW s \in Texts
    PROVE  Len(s) \in Nat /\ DOMAIN s = 1..Len(s) /\ \A n \in 1..Len(s) : s[n] \in Chars
BY LenProperties, ElementOfSeq DEF Texts

\* What find returns is a position from which the literal fits into the text.
LEMMA FindTyped ==
    ASSUME NEW lit \in Texts, NEW s \in Texts, NEW at \in Nat, NEW k \in Find(lit, s, at)
    PROVE  k \in at..Len(s) /\ k + Len(lit) \in k..Len(s) /\ SubSeq(s, k + 1, k + Len(lit)) = lit
BY TextFacts DEF Find, Occurrences

\* A part of a text is a text; positions are counted from 0.
LEMMA PartTyped ==
    ASSUME NEW s \in Texts, NEW a \in 0..Len(s), NEW b \in a..Len(s)
    PROVE  /\ SubSeq(s, a + 1, b) \in Texts
           /\ Len(SubSeq(s, a + 1, b)) = b - a
           /\ \A i \in 1..(b - a) : SubSeq(s, a + 1, b)[i] = s[a + i]
<1>1. PICK l \in Nat : l = Len(s)
  BY TextFacts
<1>2. a \in Int /\ b \in Int /\ a + 1 \in Int /\ \A i \in (a + 1)..b : s[i] \in Chars
  BY <1>1, TextFacts
<1>3. /\ SubSeq(s, a + 1, b) \in Seq(Chars)
      /\ Len(SubSeq(s, a + 1, b)) = IF a + 1 <= b THEN b - (a + 1) + 1 ELSE 0
      /\ \A i \in 1..(b - (a + 1) + 1) : SubSeq(s, a + 1, b)[i] = s[(a + 1) + i - 1]
  BY <1>2, SubSeqProperties
<1>4. QED
  BY <1>1, <1>2, <1>3 DEF Texts

\* The segments of a matcher, one by one.
LEMMA SegmentFacts ==
    ASSUME NEW segs \in Seq(Segments)
    PROVE  /\ Len(segs) \in Nat /\ DOMAIN segs = 1..Len(segs)
           /\ \A n \in 1..Len(segs) :
                 /\ segs[n] \in Segments
                 /\ segs[n].kind \in {"literal", "variable"}
                 /\ segs[n].text \in Texts
<1>1. Len(segs) \in Nat /\ DOMAIN segs = 1..Len(segs)
  BY LenProperties
<1>2. ASSUME NEW n \in 1..Len(segs)
      PROVE  segs[n] \in Segments
  BY ElementOfSeq
<1>3. QED
  BY <1>1, <1>2 DEF Segments

\* A segment takes a part of the URI: a literal what it says, a variable its value.
LEMMA TakeShape ==
    ASSUME NEW segs \in Seq(Segments), NEW uri \in Texts, NEW n \in 1..Len(segs),
           NEW s \in Readings(uri), NEW r \in Take(segs, uri, n, s)
    PROVE  /\ r \in Readings(uri)
           /\ r.at >= s.at
           /\ segs[n].kind = "literal" =>
                 r.args = s.args /\ SubSeq(uri, s.at + 1, r.at) = segs[n].text
           /\ segs[n].kind = "variable" =>
                 r.args \in Bind(s.args, segs[n].text, SubSeq(uri, s.at + 1, r.at))
<1>1. segs[n] \in Segments /\ segs[n].text \in Texts
  BY SegmentFacts
<1>2. s.at \in 0..Len(uri) /\ s.args \in Bindings /\ Len(uri) \in Nat
  BY TextFacts DEF Readings
<1>3. CASE segs[n].kind = "literal"
  <2>1. /\ r = [at |-> s.at + Len(segs[n].text), args |-> s.args]
        /\ s.at \in Occurrences(segs[n].text, uri, s.at)
    BY <1>3 DEF Take
  <2>2. Len(segs[n].text) \in Nat
    BY <1>1, TextFacts
  <2>3. /\ s.at + Len(segs[n].text) \in s.at..Len(uri)
        /\ SubSeq(uri, s.at + 1, s.at + Len(segs[n].text)) = segs[n].text
    <3>1. PICK a \in Nat, k \in Nat, l \in Nat : a = s.at /\ k = Len(segs[n].text) /\ l = Len(uri)
      BY <1>2, <2>2
    <3>2. a \in a..(l - k) /\ SubSeq(uri, a + 1, a + k) = segs[n].text
      BY <2>1, <3>1 DEF Occurrences
    <3>3. a + k \in a..l
      BY <3>2
    <3>4. QED
      BY <3>1, <3>2, <3>3
  <2>4. s.at + Len(segs[n].text) \in 0..Len(uri) /\ s.at + Len(segs[n].text) >= s.at
    BY <1>2, <2>2, <2>3
  <2>5. QED
    BY <1>2, <1>3, <2>1, <2>3, <2>4 DEF Readings
<1>4. CASE segs[n].kind = "variable"
  <2> DEFINE ends == IF n = Len(segs) THEN {Len(uri)}
                     ELSE IF segs[n + 1].kind = "variable" THEN {}
                     ELSE Find(segs[n + 1].text, uri, s.at)
  <2>1. PICK end \in ends : \E bound \in Bind(s.args, segs[n].text, SubSeq(uri, s.at + 1, end)) :
           r = [at |-> end, args |-> bound]
    BY <1>4 DEF Take
  <2>2. PICK bound \in Bind(s.args, segs[n].text, SubSeq(uri, s.at + 1, end)) :
           r = [at |-> end, args |-> bound]
    BY <2>1
  <2>3. end \in s.at..Len(uri)
    <3>1. CASE n = Len(segs)
      BY <1>2, <3>1
    <3>2. CASE n # Len(segs)
      <4>1. Len(segs) \in Nat
        BY LenProperties
      <4>2. n + 1 \in 1..Len(segs)
        BY <3>2, <4>1
      <4>3. segs[n + 1].text \in Texts
        BY <4>2, SegmentFacts
      <4>4. end \in Find(segs[n + 1].text, uri, s.at)
        BY <3>2
      <4>5. s.at \in Nat
        BY <1>2
      <4>6. QED
        BY <4>3, <4>4, <4>5, FindTyped
    <3>3. QED
      BY <3>1, <3>2
  <2>4. SubSeq(uri, s.at + 1, end) \in Texts /\ end \in 0..Len(uri) /\ end >= s.at
    BY <1>2, <2>3, PartTyped
  <2>5. bound \in Bindings
    BY <1>1, <1>2, <2>4, BindTyped
  <2>6. QED
    BY <1>4, <2>2, <2>4, <2>5 DEF Readings
<1>5. QED
  BY <1>1, <1>3, <1>4 DEF Segments

\* The states of capture after each segment.
Captures(f, segs, uri) ==
    /\ f \in [0..Len(segs) -> SUBSET Readings(uri)]
    /\ f[0] = {[at |-> 0, args |-> <<>>]}
    /\ \A n \in 1..Len(segs) : f[n] = UNION {Take(segs, uri, n, s) : s \in f[n - 1]}
    /\ Capture(segs, uri) = {s.args : s \in {e \in f[Len(segs)] : e.at = Len(uri)}}

\* There is such a function.
LEMMA CaptureLoop ==
    ASSUME NEW segs \in Seq(Segments), NEW uri \in Texts
    PROVE  \E f : Captures(f, segs, uri)
<1> DEFINE N == Len(segs)
           X == SUBSET Readings(uri)
           first == {[at |-> 0, args |-> <<>>]}
           G == [p \in (1..N) \X X |-> UNION {Take(segs, uri, p[1], s) : s \in p[2]}]
           Is(f) == f = [n \in 0..N |-> IF n = 0 THEN {[at |-> 0, args |-> <<>>]}
                                        ELSE UNION {Take(segs, uri, n, s) : s \in f[n - 1]}]
           after == CHOOSE f : Is(f)
<1>1. N \in Nat
  BY LenProperties
<1>2. first \in X
  <2>1. <<>> \in [{} -> Texts] /\ {} \in SUBSET Texts
    OBVIOUS
  <2>2. <<>> \in Bindings
    BY <2>1 DEF Bindings
  <2>3. QED
    BY <2>2, TextFacts DEF Readings
<1>3. G \in [(1..N) \X X -> X]
  <2>1. ASSUME NEW p \in (1..N) \X X, NEW r \in UNION {Take(segs, uri, p[1], s) : s \in p[2]}
        PROVE  r \in Readings(uri)
    BY TakeShape
  <2>2. QED
    BY <2>1
<1>4. PICK f : Solves(f, N, X, first, G)
  <2> HIDE DEF N, X, first, G
  <2>1. QED
    BY <1>1, <1>2, <1>3, Recursion
<1>5. ASSUME NEW n \in 1..N, NEW x \in X
      PROVE  G[<<n, x>>] = UNION {Take(segs, uri, n, s) : s \in x}
  OBVIOUS
<1> HIDE DEF G
<1>6. ASSUME NEW n \in 1..N
      PROVE  f[n] = UNION {Take(segs, uri, n, s) : s \in f[n - 1]}
  <2>1. n - 1 \in 0..N /\ f[n - 1] \in X
    BY <1>1, <1>4 DEF Solves
  <2>2. QED
    BY <1>4, <1>5, <2>1, Zenon DEF Solves
<1>7. \E g : Is(g)
  <2> DEFINE h == [n \in 0..N |-> IF n = 0 THEN {[at |-> 0, args |-> <<>>]}
                                  ELSE UNION {Take(segs, uri, n, s) : s \in f[n - 1]}]
  <2>1. \A n \in 0..N : f[n] = h[n]
    BY <1>1, <1>4, <1>6 DEF Solves
  <2>2. f = [n \in 0..N |-> f[n]] /\ h = [n \in 0..N |-> h[n]]
    BY <1>4 DEF Solves
  <2>3. f = h
    <3> HIDE DEF h
    <3>1. QED
      BY <2>1, <2>2
  <2>4. Is(f)
    BY <2>3
  <2> HIDE DEF Is
  <2>5. QED
    BY <2>4
<1>8. Is(after)
  <2> HIDE DEF Is
  <2>1. QED
    BY <1>7, Zenon
<1>9. Capture(segs, uri) = {s.args : s \in {e \in after[N] : e.at = Len(uri)}}
  BY DEF Capture
<1> HIDE DEF after
<1>10. after[0] = first
  BY <1>1, <1>8
<1>11. ASSUME NEW n \in 1..N
       PROVE  after[n] = UNION {Take(segs, uri, n, s) : s \in after[n - 1]}
  <2>1. n \in 0..N /\ n # 0
    BY <1>1
  <2>2. QED
    BY <1>8, <2>1
<1>12. after[N] = f[N]
  <2>1. \A n \in 1..N : after[n - 1] \in X => after[n] = G[<<n, after[n - 1]>>]
    BY <1>5, <1>11
  <2>2. QED
    BY <1>4, <1>10, <2>1 DEF Solves
<1>13. QED
  BY <1>4, <1>6, <1>9, <1>12 DEF Solves, Captures

-----------------------------------------------------------------------------
(* A text in pieces.                                                       *)

\* FlattenSeq adds one piece after another.
LEMMA FlattenLoop ==
    ASSUME NEW pieces \in Seq(Texts)
    PROVE  \E f \in [0..Len(pieces) -> Texts] :
              /\ f[0] = <<>>
              /\ \A n \in 1..Len(pieces) : f[n] = f[n - 1] \o pieces[n]
              /\ FlattenSeq(pieces) = f[Len(pieces)]
<1> DEFINE N == Len(pieces)
           G == [p \in (1..N) \X Texts |-> p[2] \o pieces[p[1]]]
           Is(f) == f = [i \in 1..N |-> IF i = 1 THEN pieces[i] ELSE f[i - 1] \o pieces[i]]
           flatten == CHOOSE f : Is(f)
<1>1. N \in Nat /\ \A n \in 1..N : pieces[n] \in Texts
  BY LenProperties, ElementOfSeq
<1>2. <<>> \in Texts
  BY DEF Texts
<1>3. G \in [(1..N) \X Texts -> Texts]
  <2>1. ASSUME NEW p \in (1..N) \X Texts
        PROVE  p[2] \o pieces[p[1]] \in Texts
    BY <1>1, ConcatProperties DEF Texts
  <2>2. QED
    BY <2>1
<1>4. PICK f : Solves(f, N, Texts, <<>>, G)
  <2> HIDE DEF N, G
  <2>1. QED
    BY <1>1, <1>2, <1>3, Recursion
<1>5. ASSUME NEW n \in 1..N, NEW x \in Texts
      PROVE  G[<<n, x>>] = x \o pieces[n]
  OBVIOUS
<1> HIDE DEF G
<1>6. ASSUME NEW n \in 1..N
      PROVE  f[n] = f[n - 1] \o pieces[n]
  <2>1. n - 1 \in 0..N /\ f[n - 1] \in Texts
    BY <1>1, <1>4 DEF Solves
  <2>2. QED
    BY <1>4, <1>5, <2>1, Zenon DEF Solves
<1>7. CASE N = 0
  <2>1. pieces = <<>>
    BY <1>7, EmptySeq
  <2>2. FlattenSeq(pieces) = f[N]
    BY <1>4, <1>7, <2>1 DEF FlattenSeq, Solves
  <2>3. QED
    BY <1>4, <1>6, <2>2 DEF Solves
<1>8. CASE N # 0
  <2>1. f[1] = pieces[1]
    <3>1. 1 \in 1..N
      BY <1>1, <1>8
    <3>2. f[1] = <<>> \o pieces[1]
      BY <1>4, <1>6, <3>1 DEF Solves
    <3>3. QED
      BY <1>1, <3>1, <3>2, ConcatEmptySeq DEF Texts
  <2>2. \E g : Is(g)
    <3> DEFINE g == [i \in 1..N |-> f[i]]
               h == [i \in 1..N |-> IF i = 1 THEN pieces[i] ELSE g[i - 1] \o pieces[i]]
    <3>1. ASSUME NEW i \in 1..N
          PROVE  g[i] = h[i]
      <4>1. CASE i = 1
        BY <2>1, <4>1
      <4>2. CASE i # 1
        <5>1. i - 1 \in 1..N
          BY <1>1, <4>2
        <5>2. QED
          BY <1>6, <4>2, <5>1
      <4>3. QED
        BY <4>1, <4>2
    <3>2. g = [i \in 1..N |-> g[i]] /\ h = [i \in 1..N |-> h[i]]
      OBVIOUS
    <3>3. g = h
      <4> HIDE DEF g, h
      <4>1. QED
        BY <3>1, <3>2
    <3>4. Is(g)
      BY <3>3
    <3> HIDE DEF Is
    <3>5. QED
      BY <3>4
  <2>3. Is(flatten)
    <3> HIDE DEF Is
    <3>1. QED
      BY <2>2, Zenon
  <2>4. FlattenSeq(pieces) = flatten[N]
    BY <1>8 DEF FlattenSeq
  <2> HIDE DEF flatten
  <2> DEFINE S == {n \in 0..N : n # 0 => flatten[n] = f[n]}
  <2>5. 0 \in S
    BY <1>1
  <2>6. ASSUME NEW n \in 1..N, n - 1 \in S
        PROVE  n \in S
    <3>1. CASE n = 1
      BY <2>1, <2>3, <3>1
    <3>2. CASE n # 1
      <4>1. n - 1 # 0 /\ n \in 0..N
        BY <3>2
      <4>2. flatten[n] = flatten[n - 1] \o pieces[n]
        BY <2>3, <3>2
      <4>3. QED
        BY <1>6, <2>6, <4>1, <4>2
    <3>3. QED
      BY <3>1, <3>2
  <2>7. N \in S
    <3> HIDE DEF S
    <3>1. N \in 0..N
      BY <1>1
    <3>2. QED
      BY <1>1, <2>5, <2>6, <3>1, UpTo
  <2>8. FlattenSeq(pieces) = f[N]
    BY <1>8, <2>4, <2>7
  <2>9. QED
    BY <1>4, <1>6, <2>8 DEF Solves
<1>9. QED
  BY <1>7, <1>8

\* p[n] is where the first n pieces of s end.
Cuts(p, m, pieces, s) ==
    /\ p \in [0..m -> 0..Len(s)]
    /\ p[0] = 0
    /\ \A n \in 1..m : p[n - 1] <= p[n] /\ SubSeq(s, p[n - 1] + 1, p[n]) = pieces[n]

\* A text is its pieces, one after another.
LEMMA CutsFlatten ==
    ASSUME NEW pieces \in Seq(Texts), NEW s \in Texts, NEW p,
           Cuts(p, Len(pieces), pieces, s), p[Len(pieces)] = Len(s)
    PROVE  FlattenSeq(pieces) = s
<1> DEFINE N == Len(pieces)
<1>1. PICK f \in [0..N -> Texts] :
         /\ f[0] = <<>>
         /\ \A n \in 1..N : f[n] = f[n - 1] \o pieces[n]
         /\ FlattenSeq(pieces) = f[N]
  BY FlattenLoop
<1>2. N \in Nat /\ Len(s) \in Nat
  BY LenProperties, TextFacts
<1> DEFINE S == {n \in 0..N : f[n] = SubSeq(s, 1, p[n])}
<1>3. 0 \in S
  <2>1. SubSeq(s, 1, 0) = <<>>
    BY SubSeqEmpty
  <2>2. p[0] = 0
    BY DEF Cuts
  <2>3. 0 \in 0..N /\ f[0] = SubSeq(s, 1, p[0])
    BY <1>1, <1>2, <2>1, <2>2
  <2>4. QED
    BY <2>3
<1>4. ASSUME NEW n \in 1..N, n - 1 \in S
      PROVE  n \in S
  <2>1. PICK a \in 0..Len(s), b \in 0..Len(s) : a = p[n - 1] /\ b = p[n] /\ a <= b
    <3>1. n - 1 \in 0..N /\ n \in 0..N
      BY <1>2
    <3>2. p[n - 1] \in 0..Len(s) /\ p[n] \in 0..Len(s) /\ p[n - 1] <= p[n]
      BY <3>1 DEF Cuts
    <3>3. QED
      BY <3>2
  <2>2. f[n] = SubSeq(s, 1, a) \o SubSeq(s, a + 1, b)
    BY <1>1, <1>4, <2>1 DEF Cuts
  <2>3. SubSeq(s, 1, a) \o SubSeq(s, a + 1, b) = SubSeq(s, 1, b)
    <3>1. 1 \in 1..(Len(s) + 1) /\ a \in (1 - 1)..Len(s) /\ b \in a..Len(s)
      BY <1>2
    <3>2. QED
      BY <3>1, ConcatAdjacentSubSeq DEF Texts
  <2>4. n \in 0..N
    BY <1>2
  <2>5. f[n] = SubSeq(s, 1, p[n])
    BY <2>1, <2>2, <2>3, Zenon
  <2>6. QED
    BY <2>4, <2>5
<1>5. N \in S
  <2> HIDE DEF S
  <2>1. N \in 0..N
    BY <1>2
  <2>2. QED
    BY <1>2, <1>3, <1>4, <2>1, UpTo
<1>6. QED
  BY <1>1, <1>5, SubSeqFull DEF Texts

\* FlattenSeq's text is cut where its pieces end.
LEMMA FlattenCuts ==
    ASSUME NEW pieces \in Seq(Texts)
    PROVE  /\ FlattenSeq(pieces) \in Texts
           /\ \E p : /\ Cuts(p, Len(pieces), pieces, FlattenSeq(pieces))
                     /\ p[Len(pieces)] = Len(FlattenSeq(pieces))
<1> DEFINE N == Len(pieces)
<1>1. PICK f \in [0..N -> Texts] :
         /\ f[0] = <<>>
         /\ \A n \in 1..N : f[n] = f[n - 1] \o pieces[n]
         /\ FlattenSeq(pieces) = f[N]
  BY FlattenLoop
<1>2. N \in Nat /\ \A n \in 1..N : pieces[n] \in Texts /\ Len(pieces[n]) \in Nat
  BY LenProperties, ElementOfSeq, TextFacts
<1> DEFINE p == [n \in 0..N |-> Len(f[n])]
           \* What was added last does not change what was there.
           Grows(m) == \A n \in 0..m : p[n] <= p[m] /\ \A i \in 1..p[n] : f[m][i] = f[n][i]
           S == {m \in 0..N : Grows(m)}
<1>3. \A n \in 0..N : p[n] \in Nat /\ p[n] = Len(f[n]) /\ f[n] \in Texts
  BY <1>1, TextFacts
<1>4. ASSUME NEW n \in 1..N
      PROVE  /\ p[n] = p[n - 1] + Len(pieces[n])
             /\ \A i \in 1..p[n - 1] : f[n][i] = f[n - 1][i]
             /\ \A i \in 1..Len(pieces[n]) : f[n][p[n - 1] + i] = pieces[n][i]
  <2>1. n - 1 \in 0..N /\ n \in 0..N
    BY <1>2
  <2>2. PICK a \in Nat, l \in Nat : a = p[n - 1] /\ l = Len(pieces[n])
    BY <1>2, <1>3, <2>1
  <2>3. /\ Len(f[n - 1] \o pieces[n]) = a + l
        /\ \A i \in 1..(a + l) :
              (f[n - 1] \o pieces[n])[i] = IF i <= a THEN f[n - 1][i] ELSE pieces[n][i - a]
    <3>1. /\ f[n - 1] \in Seq(Chars) /\ Len(f[n - 1]) = a
          /\ pieces[n] \in Seq(Chars) /\ Len(pieces[n]) = l
      BY <1>2, <1>3, <2>1, <2>2 DEF Texts
    <3>2. QED
      BY <3>1, ConcatProperties
  <2>4. f[n] = f[n - 1] \o pieces[n]
    BY <1>1
  <2> HIDE DEF p
  <2>5. p[n] = a + l
    <3>1. Len(f[n]) = a + l
      BY <2>3, <2>4, Zenon
    <3>2. QED
      BY <1>3, <2>1, <3>1, Zenon
  <2>6. ASSUME NEW i \in 1..a
        PROVE  f[n][i] = f[n - 1][i]
    <3>1. i \in 1..(a + l) /\ i <= a
      OBVIOUS
    <3>2. QED
      BY <2>3, <2>4, <3>1
  <2>7. ASSUME NEW i \in 1..l
        PROVE  f[n][a + i] = pieces[n][i]
    <3>1. a + i \in 1..(a + l) /\ ~(a + i <= a) /\ (a + i) - a = i
      OBVIOUS
    <3>2. QED
      BY <2>3, <2>4, <3>1
  <2>8. QED
    BY <2>2, <2>5, <2>6, <2>7
<1> HIDE DEF p
<1>5. 0 \in S
  BY <1>2, <1>3
<1>6. ASSUME NEW m \in 1..N, m - 1 \in S
      PROVE  m \in S
  <2>1. m - 1 \in 0..N /\ m \in 0..N
    BY <1>2
  <2>2. ASSUME NEW n \in 0..m
        PROVE  p[n] <= p[m] /\ \A i \in 1..p[n] : f[m][i] = f[n][i]
    <3>1. CASE n = m
      BY <1>3, <2>1, <3>1
    <3>2. CASE n \in 0..(m - 1)
      <4>1. PICK a \in Nat, b \in Nat, l \in Nat : a = p[n] /\ b = p[m - 1] /\ l = Len(pieces[m])
        BY <1>2, <1>3, <2>1, <3>2, SMTT(40)
      <4>2. a <= b /\ \A i \in 1..a : f[m - 1][i] = f[n][i]
        BY <1>6, <3>2, <4>1
      <4>3. p[m] = b + l /\ \A i \in 1..b : f[m][i] = f[m - 1][i]
        BY <1>4, <4>1
      <4>4. a <= b + l /\ \A i \in 1..a : i \in 1..b
        BY <4>2
      <4>5. \A i \in 1..a : f[m][i] = f[n][i]
        BY <4>2, <4>3, <4>4
      <4>6. QED
        BY <4>1, <4>3, <4>4, <4>5
    <3>3. QED
      BY <3>1, <3>2
  <2>3. QED
    BY <2>1, <2>2
<1>7. N \in S
  <2> HIDE DEF S
  <2>1. N \in 0..N
    BY <1>2
  <2>2. QED
    BY <1>2, <1>5, <1>6, <2>1, UpTo
<1>8. f[N] \in Texts /\ p[N] = Len(f[N]) /\ p[0] = 0
  BY <1>1, <1>2, <1>3
<1>9. p \in [0..N -> 0..Len(f[N])]
  <2>1. \A n \in 0..N : p[n] \in 0..Len(f[N])
    BY <1>2, <1>3, <1>7, <1>8
  <2>2. QED
    BY <2>1 DEF p
<1>10. ASSUME NEW n \in 1..N
       PROVE  p[n - 1] <= p[n] /\ SubSeq(f[N], p[n - 1] + 1, p[n]) = pieces[n]
  <2>1. n - 1 \in 0..N /\ n \in 0..N
    BY <1>2
  <2>2. PICK a \in Nat, l \in Nat : a = p[n - 1] /\ l = Len(pieces[n])
    BY <1>2, <1>3, <2>1
  <2>3. p[n] = a + l /\ a + l \in 0..Len(f[N])
    BY <1>4, <1>9, <2>1, <2>2
  <2>4. a \in 0..Len(f[N]) /\ a + l \in a..Len(f[N])
    BY <1>8, <1>9, <2>1, <2>2, <2>3
  <2>5. /\ SubSeq(f[N], a + 1, a + l) \in Texts
        /\ Len(SubSeq(f[N], a + 1, a + l)) = l
        /\ \A i \in 1..l : SubSeq(f[N], a + 1, a + l)[i] = f[N][a + i]
    <3>1. a + l - a = l
      OBVIOUS
    <3>2. QED
      BY <1>8, <2>4, <3>1, PartTyped, SMTT(40)
  <2>6. ASSUME NEW i \in 1..l
        PROVE  f[N][a + i] = pieces[n][i]
    <3>1. f[n][a + i] = pieces[n][i]
      BY <1>4, <2>2
    <3>2. a + i \in 1..p[n]
      BY <2>3
    <3>3. f[N][a + i] = f[n][a + i]
      BY <1>7, <2>1, <3>2
    <3>4. QED
      BY <3>1, <3>3
  <2>7. SubSeq(f[N], a + 1, a + l) = pieces[n]
    <3> DEFINE part == SubSeq(f[N], a + 1, a + l)
    <3>1. part \in Seq(Chars) /\ pieces[n] \in Seq(Chars)
      BY <1>2, <2>5 DEF Texts
    <3>2. Len(part) = l /\ Len(part) = Len(pieces[n])
      BY <2>2, <2>5
    <3>3. \A i \in 1..Len(part) : part[i] = pieces[n][i]
      BY <2>5, <2>6, <3>2
    <3> HIDE DEF part
    <3>4. part = pieces[n]
      BY <3>1, <3>2, <3>3, SeqEqual
    <3>5. QED
      BY <3>4 DEF part
  <2>8. a <= a + l
    OBVIOUS
  <2>9. QED
    BY <2>2, <2>3, <2>7, <2>8
<1>11. Cuts(p, N, pieces, f[N])
  BY <1>8, <1>9, <1>10 DEF Cuts
<1>12. QED
  BY <1>1, <1>8, <1>11

-----------------------------------------------------------------------------
(* What capture returns.                                                   *)

\* The text of each segment, and the variables of the first n.
Filled(segs, args) ==
    [n \in DOMAIN segs |-> IF segs[n].kind = "literal" THEN segs[n].text ELSE args[segs[n].text]]
Names(segs, n) == {segs[m].text : m \in {i \in 1..n : segs[i].kind = "variable"}}

\* With a value for each variable, every segment has a text.
LEMMA FilledTyped ==
    ASSUME NEW segs \in Seq(Segments), NEW args \in Bindings, DOMAIN args = Variables(segs)
    PROVE  Filled(segs, args) \in Seq(Texts) /\ Len(Filled(segs, args)) = Len(segs)
<1>1. /\ Len(segs) \in Nat /\ DOMAIN segs = 1..Len(segs)
      /\ \A n \in 1..Len(segs) : segs[n].kind \in {"literal", "variable"} /\ segs[n].text \in Texts
  BY SegmentFacts
<1>2. PICK D : args \in [D -> Texts]
  BY DEF Bindings
<1>3. ASSUME NEW n \in 1..Len(segs)
      PROVE  Filled(segs, args)[n] \in Texts
  <2>1. CASE segs[n].kind = "literal"
    BY <1>1, <2>1 DEF Filled
  <2>2. CASE segs[n].kind = "variable"
    <3>1. segs[n].text \in Variables(segs)
      BY <1>1, <2>2 DEF Variables
    <3>2. args[segs[n].text] \in Texts
      BY <1>2, <3>1
    <3>3. QED
      BY <1>1, <2>2, <3>2 DEF Filled
  <2>3. QED
    BY <1>1, <2>1, <2>2
<1>4. Filled(segs, args) \in [1..Len(segs) -> Texts]
  BY <1>1, <1>3 DEF Filled
<1>5. QED
  BY <1>1, <1>4

\* All segments name all variables.
LEMMA VariablesNamed ==
    ASSUME NEW segs \in Seq(Segments)
    PROVE  Variables(segs) = Names(segs, Len(segs))
BY SegmentFacts DEF Variables, Names

\* After n segments the URI is cut into them as far as it is read.
ReadSoFar(segs, uri, n, s) ==
    /\ s \in Readings(uri)
    /\ DOMAIN s.args = Names(segs, n)
    /\ \E p : Cuts(p, n, Filled(segs, s.args), uri) /\ p[n] = s.at

\* The invariant of the loop of capture: each segment cuts off one more piece.
LEMMA ReadNext ==
    ASSUME NEW segs \in Seq(Segments), NEW uri \in Texts, NEW n \in 1..Len(segs),
           NEW s, ReadSoFar(segs, uri, n - 1, s), NEW r \in Take(segs, uri, n, s)
    PROVE  ReadSoFar(segs, uri, n, r)
<1>1. /\ Len(segs) \in Nat /\ DOMAIN segs = 1..Len(segs) /\ segs[n].kind \in {"literal", "variable"}
      /\ \A i \in 1..Len(segs) : segs[i].text \in Texts
  BY SegmentFacts
<1>2. s \in Readings(uri) /\ DOMAIN s.args = Names(segs, n - 1)
  BY DEF ReadSoFar
<1>3. PICK p : Cuts(p, n - 1, Filled(segs, s.args), uri) /\ p[n - 1] = s.at
  BY DEF ReadSoFar
<1>4. /\ r \in Readings(uri)
      /\ r.at >= s.at
      /\ segs[n].kind = "literal" => r.args = s.args /\ SubSeq(uri, s.at + 1, r.at) = segs[n].text
      /\ segs[n].kind = "variable" =>
            r.args \in Bind(s.args, segs[n].text, SubSeq(uri, s.at + 1, r.at))
  BY <1>2, TakeShape
<1>5. /\ DOMAIN r.args = Names(segs, n)
      /\ \A v \in DOMAIN s.args : r.args[v] = s.args[v]
      /\ SubSeq(uri, s.at + 1, r.at) = Filled(segs, r.args)[n]
  <2>1. CASE segs[n].kind = "literal"
    <3>1. \A i \in 1..n : i \in 1..(n - 1) \/ i = n
      BY <1>1
    <3>2. Names(segs, n) = Names(segs, n - 1)
      BY <2>1, <3>1 DEF Names
    <3>3. QED
      BY <1>1, <1>2, <1>4, <2>1, <3>2 DEF Filled
  <2>2. CASE segs[n].kind = "variable"
    <3>1. Names(segs, n) = Names(segs, n - 1) \cup {segs[n].text}
      <4>1. \A i \in 1..n : i \in 1..(n - 1) \/ i = n
        BY <1>1
      <4>2. \A i \in 1..(n - 1) : i \in 1..n
        BY <1>1
      <4>3. n \in 1..n
        BY <1>1
      <4>4. QED
        BY <2>2, <4>1, <4>2, <4>3 DEF Names
    <3>2. s.args \in Bindings /\ s.at \in 0..Len(uri) /\ r.at \in s.at..Len(uri)
      BY <1>2, <1>4, TextFacts DEF Readings
    <3>3. SubSeq(uri, s.at + 1, r.at) \in Texts
      BY <3>2, PartTyped
    <3>4. /\ DOMAIN r.args = DOMAIN s.args \cup {segs[n].text}
          /\ r.args[segs[n].text] = SubSeq(uri, s.at + 1, r.at)
          /\ \A v \in DOMAIN s.args : r.args[v] = s.args[v]
      <4>1. /\ segs[n].text \in Texts
            /\ r.args \in Bind(s.args, segs[n].text, SubSeq(uri, s.at + 1, r.at))
        BY <1>1, <1>4, <2>2
      <4>2. PICK value \in Texts : value = SubSeq(uri, s.at + 1, r.at)
        BY <3>3
      <4>3. PICK old, new : old = s.args /\ new = r.args
        OBVIOUS
      <4>4. new \in Bind(old, segs[n].text, value)
        BY <4>1, <4>2, <4>3
      <4>5. /\ DOMAIN new = DOMAIN old \cup {segs[n].text}
            /\ new[segs[n].text] = value
            /\ \A v \in DOMAIN old : new[v] = old[v]
        <5>1. old \in Bindings /\ segs[n].text \in Texts
          BY <3>2, <4>1, <4>3
        <5>2. new = Put(old, segs[n].text, value)
              /\ (segs[n].text \in DOMAIN old => old[segs[n].text] = value)
          BY <4>4 DEF Bind
        <5>3. QED
          BY <5>2 DEF Put
      <4>6. QED
        BY <4>2, <4>3, <4>5
    <3>5. QED
      BY <1>1, <1>2, <2>2, <3>1, <3>4 DEF Filled
  <2>3. QED
    BY <1>1, <2>1, <2>2
<1> DEFINE q == [i \in 0..n |-> IF i = n THEN r.at ELSE p[i]]
<1>6. /\ q \in [0..n -> 0..Len(uri)] /\ q[0] = 0 /\ q[n] = r.at
      /\ \A i \in 0..(n - 1) : q[i] = p[i]
  BY <1>1, <1>3, <1>4 DEF Cuts, Readings
<1> HIDE DEF q
<1>7. ASSUME NEW i \in 1..n
      PROVE  q[i - 1] <= q[i] /\ SubSeq(uri, q[i - 1] + 1, q[i]) = Filled(segs, r.args)[i]
  <2>1. CASE i = n
    <3>1. q[i - 1] = s.at /\ q[i] = r.at
      BY <1>1, <1>3, <1>6, <2>1
    <3>2. s.at <= r.at
      BY <1>2, <1>4, TextFacts DEF Readings
    <3>3. QED
      BY <1>5, <2>1, <3>1, <3>2
  <2>2. CASE i \in 1..(n - 1)
    <3>1. i - 1 \in 0..(n - 1) /\ i \in 0..(n - 1) /\ i \in 1..Len(segs)
      BY <1>1, <2>2
    <3>2. Filled(segs, r.args)[i] = Filled(segs, s.args)[i]
      <4>1. segs[i].kind # "literal" => segs[i].text \in DOMAIN s.args
        <5>1. segs[i].kind # "literal" => segs[i].kind = "variable"
          BY <3>1, SegmentFacts
        <5>2. QED
          BY <1>2, <2>2, <5>1 DEF Names
      <4>2. QED
        BY <1>1, <1>5, <3>1, <4>1 DEF Filled
    <3>3. p[i - 1] <= p[i] /\ SubSeq(uri, p[i - 1] + 1, p[i]) = Filled(segs, s.args)[i]
      BY <1>3, <2>2 DEF Cuts
    <3>4. QED
      BY <1>6, <3>1, <3>2, <3>3
  <2>3. QED
    BY <1>1, <2>1, <2>2
<1>8. Cuts(q, n, Filled(segs, r.args), uri)
  BY <1>6, <1>7 DEF Cuts
<1>9. QED
  BY <1>4, <1>5, <1>6, <1>8 DEF ReadSoFar

\* The arguments name all variables of the template, and rebuild the URI.
THEOREM CaptureRebuilds ==
    ASSUME NEW segs \in Seq(Segments), NEW uri \in Texts, NEW args \in Capture(segs, uri)
    PROVE  DOMAIN args = Variables(segs) /\ Substitute(segs, args) = uri
<1> DEFINE N == Len(segs)
<1>1. N \in Nat
  BY LenProperties
<1>2. PICK f : Captures(f, segs, uri)
  BY CaptureLoop
<1> DEFINE S == {n \in 0..N : \A s \in f[n] : ReadSoFar(segs, uri, n, s)}
<1>3. 0 \in S
  <2>1. ASSUME NEW s \in f[0]
        PROVE  ReadSoFar(segs, uri, 0, s)
    <3>1. s = [at |-> 0, args |-> <<>>] /\ s \in Readings(uri)
      BY <1>1, <1>2 DEF Captures
    <3>2. DOMAIN s.args = {} /\ Names(segs, 0) = {}
      BY <3>1 DEF Names
    <3> DEFINE p == [i \in 0..0 |-> 0]
    <3>3. Cuts(p, 0, Filled(segs, s.args), uri)
      BY TextFacts DEF Cuts
    <3>4. p[0] = s.at
      BY <3>1
    <3> HIDE DEF p
    <3>5. QED
      BY <3>1, <3>2, <3>3, <3>4, Zenon DEF ReadSoFar
  <2>2. QED
    BY <1>1, <2>1
<1>4. ASSUME NEW n \in 1..N, n - 1 \in S
      PROVE  n \in S
  <2>1. ASSUME NEW r \in f[n]
        PROVE  ReadSoFar(segs, uri, n, r)
    <3>1. PICK s \in f[n - 1] : r \in Take(segs, uri, n, s)
      BY <1>2 DEF Captures
    <3>2. QED
      BY <1>4, <3>1, ReadNext
  <2>2. QED
    BY <1>1, <2>1
<1>5. N \in S
  <2> HIDE DEF S
  <2>1. N \in 0..N
    BY <1>1
  <2>2. QED
    BY <1>1, <1>3, <1>4, <2>1, UpTo
<1>6. PICK s \in f[N] : s.at = Len(uri) /\ args = s.args
  BY <1>2 DEF Captures
<1>7. ReadSoFar(segs, uri, N, s)
  BY <1>5, <1>6
<1>8. args \in Bindings /\ DOMAIN args = Variables(segs)
  BY <1>6, <1>7, VariablesNamed DEF ReadSoFar, Readings
<1>9. PICK p : Cuts(p, N, Filled(segs, args), uri) /\ p[N] = Len(uri)
  BY <1>6, <1>7 DEF ReadSoFar
<1>10. FlattenSeq(Filled(segs, args)) = uri
  BY <1>8, <1>9, FilledTyped, CutsFlatten
<1>11. QED
  BY <1>8, <1>10 DEF Substitute, Filled

-----------------------------------------------------------------------------
(* What compile reads.                                                     *)

\* A character in a text, and the first of its kind.
LEMMA CharAt ==
    ASSUME NEW c \in Chars, NEW s \in Texts, NEW at \in 0..Len(s)
    PROVE  Occurrences(<<c>>, s, at) = {k \in at..(Len(s) - 1) : s[k + 1] = c}
<1>1. PICK l \in Nat : l = Len(s)
  BY TextFacts
<1>2. Len(<<c>>) = 1 /\ <<c>> \in Texts /\ <<c>>[1] = c
  BY DEF Texts
<1>3. ASSUME NEW k \in at..(l - 1)
      PROVE  SubSeq(s, k + 1, k + 1) = <<c>> <=> s[k + 1] = c
  <2>1. k \in 0..Len(s) /\ k + 1 \in k..Len(s) /\ (k + 1) - k = 1 /\ 1 \in 1..((k + 1) - k)
    BY <1>1
  <2>2. /\ SubSeq(s, k + 1, k + 1) \in Texts
        /\ Len(SubSeq(s, k + 1, k + 1)) = 1
        /\ SubSeq(s, k + 1, k + 1)[1] = s[k + 1]
    BY <2>1, PartTyped
  <2>3. ASSUME s[k + 1] = c
        PROVE  SubSeq(s, k + 1, k + 1) = <<c>>
    <3> DEFINE part == SubSeq(s, k + 1, k + 1)
    <3>1. part \in Seq(Chars) /\ <<c>> \in Seq(Chars) /\ Len(part) = 1
      BY <1>2, <2>2 DEF Texts
    <3>2. \A i \in 1..1 : part[i] = <<c>>[i]
      BY <1>2, <2>2, <2>3
    <3> HIDE DEF part
    <3>3. part = <<c>>
      BY <1>2, <3>1, <3>2, SeqEqual
    <3>4. QED
      BY <3>3 DEF part
  <2>4. QED
    BY <1>2, <2>2, <2>3
<1>4. QED
  BY <1>1, <1>2, <1>3 DEF Occurrences

LEMMA FindChar ==
    ASSUME NEW c \in Chars, NEW s \in Texts, NEW at \in 0..Len(s)
    PROVE  /\ \A k : k \in Find(<<c>>, s, at) <=>
                 k \in at..(Len(s) - 1) /\ s[k + 1] = c /\ \A i \in (at + 1)..k : s[i] # c
           /\ Find(<<c>>, s, at) = {} <=> \A i \in (at + 1)..Len(s) : s[i] # c
<1>1. PICK l \in Nat : l = Len(s)
  BY TextFacts
<1> DEFINE O == {k \in at..(l - 1) : s[k + 1] = c}
<1>2. Find(<<c>>, s, at) = {k \in O : \A n \in O : k <= n}
  BY <1>1, CharAt, SMTT(40) DEF Find
<1>3. ASSUME NEW k
      PROVE  k \in Find(<<c>>, s, at) <=>
                k \in at..(l - 1) /\ s[k + 1] = c /\ \A i \in (at + 1)..k : s[i] # c
  <2>1. ASSUME k \in O, \A n \in O : k <= n, NEW i \in (at + 1)..k, s[i] = c
        PROVE  FALSE
    <3>1. i - 1 \in at..(l - 1) /\ (i - 1) + 1 = i /\ ~(k <= i - 1)
      BY <1>1, <2>1
    <3>2. i - 1 \in O
      BY <2>1, <3>1
    <3>3. QED
      BY <2>1, <3>1, <3>2
  <2>2. ASSUME k \in O, \A i \in (at + 1)..k : s[i] # c, NEW n \in O
        PROVE  k <= n
    <3>1. n \in at..(l - 1) /\ s[n + 1] = c /\ k \in at..(l - 1)
      BY <2>2
    <3>2. ~(n + 1 \in (at + 1)..k)
      BY <2>2, <3>1
    <3>3. QED
      BY <1>1, <3>1, <3>2
  <2>3. QED
    BY <1>2, <2>1, <2>2
<1>4. ASSUME NEW i \in (at + 1)..l, s[i] = c
      PROVE  Find(<<c>>, s, at) # {}
  <2>1. i - 1 \in at..(l - 1) /\ (i - 1) + 1 = i
    BY <1>1
  <2>2. i - 1 \in O
    BY <1>4, <2>1
  <2>3. O \subseteq Nat
    BY <1>1
  <2>4. \E k \in O : \A n \in O : k <= n
    <3> HIDE DEF O
    <3>1. QED
      BY <2>2, <2>3, LeastNumber, Zenon
  <2>5. QED
    BY <1>2, <2>4
<1>5. ASSUME NEW k \in Find(<<c>>, s, at)
      PROVE  \E i \in (at + 1)..l : s[i] = c
  <2>1. k \in at..(l - 1) /\ s[k + 1] = c
    BY <1>3
  <2>2. k + 1 \in (at + 1)..l
    BY <1>1, <2>1
  <2>3. QED
    BY <2>1, <2>2
<1>6. QED
  BY <1>1, <1>3, <1>4, <1>5

\* What a segment looks like in a template.
Shown(g) == IF g.kind = "literal" THEN g.text ELSE <<LBrace>> \o g.text \o <<RBrace>>
Written(segs) == [n \in DOMAIN segs |-> Shown(segs[n])]

\* A variable has a literal behind it that is not empty, if anything.
Alternates(segs) ==
    \A n \in 1..(Len(segs) - 1) :
        segs[n].kind = "variable" => segs[n + 1].kind = "literal" /\ segs[n + 1].text # <<>>

\* The first `at` characters of the text are what the segments look like.
WrittenTo(text, segs, at) ==
    /\ segs \in Seq(Segments)
    /\ Alternates(segs)
    /\ \E p : Cuts(p, Len(segs), Written(segs), text) /\ p[Len(segs)] = at

\* One more segment that looks like the text behind what was read.
LEMMA WriteMore ==
    ASSUME NEW text \in Texts, NEW a \in 0..Len(text), NEW b \in a..Len(text),
           NEW segs, WrittenTo(text, segs, a),
           NEW g \in Segments, SubSeq(text, a + 1, b) = Shown(g),
           segs # <<>> /\ Last(segs).kind = "variable" => g.kind = "literal" /\ g.text # <<>>
    PROVE  WrittenTo(text, Append(segs, g), b)
<1> DEFINE more == Append(segs, g)
<1>1. PICK l \in Nat : l = Len(text)
  BY TextFacts
<1>2. PICK n \in Nat : n = Len(segs) /\ DOMAIN segs = 1..n
  BY SegmentFacts DEF WrittenTo
<1>3. segs \in Seq(Segments)
  BY DEF WrittenTo
<1>4. /\ more \in Seq(Segments) /\ Len(more) = n + 1 /\ DOMAIN more = 1..(n + 1)
      /\ \A i \in 1..n : more[i] = segs[i]
      /\ more[n + 1] = g
  <2>1. /\ more \in Seq(Segments) /\ Len(more) = Len(segs) + 1
        /\ \A i \in 1..Len(segs) : more[i] = segs[i]
        /\ more[Len(segs) + 1] = g
    BY <1>3, AppendProperties
  <2> HIDE DEF more
  <2>2. QED
    BY <1>2, <2>1, LenProperties
<1> HIDE DEF more
<1>5. PICK p : Cuts(p, n, Written(segs), text) /\ p[n] = a
  BY <1>2 DEF WrittenTo
<1> DEFINE q == [i \in 0..(n + 1) |-> IF i = n + 1 THEN b ELSE p[i]]
<1>6. /\ q \in [0..(n + 1) -> 0..l] /\ q[0] = 0 /\ q[n + 1] = b
      /\ \A i \in 0..n : q[i] = p[i]
  BY <1>1, <1>5 DEF Cuts
<1> HIDE DEF q
<1>7. ASSUME NEW i \in 1..(n + 1)
      PROVE  q[i - 1] <= q[i] /\ SubSeq(text, q[i - 1] + 1, q[i]) = Written(more)[i]
  <2>1. CASE i = n + 1
    <3>1. q[i - 1] = a /\ q[i] = b
      BY <1>5, <1>6, <2>1
    <3>2. Written(more)[i] = Shown(g)
      BY <1>4, <2>1 DEF Written
    <3>3. QED
      BY <1>1, <3>1, <3>2
  <2>2. CASE i \in 1..n
    <3>1. q[i - 1] = p[i - 1] /\ q[i] = p[i]
      <4>1. i - 1 \in 0..n /\ i \in 0..n
        BY <2>2
      <4>2. QED
        BY <1>6, <4>1
    <3>2. Written(more)[i] = Written(segs)[i]
      BY <1>2, <1>4, <2>2 DEF Written
    <3>3. p[i - 1] <= p[i] /\ SubSeq(text, p[i - 1] + 1, p[i]) = Written(segs)[i]
      BY <1>5, <2>2 DEF Cuts
    <3>4. QED
      BY <3>1, <3>2, <3>3
  <2>3. QED
    BY <2>1, <2>2
<1>8. Cuts(q, n + 1, Written(more), text)
  BY <1>1, <1>6, <1>7 DEF Cuts
<1>9. Alternates(more)
  <2> SUFFICES ASSUME NEW i \in 1..n, more[i].kind = "variable"
               PROVE  more[i + 1].kind = "literal" /\ more[i + 1].text # <<>>
    BY <1>4 DEF Alternates
  <2>1. CASE i = n
    <3>1. segs # <<>> /\ Last(segs) = more[i]
      BY <1>2, <1>4, <2>1 DEF Last
    <3>2. QED
      BY <1>4, <2>1, <3>1
  <2>2. CASE i # n
    <3>1. i \in 1..(n - 1) /\ i + 1 \in 1..n
      BY <2>2
    <3>2. QED
      BY <1>2, <1>4, <3>1 DEF WrittenTo, Alternates
  <2>3. QED
    BY <2>1, <2>2
<1>10. QED
  BY <1>4, <1>6, <1>8, <1>9 DEF WrittenTo, more

\* What WellFormed says of each brace; a brace is next to another if none is between.
Brace(t, n) == n \in DOMAIN t /\ t[n] \in {LBrace, RBrace}
Adjacent(t, n, m) == m > n /\ Brace(t, m) /\ \A k \in (n + 1)..(m - 1) : ~Brace(t, k)
Paired(t, n) ==
    IF t[n] = LBrace
    THEN \E m \in DOMAIN t : /\ Adjacent(t, n, m) /\ t[m] = RBrace /\ m > n + 1 /\ t[n + 1] # Dot
                             /\ \A k \in (n + 1)..(m - 1) : t[k] \in NameChars
    ELSE \A m \in DOMAIN t : Adjacent(t, n, m) => t[m] = LBrace /\ m > n + 1
Opens(t, n) == t[n] = LBrace /\ \A k \in 1..(n - 1) : ~Brace(t, k)

\* WellFormed, in terms of single braces.
LEMMA WellFormedIs ==
    ASSUME NEW t \in Texts
    PROVE  WellFormed(t) <=> /\ \A n \in DOMAIN t : Brace(t, n) => Paired(t, n)
                             /\ (\E n \in DOMAIN t : Brace(t, n)) => \E n \in DOMAIN t : Opens(t, n)
<1> DEFINE braces == {n \in DOMAIN t : t[n] \in {LBrace, RBrace}}
           Following(n) == {m \in braces : m > n /\ \A k \in braces : k > n => m <= k}
<1>1. PICK l \in Nat : l = Len(t) /\ DOMAIN t = 1..l
  BY TextFacts
<1>2. ASSUME NEW n \in 1..l, NEW m \in 1..l
      PROVE  m \in Following(n) <=> Adjacent(t, n, m)
  <2>1. ASSUME m \in Following(n)
        PROVE  Adjacent(t, n, m)
    <3>1. Brace(t, m) /\ m > n
      BY <1>1, <2>1 DEF Brace
    <3>2. ASSUME NEW k \in (n + 1)..(m - 1), Brace(t, k)
          PROVE  FALSE
      <4>1. k \in Nat /\ k > n /\ ~(m <= k)
        OBVIOUS
      <4>2. k \in braces
        BY <3>2 DEF Brace
      <4>3. QED
        BY <2>1, <4>1, <4>2
    <3>3. QED
      BY <1>1, <3>1, <3>2 DEF Adjacent
  <2>2. ASSUME Adjacent(t, n, m)
        PROVE  m \in Following(n)
    <3>1. m \in braces /\ m > n
      BY <2>2 DEF Adjacent, Brace
    <3>2. ASSUME NEW k \in 1..l, k \in braces, k > n
          PROVE  m <= k
      <4>1. Brace(t, k)
        BY <1>1, <3>2 DEF Brace
      <4>2. ~(k \in (n + 1)..(m - 1))
        BY <2>2, <4>1 DEF Adjacent
      <4>3. k > n
        BY <3>2
      <4>4. QED
        BY <4>2, <4>3
    <3>3. \A k \in braces : k \in 1..l
      BY <1>1
    <3>4. QED
      BY <3>1, <3>2, <3>3
  <2>3. QED
    BY <2>1, <2>2
<1> DEFINE Good(n) ==
             IF t[n] = LBrace
             THEN \E m \in Following(n) : t[m] = RBrace /\ m > n + 1 /\ t[n + 1] # Dot
                                 /\ \A k \in (n + 1)..(m - 1) : t[k] \in NameChars
             ELSE \A m \in Following(n) : t[m] = LBrace /\ m > n + 1
<1>3. WellFormed(t) <=> /\ \A n \in braces : Good(n)
                        /\ braces # {} => \E n \in braces : t[n] = LBrace /\ \A m \in braces : n <= m
  BY DEF WellFormed
<1>4. ASSUME NEW n \in braces
      PROVE  Good(n) <=> Paired(t, n)
  <2>1. n \in 1..l
    BY <1>1
  <2>2. \A m : m \in Following(n) <=> m \in 1..l /\ Adjacent(t, n, m)
    <3>1. \A m \in Following(n) : m \in 1..l
      BY <1>1
    <3>2. QED
      BY <1>2, <2>1, <3>1
  <2> HIDE DEF Following
  <2>3. QED
    BY <1>1, <2>2 DEF Paired
<1>5. ASSUME NEW n \in 1..l, n \in braces
      PROVE  (t[n] = LBrace /\ \A m \in braces : n <= m) <=> Opens(t, n)
  <2>1. ASSUME \A m \in braces : n <= m, NEW k \in 1..(n - 1), Brace(t, k)
        PROVE  FALSE
    <3>1. k \in Nat /\ ~(n <= k)
      OBVIOUS
    <3>2. k \in braces
      BY <2>1 DEF Brace
    <3>3. QED
      BY <2>1, <3>1, <3>2
  <2>2. ASSUME Opens(t, n), NEW m \in 1..l, m \in braces
        PROVE  n <= m
    <3>1. Brace(t, m)
      BY <2>2 DEF Brace
    <3>2. ~(m \in 1..(n - 1))
      BY <2>2, <3>1 DEF Opens
    <3>3. QED
      BY <3>2
  <2>3. \A m \in braces : m \in 1..l
    BY <1>1
  <2>4. QED
    BY <2>1, <2>2, <2>3 DEF Opens
<1>6. \A n : n \in braces <=> Brace(t, n)
  BY DEF Brace
<1>7. \A n \in DOMAIN t : Opens(t, n) => Brace(t, n)
  BY DEF Opens, Brace
<1> HIDE DEF braces, Good
<1>8. \A n \in braces : n \in 1..l /\ n \in DOMAIN t
  BY <1>1 DEF braces
<1>9. QED
  BY <1>3, <1>4, <1>5, <1>6, <1>7, <1>8

\* The state of the loop of compile.
States(text) == [at : 0..Len(text), segs : Seq(Segments)]

\* Braces are characters, and no name has them.
LEMMA Braces == {LBrace, RBrace} \subseteq Chars /\ NameChars \subseteq Chars \ {LBrace, RBrace}
  BY Alphabet

\* What an expression adds: the literal before it, if any, and its variable.
ReadsExpression(text, s, start, end, r) ==
    LET literal == SubSeq(text, s.at + 1, start)
        name    == SubSeq(text, start + 2, end)
        before  == IF literal = <<>> THEN s.segs ELSE Append(s.segs, Lit(literal))
    IN
    /\ start \in s.at..(Len(text) - 1) /\ end \in (start + 2)..(Len(text) - 1)
    /\ literal \in Texts /\ name \in Texts
    /\ ~Contains(literal, RBrace) /\ IsName(name)
    /\ literal = <<>> => ~(s.segs # <<>> /\ Last(s.segs).kind = "variable")
    /\ r.at = end + 1 /\ r.segs = Append(before, Var(name))
    /\ r \in States(text)

\* What Expression does to the state of the loop, in terms of the text.
LEMMA ExpressionShape ==
    ASSUME NEW text \in Texts, NEW s \in States(text),
           NEW start \in Nat, start \in Find(<<LBrace>>, text, s.at),
           NEW end \in Nat, end \in Find(<<RBrace>>, text, start + 1),
           NEW r \in Expression(text, s, start, end)
    PROVE  ReadsExpression(text, s, start, end, r)
<1> DEFINE literal == SubSeq(text, s.at + 1, start)
           name    == SubSeq(text, start + 2, end)
           before  == IF literal = <<>> THEN s.segs ELSE Append(s.segs, Lit(literal))
<1>1. PICK l \in Nat, a \in 0..Len(text) : l = Len(text) /\ a = s.at
  BY TextFacts DEF States
<1>2. start \in a..(l - 1)
  BY <1>1, FindChar, Braces
<1>3. PICK b \in 0..Len(text) : b = start + 1
  BY <1>1, <1>2
<1>4. end \in b..(l - 1)
  <2>1. end \in Find(<<RBrace>>, text, b)
    BY <1>3
  <2>2. QED
    BY <1>1, <2>1, FindChar, Braces
<1>5. /\ ~Contains(literal, RBrace) /\ IsName(name)
      /\ ~(literal = <<>> /\ s.segs # <<>> /\ Last(s.segs).kind = "variable")
      /\ r = [at |-> end + 1, segs |-> Append(before, Var(name))]
  <2> HIDE DEF literal, name, before
  <2>1. QED
    BY DEF Expression, literal, name, before
<1>6. end # start + 1
  <2>1. ASSUME end = start + 1
        PROVE  FALSE
    <3>1. start + 2 \in Int /\ end \in Int /\ end < start + 2
      BY <1>1, <1>2, <2>1
    <3>2. name = <<>>
      BY <3>1, SubSeqEmpty
    <3>3. QED
      BY <1>5, <3>2 DEF IsName
  <2>2. QED
    BY <2>1
<1>7. end \in (start + 2)..(l - 1)
  BY <1>1, <1>2, <1>3, <1>4, <1>6
<1>8. literal \in Texts
  <2>1. start \in a..Len(text)
    BY <1>1, <1>2
  <2>2. SubSeq(text, a + 1, start) \in Texts
    BY <2>1, PartTyped
  <2>3. QED
    BY <1>1, <2>2
<1>9. name \in Texts
  <2>1. end \in b..Len(text) /\ b + 1 = start + 2
    BY <1>1, <1>2, <1>3, <1>4
  <2>2. SubSeq(text, b + 1, end) \in Texts
    BY <2>1, PartTyped
  <2>3. QED
    BY <2>1, <2>2
<1>10. r \in States(text)
  <2>1. end + 1 \in 0..Len(text)
    BY <1>1, <1>3, <1>4
  <2>2. Lit(literal) \in Segments /\ Var(name) \in Segments
    BY <1>8, <1>9 DEF Lit, Var, Segments
  <2> HIDE DEF literal, name
  <2>3. s.segs \in Seq(Segments)
    BY DEF States
  <2>4. before \in Seq(Segments)
    BY <2>2, <2>3, AppendProperties
  <2> HIDE DEF before
  <2>5. Append(before, Var(name)) \in Seq(Segments)
    BY <2>2, <2>4, AppendProperties
  <2>6. QED
    BY <1>5, <2>1, <2>5 DEF States
<1>11. r.at = end + 1 /\ r.segs = Append(before, Var(name))
  BY <1>5
<1>12. QED
  BY <1>1, <1>2, <1>5, <1>7, <1>8, <1>9, <1>10, <1>11 DEF ReadsExpression

\* A round stays where it is, or reads an expression.
LEMMA RoundShape ==
    ASSUME NEW text \in Texts, NEW s \in States(text), NEW r \in Round(text, s)
    PROVE  \/ r = s /\ Find(<<LBrace>>, text, s.at) = {}
           \/ \E start \in Nat, end \in Nat :
                 /\ start \in Find(<<LBrace>>, text, s.at) /\ end \in Find(<<RBrace>>, text, start + 1)
                 /\ r \in Expression(text, s, start, end)
<1>1. CASE Find(<<LBrace>>, text, s.at) = {}
  BY <1>1 DEF Round
<1>2. CASE Find(<<LBrace>>, text, s.at) # {}
  <2>1. PICK start \in Find(<<LBrace>>, text, s.at) : \E end \in Find(<<RBrace>>, text, start + 1) :
           r \in Expression(text, s, start, end)
    BY <1>2 DEF Round
  <2>2. PICK end \in Find(<<RBrace>>, text, start + 1) : r \in Expression(text, s, start, end)
    BY <2>1
  <2>3. \A lit, at : at \in Nat => Find(lit, text, at) \subseteq Nat
    BY TextFacts DEF Find, Occurrences
  <2>4. s.at \in Nat
    BY TextFacts DEF States
  <2>5. start \in Nat
    BY <2>3, <2>4
  <2>6. start + 1 \in Nat
    BY <2>5
  <2>7. end \in Nat
    BY <2>3, <2>6
  <2>8. QED
    BY <2>2, <2>5, <2>7
<1>3. QED
  BY <1>1, <1>2

\* A round leaves the state in its type.
LEMMA RoundTyped ==
    ASSUME NEW text \in Texts, NEW s \in States(text), NEW r \in Round(text, s)
    PROVE  r \in States(text)
<1>1. CASE r = s
  BY <1>1
<1>2. CASE r # s
  <2>1. PICK start \in Nat, end \in Nat :
           /\ start \in Find(<<LBrace>>, text, s.at) /\ end \in Find(<<RBrace>>, text, start + 1)
           /\ r \in Expression(text, s, start, end)
    BY <1>2, RoundShape, Zenon
  <2>2. QED
    BY <2>1, ExpressionShape DEF ReadsExpression
<1>3. QED
  BY <1>1, <1>2

\* The states of compile after each round.
Compiles(f, text) ==
    /\ f \in [0..Len(text) -> SUBSET States(text)]
    /\ f[0] = {[at |-> 0, segs |-> <<>>]}
    /\ \A n \in 1..Len(text) : f[n] = UNION {Round(text, s) : s \in f[n - 1]}
    /\ Compile(text) = UNION {Finish(text, s) : s \in f[Len(text)]}

\* There is such a function.
LEMMA CompileLoop ==
    ASSUME NEW text \in Texts
    PROVE  \E f : Compiles(f, text)
<1> DEFINE N == Len(text)
           X == SUBSET States(text)
           first == {[at |-> 0, segs |-> <<>>]}
           G == [p \in (1..N) \X X |-> UNION {Round(text, s) : s \in p[2]}]
           Is(f) == f = [n \in 0..N |-> IF n = 0 THEN {[at |-> 0, segs |-> <<>>]}
                                        ELSE UNION {Round(text, s) : s \in f[n - 1]}]
           after == CHOOSE f : Is(f)
<1>1. N \in Nat
  BY TextFacts
<1>2. first \in X
  <2>1. <<>> \in Seq(Segments)
    OBVIOUS
  <2>2. QED
    BY <1>1, <2>1 DEF States
<1>3. G \in [(1..N) \X X -> X]
  <2>1. ASSUME NEW p \in (1..N) \X X, NEW r \in UNION {Round(text, s) : s \in p[2]}
        PROVE  r \in States(text)
    BY RoundTyped
  <2>2. QED
    BY <2>1
<1>4. PICK f : Solves(f, N, X, first, G)
  <2> HIDE DEF N, X, first, G
  <2>1. QED
    BY <1>1, <1>2, <1>3, Recursion
<1>5. ASSUME NEW n \in 1..N, NEW x \in X
      PROVE  G[<<n, x>>] = UNION {Round(text, s) : s \in x}
  OBVIOUS
<1> HIDE DEF G
<1>6. ASSUME NEW n \in 1..N
      PROVE  f[n] = UNION {Round(text, s) : s \in f[n - 1]}
  <2>1. n - 1 \in 0..N /\ f[n - 1] \in X
    BY <1>1, <1>4 DEF Solves
  <2>2. QED
    BY <1>4, <1>5, <2>1, Zenon DEF Solves
<1>7. \E g : Is(g)
  <2> DEFINE h == [n \in 0..N |-> IF n = 0 THEN {[at |-> 0, segs |-> <<>>]}
                                  ELSE UNION {Round(text, s) : s \in f[n - 1]}]
  <2>1. \A n \in 0..N : f[n] = h[n]
    BY <1>1, <1>4, <1>6 DEF Solves
  <2>2. f = [n \in 0..N |-> f[n]] /\ h = [n \in 0..N |-> h[n]]
    BY <1>4 DEF Solves
  <2>3. f = h
    <3> HIDE DEF h
    <3>1. QED
      BY <2>1, <2>2
  <2>4. Is(f)
    BY <2>3
  <2> HIDE DEF Is
  <2>5. QED
    BY <2>4
<1>8. Is(after)
  <2> HIDE DEF Is
  <2>1. QED
    BY <1>7, Zenon
<1>9. Compile(text) = UNION {Finish(text, s) : s \in after[N]}
  BY DEF Compile
<1> HIDE DEF after
<1>10. after[0] = first
  BY <1>1, <1>8
<1>11. ASSUME NEW n \in 1..N
       PROVE  after[n] = UNION {Round(text, s) : s \in after[n - 1]}
  <2>1. n \in 0..N /\ n # 0
    BY <1>1
  <2>2. QED
    BY <1>8, <2>1
<1>12. after[N] = f[N]
  <2>1. \A n \in 1..N : after[n - 1] \in X => after[n] = G[<<n, after[n - 1]>>]
    BY <1>5, <1>11
  <2>2. QED
    BY <1>4, <1>10, <2>1 DEF Solves
<1>13. QED
  BY <1>4, <1>6, <1>9, <1>12 DEF Solves, Compiles

\* What holds of compile's loop: what is read is written in the segments, ends with
\* an expression, and its braces are in order.
ReadTo(text, s) ==
    /\ s \in States(text)
    /\ WrittenTo(text, s.segs, s.at)
    /\ s.at = 0 => s.segs = <<>>
    /\ s.at # 0 => /\ text[s.at] = RBrace
                   /\ s.segs # <<>> /\ Last(s.segs).kind = "variable"
                   /\ \E n \in 1..s.at : Opens(text, n)
    /\ \A n \in 1..s.at : Brace(text, n) /\ n # s.at => Paired(text, n)

\* An expression is a part of the text between two braces.
LEMMA Wrapped ==
    ASSUME NEW text \in Texts, NEW k \in Nat, NEW m \in Nat, k + 1 <= m, m < Len(text),
           text[k + 1] = LBrace, text[m + 1] = RBrace
    PROVE  SubSeq(text, k + 1, m + 1) = <<LBrace>> \o SubSeq(text, k + 2, m) \o <<RBrace>>
<1>1. PICK l \in Nat : l = Len(text)
  BY TextFacts
<1>2. text \in Seq(Chars)
  BY DEF Texts
<1>3. /\ k + 1 \in 1..l /\ m + 1 \in (k + 1)..l /\ m \in (k + 1)..l
      /\ (m + 1) - 1 = m /\ (k + 1) + 1 = k + 2
  BY <1>1
<1>4. SubSeq(text, k + 1, m + 1) = SubSeq(text, k + 1, (m + 1) - 1) \o <<text[m + 1]>>
  BY <1>1, <1>2, <1>3, SubSeqRecursiveSecond
<1>5. SubSeq(text, k + 1, m) = <<text[k + 1]>> \o SubSeq(text, (k + 1) + 1, m)
  BY <1>1, <1>2, <1>3, SubSeqRecursiveFirst
<1>6. QED
  BY <1>3, <1>4, <1>5

\* The segments of an expression are written to where it ends.
LEMMA ExpressionWrites ==
    ASSUME NEW text \in Texts, NEW s, ReadTo(text, s),
           NEW start \in Nat, start \in Find(<<LBrace>>, text, s.at),
           NEW end \in Nat, end \in Find(<<RBrace>>, text, start + 1),
           NEW r \in Expression(text, s, start, end)
    PROVE  WrittenTo(text, r.segs, r.at)
<1> DEFINE literal == SubSeq(text, s.at + 1, start)
           name    == SubSeq(text, start + 2, end)
           before  == IF literal = <<>> THEN s.segs ELSE Append(s.segs, Lit(literal))
<1>1. PICK l \in Nat, a \in 0..Len(text) : l = Len(text) /\ a = s.at /\ s \in States(text)
  BY TextFacts DEF States, ReadTo
<1>2. /\ start \in a..(l - 1) /\ end \in (start + 2)..(l - 1)
      /\ literal \in Texts /\ name \in Texts
      /\ literal = <<>> => ~(s.segs # <<>> /\ Last(s.segs).kind = "variable")
      /\ r.at = end + 1 /\ r.segs = Append(before, Var(name))
  <2>1. ReadsExpression(text, s, start, end, r)
    BY <1>1, ExpressionShape
  <2>2. QED
    BY <1>1, <2>1 DEF ReadsExpression
<1>3. /\ start \in 0..Len(text) /\ start \in a..Len(text) /\ start + 1 \in 0..Len(text)
      /\ end < l /\ start + 1 <= end
      /\ end + 1 \in start..Len(text)
  BY <1>1, <1>2
<1>4. text[start + 1] = LBrace
  BY <1>1, FindChar, Braces
<1>5. text[end + 1] = RBrace
  BY <1>3, FindChar, Braces
<1> HIDE DEF name
<1>6. Lit(literal) \in Segments /\ Shown(Lit(literal)) = literal
  BY <1>2 DEF Lit, Segments, Shown
<1>7. Var(name) \in Segments /\ Shown(Var(name)) = <<LBrace>> \o name \o <<RBrace>>
  BY <1>2 DEF Var, Segments, Shown
<1>8. WrittenTo(text, before, start) /\ (before # <<>> /\ Last(before).kind = "variable" => FALSE)
  <2>1. WrittenTo(text, s.segs, a) /\ s.segs \in Seq(Segments)
    BY <1>1 DEF ReadTo, WrittenTo
  <2>2. CASE literal = <<>>
    <3>1. start = a
      <4>1. Len(SubSeq(text, a + 1, start)) = start - a
        BY <1>3, PartTyped
      <4>2. SubSeq(text, a + 1, start) = <<>>
        BY <1>1, <2>2
      <4>3. start - a = 0
        BY <4>1, <4>2
      <4>4. QED
        BY <1>1, <1>2, <4>3
    <3>2. QED
      BY <1>2, <2>1, <2>2, <3>1
  <2>3. CASE literal # <<>>
    <3>1. SubSeq(text, a + 1, start) = Shown(Lit(literal))
      BY <1>1, <1>6
    <3>2. Lit(literal).kind = "literal" /\ Lit(literal).text # <<>>
      BY <2>3 DEF Lit
    <3> HIDE DEF literal
    <3>3. WrittenTo(text, Append(s.segs, Lit(literal)), start)
      BY <1>1, <1>3, <1>6, <2>1, <3>1, <3>2, WriteMore
    <3>4. Last(Append(s.segs, Lit(literal))) = Lit(literal)
      BY <1>6, <2>1, AppendProperties DEF Last
    <3>5. QED
      BY <2>3, <3>2, <3>3, <3>4
  <2>4. QED
    BY <2>2, <2>3
<1> HIDE DEF before
<1>9. SubSeq(text, start + 1, end + 1) = Shown(Var(name))
  <2>1. SubSeq(text, start + 1, end + 1) = <<LBrace>> \o SubSeq(text, start + 2, end) \o <<RBrace>>
    BY <1>1, <1>3, <1>4, <1>5, Wrapped
  <2>2. QED
    BY <1>7, <2>1 DEF name
<1>10. WrittenTo(text, Append(before, Var(name)), end + 1)
  BY <1>3, <1>7, <1>8, <1>9, WriteMore
<1>11. QED
  BY <1>2, <1>10

\* The braces of an expression are in order, and so is the one before it.
LEMMA ExpressionPairs ==
    ASSUME NEW text \in Texts, NEW s, ReadTo(text, s),
           NEW start \in Nat, start \in Find(<<LBrace>>, text, s.at),
           NEW end \in Nat, end \in Find(<<RBrace>>, text, start + 1),
           NEW r \in Expression(text, s, start, end)
    PROVE  /\ \A i \in (s.at + 1)..start : ~Brace(text, i)
           /\ Paired(text, start + 1)
           /\ \A i \in (start + 2)..end : ~Brace(text, i)
           /\ s.at # 0 => Paired(text, s.at)
<1> DEFINE literal == SubSeq(text, s.at + 1, start)
           name    == SubSeq(text, start + 2, end)
<1>1. PICK l \in Nat, a \in 0..Len(text) :
         l = Len(text) /\ a = s.at /\ s \in States(text) /\ DOMAIN text = 1..l
  BY TextFacts DEF States, ReadTo
<1>2. /\ start \in a..(l - 1) /\ end \in (start + 2)..(l - 1)
      /\ literal \in Texts
      /\ ~Contains(literal, RBrace) /\ IsName(name)
      /\ literal = <<>> => ~(s.segs # <<>> /\ Last(s.segs).kind = "variable")
  <2>1. ReadsExpression(text, s, start, end, r)
    BY <1>1, ExpressionShape
  <2>2. QED
    BY <1>1, <2>1 DEF ReadsExpression
<1>3. start \in 0..Len(text) /\ start \in a..Len(text) /\ start + 1 \in 0..Len(text)
      /\ end \in (start + 1)..Len(text)
  BY <1>1, <1>2
<1>4. /\ text[start + 1] = LBrace /\ \A i \in (a + 1)..start : text[i] # LBrace
      /\ text[end + 1] = RBrace
  BY <1>1, <1>3, FindChar, Braces
<1>5. LBrace # RBrace
  BY DEF LBrace, RBrace
<1>6. ASSUME NEW i \in (a + 1)..start
      PROVE  ~Brace(text, i)
  <2>1. Len(literal) = start - a /\ \A j \in 1..(start - a) : literal[j] = text[a + j]
    BY <1>1, <1>3, PartTyped
  <2>2. i - a \in 1..(start - a) /\ a + (i - a) = i
    BY <1>1, <1>2
  <2>3. text[i] # RBrace
    BY <1>2, <2>1, <2>2 DEF Contains
  <2>4. QED
    BY <1>4, <2>3 DEF Brace
<1>7. /\ text[start + 2] # Dot
      /\ \A i \in (start + 2)..end : text[i] \in NameChars
  <2>1. (start + 1) + 1 = start + 2 /\ 1 \in 1..(end - (start + 1)) /\ (start + 1) + 1 = start + 2
    BY <1>1, <1>2
  <2>2. /\ name \in Texts /\ Len(name) = end - (start + 1)
        /\ \A j \in 1..(end - (start + 1)) : name[j] = text[(start + 1) + j]
    BY <1>3, <2>1, PartTyped
  <2>3. DOMAIN name = 1..(end - (start + 1))
    BY <2>2, TextFacts
  <2>4. text[start + 2] # Dot
    BY <1>2, <2>1, <2>2 DEF IsName
  <2>5. ASSUME NEW i \in (start + 2)..end
        PROVE  text[i] \in NameChars
    <3>1. i - (start + 1) \in 1..(end - (start + 1)) /\ (start + 1) + (i - (start + 1)) = i
      BY <1>1, <1>2
    <3>2. QED
      BY <1>2, <2>2, <2>3, <3>1 DEF IsName
  <2>6. QED
    BY <2>4, <2>5
<1>8. \A i \in (start + 2)..end : ~Brace(text, i)
  BY <1>7, Braces DEF Brace
<1>9. start + 1 \in 1..l /\ end + 1 \in 1..l /\ Brace(text, start + 1) /\ Brace(text, end + 1)
  BY <1>1, <1>2, <1>4 DEF Brace
<1>10. Paired(text, start + 1)
  <2>1. /\ end + 1 > start + 1 /\ end + 1 > (start + 1) + 1
        /\ (start + 1) + 1 = start + 2 /\ (end + 1) - 1 = end
    BY <1>2
  <2>2. Adjacent(text, start + 1, end + 1)
    BY <1>8, <1>9, <2>1 DEF Adjacent
  <2>3. QED
    BY <1>1, <1>4, <1>7, <1>9, <2>1, <2>2 DEF Paired
<1>11. ASSUME a # 0
       PROVE  Paired(text, a)
  <2>1. text[a] = RBrace /\ WrittenTo(text, s.segs, a)
    BY <1>1, <1>11 DEF ReadTo
  <2>2. start > a
    <3>1. ASSUME start = a
          PROVE  FALSE
      <4>1. s.at + 1 \in Int /\ start \in Int /\ start < s.at + 1
        BY <1>1, <3>1
      <4>2. literal = <<>>
        BY <4>1, SubSeqEmpty
      <4>3. s.segs # <<>> /\ Last(s.segs).kind = "variable"
        BY <1>1, <1>11 DEF ReadTo
      <4>4. QED
        BY <1>2, <4>2, <4>3
    <3>2. QED
      BY <1>1, <1>2, <3>1
  <2>3. ASSUME NEW m \in 1..l, Adjacent(text, a, m)
        PROVE  m = start + 1
    <3>1. m > a /\ Brace(text, m) /\ \A k \in (a + 1)..(m - 1) : ~Brace(text, k)
      BY <2>3 DEF Adjacent
    <3>2. ~(m \in (a + 1)..start) /\ ~(start + 1 \in (a + 1)..(m - 1))
      BY <1>6, <1>9, <3>1
    <3>3. QED
      BY <1>1, <1>2, <3>1, <3>2
  <2>4. QED
    BY <1>1, <1>2, <1>4, <1>5, <2>1, <2>2, <2>3 DEF Paired
<1>12. QED
  BY <1>1, <1>6, <1>8, <1>10, <1>11

\* An expression keeps the invariant of the loop of compile, and reads on.
LEMMA ExpressionReads ==
    ASSUME NEW text \in Texts, NEW s, ReadTo(text, s),
           NEW start \in Nat, start \in Find(<<LBrace>>, text, s.at),
           NEW end \in Nat, end \in Find(<<RBrace>>, text, start + 1),
           NEW r \in Expression(text, s, start, end)
    PROVE  ReadTo(text, r) /\ r.at > s.at
<1>1. PICK l \in Nat, a \in 0..Len(text) :
         l = Len(text) /\ a = s.at /\ s \in States(text) /\ DOMAIN text = 1..l
  BY TextFacts DEF States, ReadTo
<1>2. ReadsExpression(text, s, start, end, r)
  BY <1>1, ExpressionShape
<1>3. start \in a..(l - 1) /\ end \in (start + 2)..(l - 1) /\ r.at = end + 1 /\ r \in States(text)
  BY <1>1, <1>2 DEF ReadsExpression
<1>4. WrittenTo(text, r.segs, r.at)
  BY ExpressionWrites
<1>5. /\ \A i \in (a + 1)..start : ~Brace(text, i)
      /\ Paired(text, start + 1)
      /\ \A i \in (start + 2)..end : ~Brace(text, i)
      /\ a # 0 => Paired(text, a)
  BY <1>1, ExpressionPairs
<1>6. text[start + 1] = LBrace /\ text[end + 1] = RBrace
  <2>1. start + 1 \in 0..Len(text)
    BY <1>1, <1>3
  <2>2. QED
    BY <1>1, <2>1, FindChar, Braces
<1>7. r.segs # <<>> /\ Last(r.segs).kind = "variable"
  <2> DEFINE name == SubSeq(text, start + 2, end)
  <2>1. PICK before : r.segs = Append(before, Var(name)) /\ before \in Seq(Segments) /\ name \in Texts
    <3> DEFINE literal == SubSeq(text, s.at + 1, start)
               before == IF literal = <<>> THEN s.segs ELSE Append(s.segs, Lit(literal))
    <3>1. r.segs = Append(before, Var(name)) /\ literal \in Texts /\ name \in Texts
      BY <1>2 DEF ReadsExpression
    <3> HIDE DEF literal, name
    <3>2. s.segs \in Seq(Segments) /\ Lit(literal) \in Segments
      BY <1>1, <3>1 DEF States, Lit, Segments
    <3>3. before \in Seq(Segments)
      BY <3>2, AppendProperties
    <3> HIDE DEF before
    <3>4. QED
      BY <3>1, <3>3
  <2> HIDE DEF name
  <2>2. Var(name) \in Segments /\ Var(name).kind = "variable"
    BY <2>1 DEF Var, Segments
  <2>3. r.segs # <<>> /\ Last(r.segs) = Var(name)
    BY <2>1, <2>2, AppendProperties DEF Last
  <2>4. QED
    BY <2>2, <2>3
<1>8. \E n \in 1..(end + 1) : Opens(text, n)
  <2>1. CASE a = 0
    <3>1. start + 1 \in 1..(end + 1) /\ (start + 1) - 1 = start /\ a + 1 = 1
      BY <1>3, <2>1
    <3>2. Opens(text, start + 1)
      BY <1>5, <1>6, <3>1 DEF Opens
    <3>3. QED
      BY <3>1, <3>2
  <2>2. CASE a # 0
    <3>1. PICK n \in 1..a : Opens(text, n)
      BY <1>1, <2>2 DEF ReadTo
    <3>2. n \in 1..(end + 1)
      BY <1>1, <1>3
    <3>3. QED
      BY <3>1, <3>2
  <2>3. QED
    BY <2>1, <2>2
<1>9. ASSUME NEW n \in 1..(end + 1), Brace(text, n), n # end + 1
      PROVE  Paired(text, n)
  <2>1. n \in 1..a \/ n \in (a + 1)..start \/ n = start + 1 \/ n \in (start + 2)..end
    BY <1>1, <1>3, <1>9
  <2>2. n \in 1..a /\ n # a => Paired(text, n)
    BY <1>1, <1>9 DEF ReadTo
  <2>3. n = a /\ n \in 1..a => Paired(text, n)
    BY <1>5
  <2>4. QED
    BY <1>5, <1>9, <2>1, <2>2, <2>3
<1>10. end + 1 # 0 /\ end + 1 > a
  BY <1>1, <1>3
<1>11. QED
  BY <1>1, <1>3, <1>4, <1>6, <1>7, <1>8, <1>9, <1>10 DEF ReadTo

\* So does a round; without an expression it stays where it is, for good.
LEMMA RoundReads ==
    ASSUME NEW text \in Texts, NEW s, ReadTo(text, s), NEW r \in Round(text, s)
    PROVE  /\ ReadTo(text, r)
           /\ Find(<<LBrace>>, text, r.at) = {} \/ r.at > s.at
<1>1. s \in States(text)
  BY DEF ReadTo
<1>2. CASE r = s /\ Find(<<LBrace>>, text, s.at) = {}
  BY <1>2
<1>3. CASE ~(r = s /\ Find(<<LBrace>>, text, s.at) = {})
  <2>1. PICK start \in Nat, end \in Nat :
           /\ start \in Find(<<LBrace>>, text, s.at) /\ end \in Find(<<RBrace>>, text, start + 1)
           /\ r \in Expression(text, s, start, end)
    BY <1>1, <1>3, RoundShape, Zenon
  <2>2. QED
    BY <2>1, ExpressionReads
<1>4. QED
  BY <1>2, <1>3

\* The invariant holds before the first round.
LEMMA LoopStarts ==
    ASSUME NEW text \in Texts
    PROVE  ReadTo(text, [at |-> 0, segs |-> <<>>])
<1> DEFINE p == [i \in 0..0 |-> 0]
           none == <<>>
<1>1. none \in Seq(Segments) /\ Len(none) = 0
  OBVIOUS
<1>2. Len(text) \in Nat
  BY TextFacts
<1>3. Cuts(p, 0, Written(none), text)
  BY <1>2 DEF Cuts
<1>4. p[0] = 0
  OBVIOUS
<1> HIDE DEF p, none
<1>5. Alternates(none)
  BY <1>1 DEF Alternates
<1>6. WrittenTo(text, none, 0)
  BY <1>1, <1>3, <1>4, <1>5 DEF WrittenTo
<1>7. QED
  BY <1>1, <1>2, <1>6 DEF ReadTo, States, none

\* After as many rounds as the text has characters, no expression is left.
LEMMA LoopReads ==
    ASSUME NEW text \in Texts, NEW f, Compiles(f, text), NEW s \in f[Len(text)]
    PROVE  ReadTo(text, s) /\ Find(<<LBrace>>, text, s.at) = {}
<1> DEFINE N == Len(text)
           Read(n, r) == ReadTo(text, r) /\ (Find(<<LBrace>>, text, r.at) = {} \/ r.at >= n)
           S == {n \in 0..N : \A r \in f[n] : Read(n, r)}
<1>1. N \in Nat
  BY TextFacts
<1>2. 0 \in S
  <2>1. ASSUME NEW r \in f[0]
        PROVE  Read(0, r)
    <3>1. r = [at |-> 0, segs |-> <<>>]
      BY DEF Compiles
    <3>2. r.at >= 0
      BY <3>1
    <3>3. QED
      BY <3>1, <3>2, LoopStarts
  <2> HIDE DEF Read
  <2>2. 0 \in 0..N
    BY <1>1
  <2>3. QED
    BY <2>1, <2>2
<1>3. ASSUME NEW n \in 1..N, n - 1 \in S
      PROVE  n \in S
  <2>1. ASSUME NEW r \in f[n]
        PROVE  Read(n, r)
    <3>1. PICK q \in f[n - 1] : r \in Round(text, q)
      BY DEF Compiles
    <3>2. ReadTo(text, q) /\ (Find(<<LBrace>>, text, q.at) = {} \/ q.at >= n - 1)
      BY <1>3, <3>1
    <3>3. /\ ReadTo(text, r)
          /\ Find(<<LBrace>>, text, r.at) = {} \/ r.at > q.at
      BY <3>1, <3>2, RoundReads
    <3>4. CASE Find(<<LBrace>>, text, q.at) = {}
      BY <3>1, <3>3, <3>4 DEF Round
    <3>5. CASE q.at >= n - 1 /\ r.at > q.at
      <4>1. q.at \in Nat /\ r.at \in Nat
        BY <1>1, <3>2, <3>3 DEF ReadTo, States
      <4>2. r.at >= n
        BY <1>1, <3>5, <4>1
      <4>3. QED
        BY <3>3, <4>2
    <3>6. QED
      BY <3>2, <3>3, <3>4, <3>5
  <2> HIDE DEF Read
  <2>2. n \in 0..N
    BY <1>1
  <2>3. QED
    BY <2>1, <2>2
<1>4. N \in S
  <2> HIDE DEF S
  <2>1. N \in 0..N
    BY <1>1
  <2>2. QED
    BY <1>1, <1>2, <1>3, <2>1, UpTo
<1>5. ReadTo(text, s) /\ (Find(<<LBrace>>, text, s.at) = {} \/ s.at >= N)
  BY <1>4
<1>6. s.at \in 0..Len(text)
  BY <1>5 DEF ReadTo, States
<1>7. s.at >= N => \A i \in (s.at + 1)..Len(text) : FALSE
  BY <1>1, <1>6
<1>8. s.at >= N => Find(<<LBrace>>, text, s.at) = {}
  BY <1>6, <1>7, FindChar, Braces
<1>9. QED
  BY <1>5, <1>8

\* What compile returns says what the text says, and the text is well formed.
THEOREM CompileSound ==
    ASSUME NEW text \in Texts, NEW m \in Compile(text)
    PROVE  WellFormed(text) /\ WrittenTo(text, m, Len(text))
<1>1. PICK f : Compiles(f, text)
  BY CompileLoop
<1>2. PICK s \in f[Len(text)] : m \in Finish(text, s)
  BY <1>1 DEF Compiles
<1>3. ReadTo(text, s) /\ Find(<<LBrace>>, text, s.at) = {}
  BY <1>1, LoopReads
<1>4. PICK l \in Nat, a \in 0..Len(text) :
         l = Len(text) /\ a = s.at /\ DOMAIN text = 1..l
  BY <1>3, TextFacts DEF States, ReadTo
<1> DEFINE tail == SubSeq(text, a + 1, l)
<1>5. tail \in Texts /\ Len(tail) = l - a /\ \A i \in 1..(l - a) : tail[i] = text[a + i]
  <2>1. Len(text) \in a..Len(text)
    BY <1>4
  <2>2. QED
    BY <1>4, <2>1, PartTyped
<1>6. ~Contains(tail, RBrace)
      /\ m = IF tail # <<>> \/ s.segs = <<>> THEN Append(s.segs, Lit(tail)) ELSE s.segs
  <2> HIDE DEF tail
  <2>1. Finish(text, s) = IF Contains(tail, RBrace) THEN {}
           ELSE {IF tail # <<>> \/ s.segs = <<>> THEN Append(s.segs, Lit(tail)) ELSE s.segs}
    BY <1>4 DEF Finish, tail
  <2>2. QED
    BY <1>2, <2>1
<1> HIDE DEF tail
<1>7. ASSUME NEW i \in (a + 1)..l
      PROVE  ~Brace(text, i)
  <2>1. text[i] # LBrace
    BY <1>3, <1>4, FindChar, Braces
  <2>2. i - a \in 1..(l - a) /\ a + (i - a) = i
    BY <1>4
  <2>3. text[i] # RBrace
    BY <1>5, <1>6, <2>2 DEF Contains
  <2>4. QED
    BY <2>1, <2>3 DEF Brace
<1>8. WellFormed(text)
  <2>1. ASSUME NEW n \in 1..l, Brace(text, n)
        PROVE  n \in 1..a
    BY <1>4, <1>7, <2>1
  <2>2. ASSUME NEW n \in 1..l, Brace(text, n)
        PROVE  Paired(text, n)
    <3>1. n \in 1..a
      BY <2>1, <2>2
    <3>2. CASE n # a
      BY <1>3, <1>4, <2>2, <3>1, <3>2 DEF ReadTo
    <3>3. CASE n = a
      <4>1. text[n] = RBrace
        BY <1>3, <1>4, <3>1, <3>3 DEF ReadTo
      <4>2. LBrace # RBrace
        BY DEF LBrace, RBrace
      <4>3. ASSUME NEW k \in 1..l, Adjacent(text, n, k)
            PROVE  FALSE
        <5>1. k > n /\ Brace(text, k)
          BY <4>3 DEF Adjacent
        <5>2. k \in 1..a
          BY <2>1, <5>1
        <5>3. QED
          BY <3>3, <5>1, <5>2
      <4>4. QED
        BY <1>4, <4>1, <4>2, <4>3 DEF Paired
    <3>4. QED
      BY <3>2, <3>3
  <2>3. ASSUME NEW n \in 1..l, Brace(text, n)
        PROVE  \E k \in 1..l : Opens(text, k)
    <3>1. a # 0
      BY <2>1, <2>3
    <3>2. PICK k \in 1..a : Opens(text, k)
      BY <1>3, <1>4, <3>1 DEF ReadTo
    <3>3. k \in 1..l
      BY <1>4
    <3>4. QED
      BY <3>2, <3>3
  <2>4. QED
    BY <1>4, <2>2, <2>3, WellFormedIs
<1>9. WrittenTo(text, s.segs, a)
  BY <1>3, <1>4 DEF ReadTo
<1>10. CASE tail # <<>> \/ s.segs = <<>>
  <2>1. Lit(tail) \in Segments /\ Shown(Lit(tail)) = tail
        /\ Lit(tail).kind = "literal" /\ Lit(tail).text = tail
    BY <1>5 DEF Lit, Segments, Shown
  <2>2. SubSeq(text, a + 1, Len(text)) = Shown(Lit(tail))
    BY <1>4, <2>1 DEF tail
  <2>3. Len(text) \in a..Len(text)
    BY <1>4
  <2>4. WrittenTo(text, Append(s.segs, Lit(tail)), Len(text))
    BY <1>9, <1>10, <2>1, <2>2, <2>3, WriteMore
  <2>5. QED
    BY <1>6, <1>8, <1>10, <2>4
<1>11. CASE ~(tail # <<>> \/ s.segs = <<>>)
  <2>1. a = Len(text)
    BY <1>4, <1>5, <1>11
  <2>2. QED
    BY <1>6, <1>8, <1>9, <1>11, <2>1
<1>12. QED
  BY <1>10, <1>11

\* Every segment looks like a text.
LEMMA WrittenTyped ==
    ASSUME NEW segs \in Seq(Segments)
    PROVE  Written(segs) \in Seq(Texts) /\ Len(Written(segs)) = Len(segs)
<1>1. Len(segs) \in Nat /\ DOMAIN segs = 1..Len(segs)
  BY SegmentFacts
<1>2. ASSUME NEW n \in 1..Len(segs)
      PROVE  Shown(segs[n]) \in Texts
  <2>1. segs[n].text \in Seq(Chars) /\ <<LBrace>> \in Seq(Chars) /\ <<RBrace>> \in Seq(Chars)
    BY SegmentFacts, Braces DEF Texts
  <2>2. <<LBrace>> \o segs[n].text \in Seq(Chars)
    BY <2>1, ConcatProperties
  <2>3. <<LBrace>> \o segs[n].text \o <<RBrace>> \in Seq(Chars)
    BY <2>1, <2>2, ConcatProperties
  <2>4. QED
    BY <2>1, <2>3 DEF Shown, Texts
<1>3. Written(segs) \in [1..Len(segs) -> Texts]
  BY <1>1, <1>2 DEF Written
<1>4. QED
  BY <1>1, <1>3

\* A text that looks like its segments is what they stand for.
LEMMA WrittenUnparse ==
    ASSUME NEW text \in Texts, NEW segs, WrittenTo(text, segs, Len(text))
    PROVE  Unparse(segs) = text
<1>1. segs \in Seq(Segments)
  BY DEF WrittenTo
<1>2. PICK p : Cuts(p, Len(segs), Written(segs), text) /\ p[Len(segs)] = Len(text)
  BY DEF WrittenTo
<1>3. FlattenSeq(Written(segs)) = text
  BY <1>1, <1>2, WrittenTyped, CutsFlatten
<1>4. QED
  BY <1>3 DEF Unparse, Written, Shown

\* In a text that is well formed, the brace after what was read opens an expression,
\* and it is not right after another one.
LEMMA NextOpens ==
    ASSUME NEW text \in Texts, WellFormed(text), NEW s, ReadTo(text, s),
           NEW b \in (s.at + 1)..Len(text), Brace(text, b),
           \A i \in (s.at + 1)..(b - 1) : ~Brace(text, i)
    PROVE  text[b] = LBrace /\ (s.at # 0 => b > s.at + 1)
<1>1. PICK l \in Nat, a \in 0..Len(text) :
         l = Len(text) /\ a = s.at /\ DOMAIN text = 1..l
  BY TextFacts DEF States, ReadTo
<1>2. b \in (a + 1)..l /\ b \in 1..l
  BY <1>1
<1>3. /\ \A n \in 1..l : Brace(text, n) => Paired(text, n)
      /\ (\E n \in 1..l : Brace(text, n)) => \E n \in 1..l : Opens(text, n)
  BY <1>1, WellFormedIs
<1>4. LBrace # RBrace
  BY DEF LBrace, RBrace
<1>5. CASE a = 0
  <2>1. PICK n \in 1..l : Opens(text, n)
    BY <1>2, <1>3
  <2>2. Brace(text, n)
    BY <1>1, <2>1 DEF Opens, Brace
  <2>3. ~(n \in (a + 1)..(b - 1)) /\ ~(b \in 1..(n - 1))
    BY <1>1, <2>1, <2>2 DEF Opens
  <2>4. n = b
    BY <1>2, <1>5, <2>3
  <2>5. QED
    BY <1>1, <1>5, <2>1, <2>4 DEF Opens
<1>6. CASE a # 0
  <2>1. a \in 1..l /\ text[a] = RBrace
    BY <1>1, <1>6 DEF ReadTo
  <2>2. Brace(text, a)
    BY <1>1, <2>1 DEF Brace
  <2>3. Paired(text, a)
    BY <1>3, <2>1, <2>2
  <2>4. Adjacent(text, a, b)
    BY <1>1, <1>2 DEF Adjacent
  <2>5. text[b] = LBrace /\ b > a + 1
    BY <1>1, <1>2, <1>4, <2>1, <2>3, <2>4 DEF Paired
  <2>6. QED
    BY <1>1, <2>5
<1>7. QED
  BY <1>5, <1>6

\* The least brace behind what was read, if there is one.
LEMMA NextBrace ==
    ASSUME NEW text \in Texts, NEW a \in 0..Len(text), NEW i \in (a + 1)..Len(text), Brace(text, i)
    PROVE  \E b \in (a + 1)..i : Brace(text, b) /\ \A k \in (a + 1)..(b - 1) : ~Brace(text, k)
<1>1. PICK l \in Nat : l = Len(text)
  BY TextFacts
<1> DEFINE T == {k \in (a + 1)..i : Brace(text, k)}
<1>2. i \in T /\ T \subseteq Nat
  BY <1>1
<1>3. PICK b \in T : \A k \in T : b <= k
  <2> HIDE DEF T
  <2>1. QED
    BY <1>2, LeastNumber, Zenon
<1>4. b \in (a + 1)..i /\ Brace(text, b)
  OBVIOUS
<1>5. ASSUME NEW k \in (a + 1)..(b - 1), Brace(text, k)
      PROVE  FALSE
  <2>1. k \in (a + 1)..i /\ ~(b <= k)
    BY <1>1, <1>4
  <2>2. QED
    BY <1>3, <1>5, <2>1
<1>6. QED
  BY <1>4, <1>5

\* In a text that is well formed no round fails.
LEMMA RoundGoesOn ==
    ASSUME NEW text \in Texts, WellFormed(text), NEW s, ReadTo(text, s)
    PROVE  Round(text, s) # {}
<1>1. PICK l \in Nat, a \in 0..Len(text) :
         l = Len(text) /\ a = s.at /\ DOMAIN text = 1..l
  BY TextFacts DEF States, ReadTo
<1>2. CASE Find(<<LBrace>>, text, s.at) = {}
  BY <1>2 DEF Round
<1>3. CASE Find(<<LBrace>>, text, s.at) # {}
  <2>0. PICK first : first \in Find(<<LBrace>>, text, a)
    BY <1>1, <1>3
  <2>1. PICK start \in a..(l - 1) :
           /\ start \in Find(<<LBrace>>, text, a)
           /\ text[start + 1] = LBrace
           /\ \A i \in (a + 1)..start : text[i] # LBrace
    BY <1>1, <2>0, FindChar, Braces
  <2>2. /\ text[start + 1] = LBrace /\ \A i \in (a + 1)..start : text[i] # LBrace
        /\ start \in Nat /\ start + 1 \in (a + 1)..l
        /\ start + 1 \in 0..Len(text) /\ start \in a..Len(text)
    BY <1>1, <2>1
  <2>3. Brace(text, start + 1)
    BY <1>1, <2>2 DEF Brace
  <2>4. PICK b \in (a + 1)..(start + 1) :
           Brace(text, b) /\ \A k \in (a + 1)..(b - 1) : ~Brace(text, k)
    BY <1>1, <2>2, <2>3, NextBrace
  <2>5. text[b] = LBrace /\ (a # 0 => b > a + 1)
    <3>1. b \in (s.at + 1)..Len(text)
      BY <1>1, <2>2
    <3>2. \A k \in (s.at + 1)..(b - 1) : ~Brace(text, k)
      BY <1>1, <2>4
    <3>3. QED
      BY <1>1, <2>4, <3>1, <3>2, NextOpens
  <2>6. b = start + 1
    BY <1>1, <2>2, <2>5
  <2>7. Paired(text, start + 1)
    BY <1>1, <2>2, <2>3, WellFormedIs
  <2>8. PICK m \in 1..l :
           /\ Adjacent(text, start + 1, m) /\ text[m] = RBrace
           /\ m > (start + 1) + 1 /\ text[(start + 1) + 1] # Dot
           /\ \A k \in ((start + 1) + 1)..(m - 1) : text[k] \in NameChars
    BY <1>1, <2>2, <2>7 DEF Paired
  <2>9. PICK end \in Nat : end = m - 1
    OBVIOUS
  <2>10. /\ end \in (start + 2)..(l - 1) /\ text[end + 1] = RBrace /\ end \in (start + 1)..Len(text)
         /\ text[start + 2] # Dot
         /\ \A k \in (start + 2)..end : text[k] \in NameChars
    BY <1>1, <2>2, <2>8, <2>9
  <2>11. end \in Find(<<RBrace>>, text, start + 1)
    <3>1. PICK c \in 0..Len(text) : c = start + 1
      BY <2>2
    <3>2. end \in c..(Len(text) - 1)
      BY <1>1, <2>10, <3>1
    <3>3. \A k \in (c + 1)..end : text[k] # RBrace
      BY <2>2, <2>10, <3>1, Braces
    <3>4. end \in Find(<<RBrace>>, text, c)
      BY <2>10, <3>2, <3>3, FindChar, Braces, SMTT(40)
    <3>5. QED
      BY <3>1, <3>4
  <2> DEFINE literal  == SubSeq(text, s.at + 1, start)
             name     == SubSeq(text, start + 2, end)
             adjacent == literal = <<>> /\ s.segs # <<>> /\ Last(s.segs).kind = "variable"
             before   == IF literal = <<>> THEN s.segs ELSE Append(s.segs, Lit(literal))
  <2>12. Len(literal) = start - a /\ \A i \in 1..(start - a) : literal[i] = text[a + i]
    <3>1. /\ Len(SubSeq(text, a + 1, start)) = start - a
          /\ \A i \in 1..(start - a) : SubSeq(text, a + 1, start)[i] = text[a + i]
      BY <2>2, PartTyped
    <3>2. literal = SubSeq(text, a + 1, start)
      BY <1>1, Zenon
    <3> HIDE DEF literal
    <3>3. QED
      BY <3>1, <3>2, Zenon
  <2>13. ~Contains(literal, RBrace)
    <3>1. ASSUME NEW i \in 1..(start - a), literal[i] = RBrace
          PROVE  FALSE
      <4>1. a + i \in (a + 1)..(b - 1) /\ a + i \in 1..l
        BY <1>1, <2>2, <2>6
      <4>2. text[a + i] = RBrace
        BY <2>12, <3>1
      <4>3. QED
        BY <1>1, <2>4, <4>1, <4>2 DEF Brace
    <3>2. QED
      BY <2>12, <3>1 DEF Contains
  <2>14. ~adjacent
    <3>1. CASE a = 0
      BY <1>1, <3>1 DEF ReadTo
    <3>2. CASE a # 0
      <4>1. start - a # 0
        BY <1>1, <2>2, <2>5, <2>6, <3>2
      <4>2. literal # <<>>
        BY <2>12, <4>1
      <4>3. QED
        BY <4>2
    <3>3. QED
      BY <3>1, <3>2
  <2>15. IsName(name)
    <3>1. PICK c \in 0..Len(text) : c = start + 1
      BY <2>2
    <3>2. c + 1 = start + 2 /\ end \in c..Len(text) /\ 1 \in 1..(end - c)
      BY <1>1, <2>2, <2>10, <3>1
    <3>3. name \in Texts /\ Len(name) = end - c /\ \A j \in 1..(end - c) : name[j] = text[c + j]
      BY <3>2, PartTyped, SMTT(40)
    <3>4. DOMAIN name = 1..(end - c)
      BY <3>3, TextFacts
    <3>5. \A j \in 1..(end - c) : c + j \in (start + 2)..end
      BY <2>2, <3>1, <3>2
    <3>6. \A j \in DOMAIN name : name[j] \in NameChars
      BY <2>10, <3>3, <3>4, <3>5
    <3>7. name[1] # Dot
      BY <2>10, <3>2, <3>3
    <3>8. name # <<>>
      BY <3>2, <3>4
    <3>9. QED
      BY <3>6, <3>7, <3>8 DEF IsName
  <2>16. [at |-> end + 1, segs |-> Append(before, Var(name))] \in Expression(text, s, start, end)
    <3> HIDE DEF literal, name, before
    <3>1. QED
      BY <2>13, <2>14, <2>15 DEF Expression, literal, name, before
  <2> HIDE DEF before, name
  <2>17. [at |-> end + 1, segs |-> Append(before, Var(name))] \in Round(text, s)
    <3> DEFINE e == [at |-> end + 1, segs |-> Append(before, Var(name))]
    <3> HIDE DEF e
    <3>1. start \in Find(<<LBrace>>, text, s.at)
      BY <1>1, <2>1, Zenon
    <3>2. e \in Expression(text, s, start, end)
      BY <2>16 DEF e
    <3>3. e \in Round(text, s)
      <4> DEFINE Ends(k) == UNION {Expression(text, s, k, j) : j \in Find(<<RBrace>>, text, k + 1)}
      <4>1. e \in Ends(start)
        BY <2>11, <3>2
      <4> HIDE DEF Ends
      <4>2. e \in UNION {Ends(k) : k \in Find(<<LBrace>>, text, s.at)}
        BY <3>1, <4>1
      <4>3. QED
        BY <1>3, <4>2 DEF Round, Ends
    <3>4. QED
      BY <3>3 DEF e
  <2>18. QED
    BY <2>17
<1>4. QED
  BY <1>2, <1>3

\* Nor does the end of a text that is well formed.
LEMMA FinishEnds ==
    ASSUME NEW text \in Texts, WellFormed(text), NEW s, ReadTo(text, s),
           Find(<<LBrace>>, text, s.at) = {}
    PROVE  Finish(text, s) # {}
<1>1. PICK l \in Nat, a \in 0..Len(text) :
         l = Len(text) /\ a = s.at /\ DOMAIN text = 1..l
  BY TextFacts DEF States, ReadTo
<1> DEFINE tail == SubSeq(text, s.at + 1, Len(text))
<1>2. Len(tail) = l - a /\ \A i \in 1..(l - a) : tail[i] = text[a + i]
  <2>1. Len(text) \in a..Len(text)
    BY <1>1
  <2>2. /\ Len(SubSeq(text, a + 1, Len(text))) = Len(text) - a
        /\ \A i \in 1..(Len(text) - a) : SubSeq(text, a + 1, Len(text))[i] = text[a + i]
    BY <2>1, PartTyped
  <2>3. tail = SubSeq(text, a + 1, Len(text))
    BY <1>1, Zenon
  <2> HIDE DEF tail
  <2>4. QED
    BY <1>1, <2>2, <2>3, Zenon
<1>3. ASSUME NEW i \in 1..(l - a), tail[i] = RBrace
      PROVE  FALSE
  <2>1. a + i \in (a + 1)..Len(text) /\ a + i \in 1..l
    BY <1>1
  <2>2. Brace(text, a + i)
    BY <1>1, <1>2, <1>3, <2>1 DEF Brace
  <2>3. PICK b \in (a + 1)..(a + i) : Brace(text, b) /\ \A k \in (a + 1)..(b - 1) : ~Brace(text, k)
    BY <2>1, <2>2, NextBrace
  <2>4. b \in (a + 1)..Len(text)
    BY <1>1, <2>1
  <2>5. text[b] = LBrace
    BY <1>1, <2>3, <2>4, NextOpens
  <2>6. text[b] # LBrace
    BY <1>1, <2>4, FindChar, Braces
  <2>7. QED
    BY <2>5, <2>6
<1>4. ~Contains(tail, RBrace)
  BY <1>2, <1>3 DEF Contains
<1> HIDE DEF tail
<1>5. QED
  BY <1>4 DEF Finish, tail

\* A text that is well formed compiles: no round fails, and neither does the end.
THEOREM CompileComplete ==
    ASSUME NEW text \in Texts, WellFormed(text)
    PROVE  Compile(text) # {}
<1> DEFINE N == Len(text)
<1>1. N \in Nat
  BY TextFacts
<1>2. PICK f : Compiles(f, text)
  BY CompileLoop
<1> DEFINE S == {n \in 0..N : \E s \in f[n] : ReadTo(text, s)}
<1>3. 0 \in S
  BY <1>1, <1>2, LoopStarts DEF Compiles
<1>4. ASSUME NEW n \in 1..N, n - 1 \in S
      PROVE  n \in S
  <2>1. PICK q \in f[n - 1] : ReadTo(text, q)
    BY <1>4
  <2>2. PICK r : r \in Round(text, q)
    BY <2>1, RoundGoesOn
  <2>3. r \in f[n]
    BY <1>2, <2>2 DEF Compiles
  <2>4. ReadTo(text, r) /\ n \in 0..N
    BY <1>1, <2>1, <2>2, RoundReads
  <2>5. QED
    BY <2>3, <2>4
<1>5. N \in S
  <2> HIDE DEF S
  <2>1. N \in 0..N
    BY <1>1
  <2>2. QED
    BY <1>1, <1>3, <1>4, <2>1, UpTo
<1>6. PICK s \in f[N] : ReadTo(text, s)
  BY <1>5
<1>7. Find(<<LBrace>>, text, s.at) = {}
  BY <1>2, <1>6, LoopReads
<1>8. Finish(text, s) # {}
  BY <1>6, <1>7, FinishEnds
<1>9. QED
  BY <1>2, <1>6, <1>8 DEF Compiles

-----------------------------------------------------------------------------
(* A URI built from a template is read as it was built.                    *)

\* A text that follows is found where it is looked for.
LEMMA LiteralHere ==
    ASSUME NEW s \in Texts, NEW at \in 0..Len(s), NEW e \in at..Len(s)
    PROVE  LET lit == SubSeq(s, at + 1, e) IN
           Occurrences(lit, s, at) \cap {at} = {at} /\ at + Len(lit) = e
<1>1. PICK l \in Nat : l = Len(s)
  BY TextFacts
<1>2. PICK lit \in Texts : lit = SubSeq(s, at + 1, e) /\ Len(lit) = e - at
  BY PartTyped
<1>3. at + Len(lit) = e /\ at \in at..(Len(s) - Len(lit))
  BY <1>1, <1>2
<1>4. at \in Occurrences(lit, s, at)
  BY <1>2, <1>3 DEF Occurrences
<1>5. QED
  BY <1>2, <1>3, <1>4

\* A text is first where it begins, if its first character does not come before.
LEMMA FindAfter ==
    ASSUME NEW lit \in Texts, lit # <<>>, NEW s \in Texts,
           NEW at \in 0..Len(s), NEW k \in at..Len(s), NEW e \in k..Len(s),
           SubSeq(s, k + 1, e) = lit, \A i \in (at + 1)..k : s[i] # lit[1]
    PROVE  Find(lit, s, at) = {k}
<1>1. PICK l \in Nat, m \in Nat : l = Len(s) /\ m = Len(lit)
  BY TextFacts
<1>2. k \in 0..Len(s) /\ k \in Nat
  BY <1>1
<1>3. m = e - k /\ e = k + m
  <2>1. Len(SubSeq(s, k + 1, e)) = e - k
    BY <1>2, PartTyped
  <2>2. QED
    BY <1>1, <1>2, <2>1
<1>4. m # 0
  BY <1>1, EmptySeq DEF Texts
<1>5. k \in Occurrences(lit, s, at)
  BY <1>1, <1>3 DEF Occurrences
<1>6. ASSUME NEW n \in Occurrences(lit, s, at)
      PROVE  n \in Int /\ k <= n
  <2>1. PICK j \in at..(l - m) : j = n /\ SubSeq(s, j + 1, j + m) = lit
    BY <1>1 DEF Occurrences
  <2>2. j \in 0..Len(s) /\ j + m \in j..Len(s) /\ 1 \in 1..((j + m) - j)
    BY <1>1, <1>4, <2>1
  <2>3. lit[1] = s[j + 1]
    BY <2>1, <2>2, PartTyped
  <2>4. ~(j + 1 \in (at + 1)..k)
    BY <2>3
  <2>5. QED
    BY <1>1, <1>2, <2>1, <2>4
<1>7. ASSUME NEW j \in Find(lit, s, at)
      PROVE  j = k
  <2>1. j \in Occurrences(lit, s, at) /\ j <= k
    BY <1>5 DEF Find
  <2>2. QED
    BY <1>2, <1>6, <2>1
<1>8. k \in Find(lit, s, at)
  BY <1>5, <1>6 DEF Find
<1>9. QED
  BY <1>7, <1>8

\* What is read after n segments: their values.
Back(segs, args, p, n) == [at |-> p[n], args |-> [v \in Names(segs, n) |-> args[v]]]

\* A segment takes its own value: a literal is there, and the literal behind a variable
\* is not found earlier, since its first character is in no value.
LEMMA TakesBack ==
    ASSUME NEW segs \in Seq(Segments), Alternates(segs), NEW uri \in Texts, NEW args \in Bindings,
           DOMAIN args = Variables(segs),
           \A v \in Variables(segs) : Range(args[v]) \cap LiteralChars(segs) = {},
           NEW p, Cuts(p, Len(segs), Filled(segs, args), uri), p[Len(segs)] = Len(uri),
           NEW n \in 1..Len(segs)
    PROVE  Take(segs, uri, n, Back(segs, args, p, n - 1)) = {Back(segs, args, p, n)}
<1>1. PICK N \in Nat : N = Len(segs) /\ DOMAIN segs = 1..N /\ n \in 1..N
  BY SegmentFacts
<1>2. PICK l \in Nat, a \in 0..Len(uri), e \in 0..Len(uri) :
         /\ l = Len(uri) /\ a = p[n - 1] /\ e = p[n] /\ e \in a..Len(uri)
         /\ SubSeq(uri, a + 1, e) = Filled(segs, args)[n]
  <2>1. n - 1 \in 0..Len(segs) /\ n \in 0..Len(segs)
    BY <1>1
  <2>2. p[n - 1] \in 0..Len(uri) /\ p[n] \in 0..Len(uri) /\ p[n - 1] <= p[n]
        /\ SubSeq(uri, p[n - 1] + 1, p[n]) = Filled(segs, args)[n]
    BY <2>1 DEF Cuts
  <2>3. PICK l \in Nat : l = Len(uri)
    BY TextFacts
  <2>4. p[n] \in p[n - 1]..Len(uri)
    BY <2>2, <2>3
  <2>5. QED
    BY <2>2, <2>3, <2>4
<1>3. segs[n].kind \in {"literal", "variable"} /\ segs[n].text \in Texts
  BY SegmentFacts
<1> DEFINE s == Back(segs, args, p, n - 1)
           t == Back(segs, args, p, n)
<1>4. s.at = a /\ s.args = [v \in Names(segs, n - 1) |-> args[v]] /\ t.at = e
  BY <1>2 DEF Back
<1>5. CASE segs[n].kind = "literal"
  <2>1. SubSeq(uri, a + 1, e) = segs[n].text
    BY <1>1, <1>2, <1>5 DEF Filled
  <2>2. Occurrences(segs[n].text, uri, a) \cap {a} = {a} /\ a + Len(segs[n].text) = e
    <3>1. e \in a..Len(uri)
      BY <1>2
    <3>2. QED
      <4>1. /\ Occurrences(SubSeq(uri, a + 1, e), uri, a) \cap {a} = {a}
            /\ a + Len(SubSeq(uri, a + 1, e)) = e
        BY <3>1, LiteralHere
      <4>2. QED
        BY <2>1, <4>1, Zenon
  <2>3. Names(segs, n) = Names(segs, n - 1)
    <3>1. \A i \in 1..n : i \in 1..(n - 1) \/ i = n
      BY <1>1
    <3>2. \A i \in 1..(n - 1) : i \in 1..n
      BY <1>1
    <3>3. QED
      BY <1>5, <3>1, <3>2 DEF Names
  <2>4. t = [at |-> e, args |-> s.args]
    BY <1>2, <1>4, <2>3 DEF Back
  <2> HIDE DEF s, t
  <2>5. Take(segs, uri, n, s) = {[at |-> k + Len(segs[n].text), args |-> s.args] : k \in {a}}
    BY <1>4, <1>5, <2>2 DEF Take
  <2>6. Take(segs, uri, n, s) = {[at |-> e, args |-> s.args]}
    BY <2>2, <2>5
  <2>7. QED
    BY <2>4, <2>6 DEF s, t
<1>6. CASE segs[n].kind = "variable"
  <2> DEFINE name == segs[n].text
             ends == IF n = Len(segs) THEN {Len(uri)}
                     ELSE IF segs[n + 1].kind = "variable" THEN {}
                     ELSE Find(segs[n + 1].text, uri, s.at)
  <2>1. SubSeq(uri, a + 1, e) = args[name]
    BY <1>1, <1>2, <1>6 DEF Filled
  <2>2. name \in Variables(segs) /\ name \in Names(segs, n)
    <3>1. n \in DOMAIN segs /\ n \in 1..n
      BY <1>1
    <3>2. QED
      BY <1>6, <3>1 DEF Variables, Names
  <2>3. ends = {e}
    <3>1. CASE n = Len(segs)
      BY <1>2, <3>1
    <3>2. CASE n # Len(segs)
      <4>1. n \in 1..(Len(segs) - 1) /\ n + 1 \in 1..Len(segs) /\ (n + 1) - 1 = n
        BY <1>1, <3>2
      <4>2. segs[n + 1].kind = "literal" /\ segs[n + 1].text # <<>> /\ segs[n + 1].text \in Texts
        BY <1>6, <4>1, SegmentFacts DEF Alternates
      <4>3. PICK c \in 0..Len(uri) :
               /\ c = p[n + 1] /\ e <= c
               /\ SubSeq(uri, e + 1, c) = segs[n + 1].text
        <5>1. n + 1 \in 0..Len(segs)
          BY <1>1, <4>1
        <5>2. p[n + 1] \in 0..Len(uri) /\ p[n] <= p[n + 1]
              /\ SubSeq(uri, p[n] + 1, p[n + 1]) = Filled(segs, args)[n + 1]
          BY <4>1, <5>1 DEF Cuts
        <5>3. Filled(segs, args)[n + 1] = segs[n + 1].text
          BY <1>1, <4>1, <4>2 DEF Filled
        <5>4. QED
          BY <1>2, <5>2, <5>3
      <4>4. c \in e..Len(uri)
        BY <1>2, <4>3
      <4>5. PICK lit \in Texts : lit = segs[n + 1].text
        BY <4>2
      <4>6. lit[1] \in LiteralChars(segs)
        <5>1. 1 \in DOMAIN lit
          <6>1. Len(lit) \in Nat /\ DOMAIN lit = 1..Len(lit) /\ Len(lit) # 0
            BY <4>2, <4>5, TextFacts, EmptySeq DEF Texts
          <6>2. QED
            BY <6>1
        <5>2. lit[1] \in Range(segs[n + 1].text)
          BY <4>5, <5>1 DEF Range
        <5>3. n + 1 \in DOMAIN segs
          BY <1>1, <4>1
        <5>4. QED
          BY <4>2, <5>2, <5>3 DEF LiteralChars
      <4>7. ASSUME NEW i \in (a + 1)..e
            PROVE  uri[i] # lit[1]
        <5>1. PICK j \in 1..(e - a) : i = a + j
          <6>1. i - a \in 1..(e - a) /\ i = a + (i - a)
            BY <1>2, SMTT(30)
          <6>2. QED
            BY <6>1
        <5>2. /\ Len(SubSeq(uri, a + 1, e)) = e - a /\ SubSeq(uri, a + 1, e) \in Texts
              /\ SubSeq(uri, a + 1, e)[j] = uri[a + j]
          BY PartTyped
        <5>3. j \in DOMAIN args[name] /\ args[name][j] = uri[i]
          BY <2>1, <5>1, <5>2, TextFacts
        <5>4. uri[i] \in Range(args[name])
          BY <5>3 DEF Range
        <5>5. QED
          BY <2>2, <4>6, <5>4
      <4>8. Find(lit, uri, a) = {e}
        <5>1. e \in a..Len(uri)
          BY <1>2
        <5>2. lit # <<>> /\ SubSeq(uri, e + 1, c) = lit
          BY <4>2, <4>3, <4>5
        <5>3. QED
          BY <4>4, <4>7, <5>1, <5>2, FindAfter, SMTT(40)
      <4>9. QED
        BY <1>4, <3>2, <4>2, <4>5, <4>8
    <3>3. QED
      BY <3>1, <3>2
  <2>4. Bind(s.args, name, args[name]) = {t.args}
    <3>1. Names(segs, n) = Names(segs, n - 1) \cup {name}
      <4>1. \A i \in 1..n : i \in 1..(n - 1) \/ i = n
        BY <1>1
      <4>2. \A i \in 1..(n - 1) : i \in 1..n
        BY <1>1
      <4>3. n \in 1..n
        BY <1>1
      <4>4. QED
        BY <1>6, <4>1, <4>2, <4>3 DEF Names
    <3>2. PICK M : M = Names(segs, n - 1)
      OBVIOUS
    <3>3. s.args = [v \in M |-> args[v]] /\ t.args = [v \in M \cup {name} |-> args[v]]
      BY <1>4, <3>1, <3>2 DEF Back
    <3>4. Put([v \in M |-> args[v]], name, args[name]) = [v \in M \cup {name} |-> args[v]]
      BY DEF Put
    <3> HIDE DEF s, t, name
    <3>5. QED
      BY <3>3, <3>4 DEF Bind
  <2>5. t = [at |-> e, args |-> t.args]
    BY <1>2 DEF Back
  <2> HIDE DEF s, t, name, ends
  <2>6. Take(segs, uri, n, s)
          = UNION {{[at |-> end, args |-> bound] :
                    bound \in Bind(s.args, name, SubSeq(uri, s.at + 1, end))} : end \in ends}
    BY <1>6 DEF Take, name, ends
  <2>7. Take(segs, uri, n, s)
          = {[at |-> e, args |-> bound] : bound \in Bind(s.args, name, SubSeq(uri, s.at + 1, e))}
    BY <2>3, <2>6
  <2>8. Take(segs, uri, n, s) = {[at |-> e, args |-> bound] : bound \in {t.args}}
    BY <1>4, <2>1, <2>4, <2>7
  <2>9. QED
    BY <2>5, <2>8 DEF s, t
<1>7. QED
  BY <1>3, <1>5, <1>6

\* Values that share no character with a template's text are captured from its URI.
THEOREM CaptureGivesBack ==
    ASSUME NEW segs \in Seq(Segments), Alternates(segs), NEW args \in Bindings,
           DOMAIN args = Variables(segs),
           \A v \in Variables(segs) : Range(args[v]) \cap LiteralChars(segs) = {}
    PROVE  /\ Substitute(segs, args) \in Texts
           /\ Capture(segs, Substitute(segs, args)) = {args}
<1> DEFINE uri == Substitute(segs, args)
           N == Len(segs)
<1>1. N \in Nat
  BY SegmentFacts
<1>2. uri = FlattenSeq(Filled(segs, args))
  BY DEF Substitute, Filled
<1>3. Filled(segs, args) \in Seq(Texts) /\ Len(Filled(segs, args)) = N
  BY FilledTyped
<1>4. uri \in Texts
  BY <1>2, <1>3, FlattenCuts
<1>5. PICK p : Cuts(p, N, Filled(segs, args), uri) /\ p[N] = Len(uri)
  BY <1>2, <1>3, FlattenCuts
<1> HIDE DEF uri
<1>6. PICK f : Captures(f, segs, uri)
  BY <1>4, CaptureLoop
<1> DEFINE S == {n \in 0..N : f[n] = {Back(segs, args, p, n)}}
<1>7. 0 \in S
  <2>1. Names(segs, 0) = {}
    BY DEF Names
  <2>2. [v \in {} |-> args[v]] = <<>>
    OBVIOUS
  <2>3. Back(segs, args, p, 0) = [at |-> 0, args |-> <<>>]
    BY <1>5, <2>1, <2>2 DEF Back, Cuts
  <2>4. QED
    BY <1>1, <1>6, <2>3 DEF Captures
<1>8. ASSUME NEW n \in 1..N, n - 1 \in S
      PROVE  n \in S
  <2>1. f[n] = UNION {Take(segs, uri, n, s) : s \in {Back(segs, args, p, n - 1)}}
    BY <1>6, <1>8 DEF Captures
  <2>2. Take(segs, uri, n, Back(segs, args, p, n - 1)) = {Back(segs, args, p, n)}
    BY <1>4, <1>5, TakesBack
  <2>3. f[n] = {Back(segs, args, p, n)}
    BY <2>1, <2>2
  <2>4. QED
    BY <1>1, <2>3
<1>9. f[N] = {Back(segs, args, p, N)}
  <2>1. N \in 0..N
    BY <1>1
  <2>2. N \in S
    <3> HIDE DEF S
    <3>1. QED
      BY <1>1, <1>7, <1>8, <2>1, UpTo
  <2>3. QED
    BY <2>2
<1>10. [v \in Names(segs, N) |-> args[v]] = args
  BY VariablesNamed DEF Bindings
<1>11. Back(segs, args, p, N).at = Len(uri) /\ Back(segs, args, p, N).args = args
  BY <1>5, <1>10 DEF Back
<1>12. Capture(segs, uri) = {s.args : s \in {e \in {Back(segs, args, p, N)} : e.at = Len(uri)}}
  BY <1>6, <1>9 DEF Captures
<1>13. Capture(segs, uri) = {args}
  BY <1>11, <1>12
<1>14. QED
  BY <1>4, <1>13 DEF uri

-----------------------------------------------------------------------------
(* There is no choice in compile and capture.                              *)

AtMostOne(S) == \A x, y \in S : x = y

\* The first occurrence is one position.
LEMMA FindOne ==
    ASSUME NEW lit \in Texts, NEW s \in Texts, NEW at \in Nat
    PROVE  AtMostOne(Find(lit, s, at))
<1> SUFFICES ASSUME NEW x \in Find(lit, s, at), NEW y \in Find(lit, s, at)
             PROVE  x = y
  BY DEF AtMostOne
<1>1. x \in at..Len(s) /\ y \in at..Len(s) /\ Len(s) \in Nat
  BY FindTyped, TextFacts
<1>2. x <= y /\ y <= x
  BY DEF Find
<1>3. QED
  BY <1>1, <1>2

\* A round has one outcome at most: an expression adds its segments, or is an error.
LEMMA RoundOne ==
    ASSUME NEW text \in Texts, NEW s \in States(text)
    PROVE  AtMostOne(Round(text, s))
<1> SUFFICES ASSUME NEW x \in Round(text, s), NEW y \in Round(text, s)
             PROVE  x = y
  BY DEF AtMostOne
<1>1. CASE Find(<<LBrace>>, text, s.at) = {}
  BY <1>1 DEF Round
<1>2. CASE Find(<<LBrace>>, text, s.at) # {}
  <2>1. \A r \in Round(text, s) :
           \E start \in Nat, end \in Nat :
              /\ start \in Find(<<LBrace>>, text, s.at) /\ end \in Find(<<RBrace>>, text, start + 1)
              /\ r \in Expression(text, s, start, end)
    BY <1>2, RoundShape
  <2>2. PICK i \in Nat, j \in Nat :
           /\ i \in Find(<<LBrace>>, text, s.at) /\ j \in Find(<<RBrace>>, text, i + 1)
           /\ x \in Expression(text, s, i, j)
    BY <2>1
  <2>3. PICK k \in Nat, m \in Nat :
           /\ k \in Find(<<LBrace>>, text, s.at) /\ m \in Find(<<RBrace>>, text, k + 1)
           /\ y \in Expression(text, s, k, m)
    BY <2>1
  <2>4. <<LBrace>> \in Texts /\ <<RBrace>> \in Texts
    BY Braces DEF Texts
  <2>5. s.at \in Nat
    BY TextFacts DEF States
  <2>6. i = k
    BY <2>2, <2>3, <2>4, <2>5, FindOne DEF AtMostOne
  <2>7. i + 1 \in Nat
    OBVIOUS
  <2>8. j = m
    BY <2>2, <2>3, <2>4, <2>6, <2>7, FindOne DEF AtMostOne
  <2>9. y \in Expression(text, s, i, j)
    BY <2>3, <2>6, <2>8
  <2>10. QED
    <3> DEFINE literal  == SubSeq(text, s.at + 1, i)
               name     == SubSeq(text, i + 2, j)
               adjacent == literal = <<>> /\ s.segs # <<>> /\ Last(s.segs).kind = "variable"
               before   == IF literal = <<>> THEN s.segs ELSE Append(s.segs, Lit(literal))
               refused  == Contains(literal, RBrace) \/ adjacent \/ ~IsName(name)
               read     == [at |-> j + 1, segs |-> Append(before, Var(name))]
    <3>1. Expression(text, s, i, j) = IF refused THEN {} ELSE {read}
      BY DEF Expression
    <3> HIDE DEF refused, read
    <3>2. QED
      BY <2>2, <2>9, <3>1
<1>3. QED
  BY <1>1, <1>2

\* compile has one result at most: the matcher that the registry chooses is the one
\* that the code returns.
THEOREM CompileOne ==
    ASSUME NEW text \in Texts
    PROVE  AtMostOne(Compile(text))
<1> DEFINE N == Len(text)
<1>1. N \in Nat
  BY TextFacts
<1>2. PICK f : Compiles(f, text)
  BY CompileLoop
<1> DEFINE S == {n \in 0..N : AtMostOne(f[n])}
<1>3. 0 \in S
  BY <1>1, <1>2 DEF Compiles, AtMostOne
<1>4. ASSUME NEW n \in 1..N, n - 1 \in S
      PROVE  n \in S
  <2>1. f[n - 1] \subseteq States(text)
    BY <1>1, <1>2 DEF Compiles
  <2>2. ASSUME NEW x \in f[n], NEW y \in f[n]
        PROVE  x = y
    <3>1. PICK q \in f[n - 1] : x \in Round(text, q)
      BY <1>2 DEF Compiles
    <3>2. PICK r \in f[n - 1] : y \in Round(text, r)
      BY <1>2 DEF Compiles
    <3>3. q = r
      BY <1>4, <3>1, <3>2 DEF AtMostOne
    <3>4. AtMostOne(Round(text, q))
      BY <2>1, RoundOne
    <3>5. QED
      BY <3>1, <3>2, <3>3, <3>4 DEF AtMostOne
  <2>3. AtMostOne(f[n])
    BY <2>2 DEF AtMostOne
  <2>4. QED
    BY <1>1, <2>3
<1>5. AtMostOne(f[N])
  <2>1. N \in 0..N
    BY <1>1
  <2>2. N \in S
    <3> HIDE DEF S
    <3>1. QED
      BY <1>1, <1>3, <1>4, <2>1, UpTo
  <2>3. QED
    BY <2>2
<1> SUFFICES ASSUME NEW x \in Compile(text), NEW y \in Compile(text)
             PROVE  x = y
  BY DEF AtMostOne
<1>6. PICK s \in f[N] : x \in Finish(text, s) /\ y \in Finish(text, s)
  <2>1. PICK q \in f[N] : x \in Finish(text, q)
    BY <1>2 DEF Compiles
  <2>2. PICK r \in f[N] : y \in Finish(text, r)
    BY <1>2 DEF Compiles
  <2>3. QED
    BY <1>5, <2>1, <2>2 DEF AtMostOne
<1>7. QED
  <2> DEFINE tail    == SubSeq(text, s.at + 1, Len(text))
             matcher == IF tail # <<>> \/ s.segs = <<>> THEN Append(s.segs, Lit(tail)) ELSE s.segs
             refused == Contains(tail, RBrace)
  <2>1. Finish(text, s) = IF refused THEN {} ELSE {matcher}
    BY DEF Finish
  <2> HIDE DEF refused, matcher
  <2>2. QED
    BY <1>6, <2>1

\* A segment is taken in one way at most.
LEMMA TakeOne ==
    ASSUME NEW segs \in Seq(Segments), NEW uri \in Texts, NEW n \in 1..Len(segs),
           NEW s \in Readings(uri)
    PROVE  AtMostOne(Take(segs, uri, n, s))
<1> SUFFICES ASSUME NEW x \in Take(segs, uri, n, s), NEW y \in Take(segs, uri, n, s)
             PROVE  x = y
  BY DEF AtMostOne
<1>1. CASE segs[n].kind = "literal"
  BY <1>1 DEF Take
<1>2. CASE segs[n].kind # "literal"
  <2> DEFINE ends == IF n = Len(segs) THEN {Len(uri)}
                     ELSE IF segs[n + 1].kind = "variable" THEN {}
                     ELSE Find(segs[n + 1].text, uri, s.at)
             bound(end) == Bind(s.args, segs[n].text, SubSeq(uri, s.at + 1, end))
  <2>1. AtMostOne(ends)
    <3>1. CASE n = Len(segs)
      BY <3>1 DEF AtMostOne
    <3>2. CASE n # Len(segs)
      <4>1. n + 1 \in 1..Len(segs)
        BY <3>2, SegmentFacts
      <4>2. segs[n + 1].text \in Texts /\ s.at \in Nat
        BY <4>1, SegmentFacts, TextFacts DEF Readings
      <4>3. AtMostOne(Find(segs[n + 1].text, uri, s.at))
        BY <4>2, FindOne
      <4>4. QED
        BY <3>2, <4>3 DEF AtMostOne
    <3>3. QED
      BY <3>1, <3>2
  <2>2. \A end : AtMostOne(bound(end))
    BY DEF AtMostOne, Bind
  <2> HIDE DEF ends, bound
  <2>3. Take(segs, uri, n, s) = UNION {{[at |-> end, args |-> b] : b \in bound(end)} : end \in ends}
    BY <1>2 DEF Take, ends, bound
  <2>4. PICK i \in ends : \E b \in bound(i) : x = [at |-> i, args |-> b]
    BY <2>3
  <2>5. PICK j \in ends : \E b \in bound(j) : y = [at |-> j, args |-> b]
    BY <2>3
  <2>6. i = j
    BY <2>1 DEF AtMostOne
  <2>7. QED
    BY <2>2, <2>4, <2>5, <2>6 DEF AtMostOne
<1>3. QED
  BY <1>1, <1>2

\* capture has one result at most: the Option of the code.
THEOREM CaptureOne ==
    ASSUME NEW segs \in Seq(Segments), NEW uri \in Texts
    PROVE  AtMostOne(Capture(segs, uri))
<1> DEFINE N == Len(segs)
<1>1. N \in Nat
  BY SegmentFacts
<1>2. PICK f : Captures(f, segs, uri)
  BY CaptureLoop
<1> DEFINE S == {n \in 0..N : AtMostOne(f[n])}
<1>3. 0 \in S
  BY <1>1, <1>2 DEF Captures, AtMostOne
<1>4. ASSUME NEW n \in 1..N, n - 1 \in S
      PROVE  n \in S
  <2>1. f[n - 1] \subseteq Readings(uri)
    BY <1>1, <1>2 DEF Captures
  <2>2. ASSUME NEW x \in f[n], NEW y \in f[n]
        PROVE  x = y
    <3>1. PICK q \in f[n - 1] : x \in Take(segs, uri, n, q)
      BY <1>2 DEF Captures
    <3>2. PICK r \in f[n - 1] : y \in Take(segs, uri, n, r)
      BY <1>2 DEF Captures
    <3>3. q = r
      BY <1>4, <3>1, <3>2 DEF AtMostOne
    <3>4. AtMostOne(Take(segs, uri, n, q))
      BY <2>1, TakeOne
    <3>5. QED
      BY <3>1, <3>2, <3>3, <3>4 DEF AtMostOne
  <2>3. AtMostOne(f[n])
    BY <2>2 DEF AtMostOne
  <2>4. QED
    BY <1>1, <2>3
<1>5. AtMostOne(f[N])
  <2>1. N \in 0..N
    BY <1>1
  <2>2. N \in S
    <3> HIDE DEF S
    <3>1. QED
      BY <1>1, <1>3, <1>4, <2>1, UpTo
  <2>3. QED
    BY <2>2
<1>6. Capture(segs, uri) = {s.args : s \in {e \in f[N] : e.at = Len(uri)}}
  BY <1>2 DEF Captures
<1>7. QED
  BY <1>5, <1>6 DEF AtMostOne

-----------------------------------------------------------------------------
(* The registry.                                                           *)

\* What is registered was compiled; the last call failed if a text of it did not, and
\* added the texts before that one.
IInv ==
    /\ DOMAIN templates \subseteq Texts
    /\ IsFiniteSet(DOMAIN templates)
    /\ \A t \in DOMAIN templates : templates[t] \in Compile(t)
    /\ last.batch \in Seq(Texts)
    /\ last.ok <=> Prefix(last.batch) = DOMAIN last.batch
    /\ DOMAIN templates = last.before \cup {last.batch[n] : n \in Prefix(last.batch)}

\* Nothing is registered, and no call has failed.
LEMMA IInvInit == Init => IInv
<1> SUFFICES ASSUME Init
             PROVE  IInv
  OBVIOUS
<1>1. DOMAIN templates = {}
  BY DEF Init
<1>2. last.batch = <<>> /\ last.ok = TRUE /\ last.before = {}
  BY DEF Init
<1>3. <<>> \in Seq(Texts) /\ DOMAIN <<>> = {}
  OBVIOUS
<1>4. Prefix(<<>>) = {}
  BY <1>3 DEF Prefix
<1>5. QED
  BY <1>1, <1>2, <1>3, <1>4, FS_EmptySet DEF IInv

\* A batch adds texts that compile, finitely many; the other operations take away.
LEMMA IInvStep == IInv /\ [Next]_vars => IInv'
<1> SUFFICES ASSUME IInv, [Next]_vars
             PROVE  IInv'
  OBVIOUS
<1> USE DEF IInv
<1>1. ASSUME NEW batch \in Batches, RegisterTemplates(batch)
      PROVE  IInv'
  <2> DEFINE done == {batch[n] : n \in Prefix(batch)}
  <2>1. batch \in Seq(Texts) /\ Len(batch) \in Nat /\ DOMAIN batch = 1..Len(batch)
        /\ \A n \in 1..Len(batch) : batch[n] \in Texts
    <3>1. batch \in Seq(Texts)
      BY Alphabet DEF Texts
    <3>2. QED
      BY <3>1, LenProperties, ElementOfSeq
  <2>2. /\ templates' = [t \in DOMAIN templates \cup done |->
                           IF t \in done THEN CHOOSE m \in Compile(t) : TRUE ELSE templates[t]]
        /\ last' = [batch |-> batch, ok |-> Prefix(batch) = DOMAIN batch,
                    before |-> DOMAIN templates]
    BY <1>1 DEF RegisterTemplates
  <2>3. Prefix(batch) \subseteq 1..Len(batch)
    BY <2>1 DEF Prefix
  <2>4. done \subseteq Texts
    BY <2>1, <2>3
  <2>5. \A t \in done : Compile(t) # {}
    <3>1. \A n \in Prefix(batch) : n \in 1..n
      BY <2>1, <2>3
    <3>2. QED
      BY <3>1 DEF Prefix
  <2>6. IsFiniteSet(done)
    <3>1. IsFiniteSet(Prefix(batch))
      <4>1. IsFiniteSet(1..Len(batch))
        BY <2>1, FS_Interval
      <4>2. QED
        BY <2>3, <4>1, FS_Subset
    <3> DEFINE g == [n \in Prefix(batch) |-> batch[n]]
    <3>2. g \in Surjection(Prefix(batch), done)
      BY DEF Surjection
    <3>3. QED
      BY <3>1, <3>2, FS_Surjection
  <2> HIDE DEF done
  <2>7. DOMAIN templates' = DOMAIN templates \cup done
    BY <2>2
  <2>8. IsFiniteSet(DOMAIN templates')
    <3> DEFINE old == DOMAIN templates
    <3>1. IsFiniteSet(old)
      OBVIOUS
    <3> HIDE DEF old, IInv
    <3>2. IsFiniteSet(old \cup done)
      BY <2>6, <3>1, FS_Union
    <3>3. QED
      BY <2>7, <3>2 DEF old
  <2>9. \A t \in DOMAIN templates' : templates'[t] \in Compile(t)
    BY <2>2, <2>5, <2>7
  <2>10. /\ last'.batch = batch /\ last'.before = DOMAIN templates
         /\ last'.ok <=> Prefix(batch) = DOMAIN batch
    BY <2>2
  <2>11. Prefix(last.batch)' = Prefix(batch)
    BY <2>10 DEF Prefix
  <2>12. DOMAIN templates' = last'.before \cup {last'.batch[n] : n \in Prefix(last.batch)'}
    BY <2>7, <2>10, <2>11, Zenon DEF done
  <2>13. QED
    BY <2>1, <2>4, <2>7, <2>8, <2>9, <2>10, <2>11, <2>12
<1>2. ASSUME Forget
      PROVE  /\ last'.batch \in Seq(Texts)
             /\ last'.ok <=> Prefix(last.batch)' = DOMAIN last'.batch
             /\ DOMAIN templates' = last'.before \cup {last'.batch[n] : n \in Prefix(last.batch)'}
  <2>1. last'.batch = <<>> /\ last'.ok = TRUE /\ last'.before = DOMAIN templates'
    BY <1>2 DEF Forget
  <2>2. <<>> \in Seq(Texts) /\ DOMAIN <<>> = {}
    OBVIOUS
  <2>3. Prefix(last.batch)' = {}
    BY <2>1, <2>2 DEF Prefix
  <2>4. QED
    BY <2>1, <2>2, <2>3
<1>3. ASSUME NEW t \in DOMAIN templates, UnregisterTemplate(t)
      PROVE  IInv'
  <2>1. DOMAIN templates' = DOMAIN templates \ {t}
        /\ \A s \in DOMAIN templates' : templates'[s] = templates[s]
    BY <1>3 DEF UnregisterTemplate
  <2>2. IsFiniteSet(DOMAIN templates')
    BY <2>1, FS_Subset
  <2>3. QED
    BY <1>3, <1>2, <2>1, <2>2 DEF UnregisterTemplate
<1>4. CASE ClearTemplates
  <2>1. DOMAIN templates' = {}
    BY <1>4 DEF ClearTemplates
  <2>2. QED
    BY <1>4, <1>2, <2>1, FS_EmptySet DEF ClearTemplates
<1>5. CASE UNCHANGED <<templates, last>>
  <2>1. Prefix(last.batch)' = Prefix(last.batch)
    BY <1>5 DEF Prefix
  <2>2. QED
    BY <1>5, <2>1
<1>6. QED
  BY <1>1, <1>3, <1>4, <1>5
     DEF Next, vars, RegisterResource, UnregisterResource, ClearResources

\* IInv is an inductive invariant of the registry.
THEOREM Invariance == Spec => []IInv
<1>1. QED
  BY IInvInit, IInvStep, PTL DEF Spec

\* A matcher in the registry is the one that compile returns for its text.
THEOREM MatchersAreCompiled == Spec => []\A t \in DOMAIN templates : Compile(t) = {templates[t]}
<1>1. IInv => \A t \in DOMAIN templates : Compile(t) = {templates[t]}
  BY CompileOne DEF IInv, AtMostOne
<1>2. QED
  BY <1>1, Invariance, PTL

\* A matcher that is registered says what its text says, which is well formed.
LEMMA Registered ==
    ASSUME IInv, NEW t \in DOMAIN templates
    PROVE  /\ t \in Texts /\ WellFormed(t) /\ WrittenTo(t, templates[t], Len(t))
           /\ templates[t] \in Seq(Segments) /\ Alternates(templates[t])
<1>1. t \in Texts /\ templates[t] \in Compile(t)
  BY DEF IInv
<1>2. WellFormed(t) /\ WrittenTo(t, templates[t], Len(t))
  BY <1>1, CompileSound
<1>3. QED
  BY <1>1, <1>2 DEF WrittenTo

\* compile succeeds exactly for texts that are well formed, so that a batch ends at the
\* first that is not.
LEMMA ExactInvariant == IInv => CompileExact
<1> SUFFICES ASSUME IInv
             PROVE  CompileExact
  OBVIOUS
<1> DEFINE b == last.batch
<1>1. /\ b \in Seq(Texts) /\ Len(b) \in Nat /\ DOMAIN b = 1..Len(b)
      /\ \A n \in 1..Len(b) : b[n] \in Texts
  <2>1. b \in Seq(Texts)
    BY DEF IInv
  <2>2. QED
    BY <2>1, LenProperties, ElementOfSeq
<1>2. /\ last.ok <=> Prefix(b) = DOMAIN b
      /\ DOMAIN templates = last.before \cup {b[n] : n \in Prefix(b)}
  BY DEF IInv
<1> HIDE DEF b
<1>3. ASSUME NEW n \in 1..Len(b)
      PROVE  Compile(b[n]) # {} <=> WellFormed(b[n])
  <2>1. b[n] \in Texts
    BY <1>1
  <2>2. QED
    BY <2>1, CompileSound, CompileComplete
<1>4. Prefix(b) = {n \in DOMAIN b : \A m \in 1..n : WellFormed(b[m])}
  <2>1. \A n \in 1..Len(b) : \A m \in 1..n : m \in 1..Len(b)
    BY <1>1
  <2>2. QED
    BY <1>1, <1>3, <2>1 DEF Prefix
<1>5. \A t \in DOMAIN templates : WellFormed(t) /\ Unparse(templates[t]) = t
  BY Registered, WrittenUnparse
<1>6. QED
  BY <1>2, <1>4, <1>5 DEF CompileExact, b

\* register_resource_templates succeeds if and only if all of its templates are well
\* formed, and otherwise leaves those before the first that is not next to what was
\* registered before; every matcher in the registry says what its text says: for all
\* alphabets, batches and numbers of templates.
THEOREM CompileExactHolds == Spec => []CompileExact
<1>1. QED
  BY Invariance, ExactInvariant, PTL

\* Whatever is captured from any URI rebuilds it.
LEMMA SoundInvariant == IInv => CaptureSound
<1> SUFFICES ASSUME IInv, NEW t \in DOMAIN templates, NEW uri \in Uris,
                    NEW args \in Capture(templates[t], uri)
             PROVE  /\ DOMAIN args = Variables(templates[t])
                    /\ Substitute(templates[t], args) = uri
  BY DEF CaptureSound
<1>1. uri \in Texts
  BY Alphabet DEF Texts
<1>2. QED
  BY <1>1, Registered, CaptureRebuilds

\* The arguments captured from a URI name all variables of the template and rebuild the
\* URI, for all templates that are ever registered and all URIs.
THEOREM CaptureSoundHolds == Spec => []CaptureSound
<1>1. QED
  BY Invariance, SoundInvariant, PTL

\* A URI built from a template matches it, so the outcome depends on the others.
LEMMA FoundInvariant == IInv => BuiltIsFound
<1> SUFFICES ASSUME IInv, NEW t \in DOMAIN templates,
                    NEW args \in [Variables(templates[t]) ->
                                    {v \in Values : Range(v) \cap LiteralChars(templates[t]) = {}}]
             PROVE  /\ Capture(templates[t], Substitute(templates[t], args)) = {args}
                    /\ Resolve(Substitute(templates[t], args)) =
                          IF Substitute(templates[t], args) \in resources THEN "resource"
                          ELSE IF \E s \in DOMAIN templates \ {t} :
                                     Capture(templates[s], Substitute(templates[t], args)) # {}
                               THEN "ambiguous" ELSE "template"
  BY DEF BuiltIsFound
<1>1. PICK segs \in Seq(Segments) : segs = templates[t] /\ Alternates(segs)
  BY Registered
<1>2. Values \subseteq Texts
  BY Alphabet DEF Texts
<1>3. args \in Bindings /\ DOMAIN args = Variables(segs)
      /\ \A v \in Variables(segs) : Range(args[v]) \cap LiteralChars(segs) = {}
  <2>1. Variables(segs) \subseteq Texts
    BY SegmentFacts DEF Variables
  <2>2. args \in [Variables(segs) -> Texts]
    BY <1>1, <1>2
  <2>3. args \in Bindings
    BY <2>1, <2>2 DEF Bindings
  <2>4. QED
    BY <1>1, <2>3
<1> DEFINE uri == Substitute(segs, args)
<1>4. Capture(segs, uri) = {args}
  BY <1>1, <1>3, CaptureGivesBack
<1> HIDE DEF uri
<1>5. t \in Matches(uri) /\ Matches(uri) \subseteq DOMAIN templates
  BY <1>1, <1>4 DEF Matches
<1>6. IsFiniteSet(Matches(uri))
  BY <1>5, FS_Subset DEF IInv
<1>7. Resolve(uri) = IF uri \in resources THEN "resource"
                     ELSE IF \E s \in DOMAIN templates \ {t} : Capture(templates[s], uri) # {}
                          THEN "ambiguous" ELSE "template"
  <2>1. CASE uri \in resources
    BY <2>1 DEF Resolve
  <2>2. CASE /\ uri \notin resources
             /\ \E s \in DOMAIN templates \ {t} : Capture(templates[s], uri) # {}
    <3>1. PICK s \in Matches(uri) : s # t
      BY <2>2 DEF Matches
    <3>2. Cardinality(Matches(uri)) # 1
      <4>1. ASSUME Cardinality(Matches(uri)) = 1
            PROVE  FALSE
        <5>1. PICK x : Matches(uri) = {x}
          BY <1>6, <4>1, FS_Singleton
        <5>2. QED
          BY <1>5, <3>1, <5>1
      <4>2. QED
        BY <4>1
    <3>3. Resolve(uri) = "ambiguous"
      BY <1>5, <2>2, <3>2 DEF Resolve
    <3>4. QED
      BY <2>2, <3>3
  <2>3. CASE /\ uri \notin resources
             /\ ~\E s \in DOMAIN templates \ {t} : Capture(templates[s], uri) # {}
    <3>1. Matches(uri) = {t}
      BY <1>5, <2>3 DEF Matches
    <3>2. Cardinality(Matches(uri)) = 1
      BY <3>1, FS_Singleton
    <3>3. Resolve(uri) = "template"
      BY <1>5, <2>3, <3>2 DEF Resolve
    <3>4. QED
      BY <2>3, <3>3
  <2>4. QED
    BY <2>1, <2>2, <2>3
<1>8. QED
  BY <1>1, <1>4, <1>7 DEF uri

\* What a template promises its clients: a URI built from it is found, with the values
\* it was built from, or the client is told that more than one template claims it.
THEOREM BuiltIsFoundHolds == Spec => []BuiltIsFound
<1>1. QED
  BY Invariance, FoundInvariant, PTL

-----------------------------------------------------------------------------
(* The table of tasks.                                                     *)

\* An entry exists only while its handler is between the insertion and the end of
\* a call that did not fail; before the insertion nobody has seen the task.
Staged ==
    \A t \in Tasks :
        /\ t \in live => stage[t] \in {"created", "ready", "returned", "failing"}
        /\ stage[t] \in {"idle", "accepted"} => ~polled[t]

\* The part of TableMatchesAnswers that holds while the handler runs: unless the
\* table was swept since the insertion, the entry is there, and so is its token
\* from ReadToken on.
Unswept ==
    \A t \in Tasks :
        /\ stage[t] \in {"created", "ready", "returned"} /\ ~swept[t] => t \in live
        /\ stage[t] \in {"ready", "returned"} /\ ~swept[t] => hasToken[t]

\* Each part needs the ones before it.
Rest == Staged /\ Unswept /\ StatusMatchesResult /\ PolledTaskHasResult
TableInv == TasksTypeOK /\ Rest

USE DEF entryVars, Advance

\* A cancellation or a completion writes a status and the result that goes with it.
Final == {<<"cancelled", "cancelled">>, <<"completed", "ok">>, <<"failed", "error">>}

LEMMA Overwrites ==
    ASSUME NEW t \in Tasks, NEW code \in Codes, NEW body \in Bodies,
           CancelTask(t) \/ CompleteTask(t, code, body)
    PROVE  \E f \in Final : SetEntry(t, f[1], f[2])
  BY DEF CancelTask, CompleteTask, Final

\* One step keeps every variable in its type.
LEMMA TableTypes == TasksTypeOK /\ [TasksNext]_taskVars => TasksTypeOK'
<1> SUFFICES ASSUME TasksTypeOK, [TasksNext]_taskVars PROVE TasksTypeOK'
  OBVIOUS
<1> USE DEF TasksTypeOK
<1>1. ASSUME NEW t \in Tasks, Accept(t) \/ EmitTask(t) \/ EmitFails(t)
      PROVE  TasksTypeOK'
  BY <1>1 DEF Accept, EmitTask, EmitFails
<1>2. ASSUME NEW t \in Tasks, CreateEntry(t)
      PROVE  TasksTypeOK'
  BY <1>2 DEF CreateEntry
<1>3. ASSUME NEW t \in Tasks, ReadToken(t)
      PROVE  TasksTypeOK'
  BY <1>3 DEF ReadToken
<1>4. ASSUME NEW t \in Tasks, RemoveEntry(t)
      PROVE  TasksTypeOK'
  BY <1>4 DEF RemoveEntry
<1>5. ASSUME NEW t \in Tasks, NEW f \in Final, SetEntry(t, f[1], f[2])
      PROVE  TasksTypeOK'
  BY <1>5 DEF SetEntry, Final
<1>6. ASSUME NEW t \in Tasks, PollTask(t)
      PROVE  TasksTypeOK'
  <2>1. polled' \in [Tasks -> BOOLEAN]
    BY <1>6 DEF PollTask
  <2>2. QED
    BY <1>6, <2>1 DEF PollTask
<1>7. ASSUME NEW t \in Tasks, NEW s \in Statuses, SetTaskStatus(t, s)
      PROVE  TasksTypeOK'
  BY <1>7 DEF SetTaskStatus, Statuses
<1>8. CASE Start \/ StopClear \/ StopShutdown
  BY <1>8 DEF Start, StopClear, StopShutdown, Sweep
<1>9. CASE UNCHANGED taskVars
  BY <1>9 DEF taskVars
<1>10. QED
  BY <1>1, <1>2, <1>3, <1>4, <1>5, <1>6, <1>7, <1>8, <1>9, Overwrites
     DEF TasksNext, Codes, Bodies

\* A cancellation or a completion leaves where an entry is and what was seen of it
\* alone, and makes status and result agree.
LEMMA OverwriteStep ==
    ASSUME TableInv, NEW t \in Tasks, NEW f \in Final, SetEntry(t, f[1], f[2])
    PROVE  Rest'
<1> USE DEF TableInv, Rest, TasksTypeOK, SetEntry, Final
<1>1. Staged' /\ Unswept'
  BY DEF Staged, Unswept
<1>2. StatusMatchesResult'
  BY DEF StatusMatchesResult
<1>3. PolledTaskHasResult'
  BY DEF PolledTaskHasResult, HasResult
<1>4. QED
  BY <1>1, <1>2, <1>3

\* One step of a handler, a client or the 1C thread keeps the rest of TableInv.
LEMMA TableStep ==
    TableInv /\ [TasksNext]_taskVars => Rest'
<1> SUFFICES ASSUME TableInv, [TasksNext]_taskVars PROVE Rest'
  OBVIOUS
<1> USE DEF TableInv, Rest, TasksTypeOK, Staged, Unswept, StatusMatchesResult,
            PolledTaskHasResult, HasResult
<1>1. ASSUME NEW t \in Tasks, Accept(t) \/ EmitTask(t) \/ EmitFails(t)
      PROVE  Rest'
  BY <1>1 DEF Accept, EmitTask, EmitFails
<1>2. ASSUME NEW t \in Tasks, CreateEntry(t)
      PROVE  Rest'
  BY <1>2 DEF CreateEntry
<1>3. ASSUME NEW t \in Tasks, ReadToken(t)
      PROVE  Rest'
  BY <1>3 DEF ReadToken
<1>4. ASSUME NEW t \in Tasks, RemoveEntry(t)
      PROVE  Rest'
  BY <1>4 DEF RemoveEntry
<1>5. ASSUME NEW t \in Tasks, NEW f \in Final, SetEntry(t, f[1], f[2])
      PROVE  Rest'
  BY <1>5, OverwriteStep
<1>6. ASSUME NEW t \in Tasks, PollTask(t)
      PROVE  Rest'
  \* A final status that nobody forced comes with a result.
  <2>1. polled'[t] => polled[t] \/ HasResult(t)
    BY <1>6 DEF PollTask
  <2>2. \A u \in Tasks \ {t} : polled'[u] = polled[u]
    BY <1>6 DEF PollTask
  <2>3. polled'[t] \in BOOLEAN /\ t \in live
    BY <1>6 DEF PollTask
  <2>4. QED
    BY <1>6, <2>1, <2>2, <2>3 DEF PollTask
<1>7. ASSUME NEW t \in Tasks, NEW s \in Statuses, SetTaskStatus(t, s)
      PROVE  Rest'
  BY <1>7 DEF SetTaskStatus
<1>8. CASE Start \/ StopClear
  BY <1>8 DEF Start, StopClear, Sweep
<1>9. CASE StopShutdown
  BY <1>9 DEF StopShutdown
<1>10. CASE UNCHANGED taskVars
  BY <1>10 DEF taskVars
<1>11. QED
  BY <1>1, <1>2, <1>3, <1>4, <1>5, <1>6, <1>7, <1>8, <1>9, <1>10, Overwrites
     DEF TasksNext, Codes, Bodies

\* The conjuncts are inductive together.
THEOREM TableInvariance == TasksSpec => []TableInv
<1>1. TasksInit => TableInv
  BY DEF TasksInit, TableInv, Rest, TasksTypeOK, Staged, Unswept, StatusMatchesResult,
         PolledTaskHasResult
<1>2. TableInv /\ [TasksNext]_taskVars => TableInv'
  BY TableTypes, TableStep DEF TableInv
<1>3. QED
  BY <1>1, <1>2, PTL DEF TasksSpec

\* Every variable keeps its type.
THEOREM TableTypeCorrect == TasksSpec => []TasksTypeOK
  BY TableInvariance, PTL DEF TableInv

\* A task that was answered with its id can be found until the table is swept, and
\* one whose call failed is gone.
THEOREM TableAgrees == TasksSpec => []TableMatchesAnswers
<1>1. TableInv => TableMatchesAnswers
  BY DEF TableInv, Rest, Staged, Unswept, TableMatchesAnswers
<1>2. QED
  BY <1>1, TableInvariance, PTL

\* Status and result agree in every order of cancellations and completions.
THEOREM StatusAgrees == TasksSpec => []StatusMatchesResult
  BY TableInvariance, PTL DEF TableInv, Rest

\* A client that saw a final status has a result to fetch while the task exists.
THEOREM PolledHasResult == TasksSpec => []PolledTaskHasResult
  BY TableInvariance, PTL DEF TableInv, Rest
=============================================================================
