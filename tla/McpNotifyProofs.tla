--------------------------- MODULE McpNotifyProofs ---------------------------
(***************************************************************************)
(* Proofs about McpNotify.                                                 *)
(***************************************************************************)
EXTENDS McpNotify, SequenceTheorems, FiniteSetTheorems, WellFoundedInduction, TLAPS

-----------------------------------------------------------------------------
(* What Kept returns.                                                      *)

LEMMA LeastNumber ==
    ASSUME NEW T, T \subseteq Nat, T # {}
    PROVE  \E m \in T : \A n \in T : m <= n
<1> DEFINE U == {0..n : n \in T}
           R == StrictSubsetOrdering(Nat)
<1>1. U \subseteq FiniteSubsetsOf(Nat)
  <2>1. ASSUME NEW n \in T
        PROVE  0..n \in FiniteSubsetsOf(Nat)
    <3>1. n \in Int /\ 0..n \in SUBSET Nat
      OBVIOUS
    <3>2. QED
      BY <3>1, FS_Interval DEF FiniteSubsetsOf
  <2>2. QED
    BY <2>1
<1>2. U # {}
  OBVIOUS
<1>3. PICK x \in U : \A y \in U : ~ (<<y, x>> \in R)
  BY <1>1, <1>2, FS_StrictSubsetOrderingWellFounded, WFMin, Zenon
<1>4. PICK m \in T : x = 0..m
  OBVIOUS
<1>5. ASSUME NEW n \in T
      PROVE  m <= n
  <2>1. m \in Nat /\ n \in Nat
    OBVIOUS
  <2>2. ~ (<<0..n, 0..m>> \in R)
    BY <1>3, <1>4
  <2>3. ASSUME n < m
        PROVE  FALSE
    <3>1. 0..n \subseteq 0..m /\ m \in 0..m /\ m \notin 0..n /\ 0..n \in SUBSET Nat /\ 0..m \in SUBSET Nat
      BY <2>1, <2>3
    <3>2. QED
      BY <2>2, <3>1 DEF StrictSubsetOrdering
  <2>4. QED
    BY <2>1, <2>3
<1>6. QED
  BY <1>5

\* t is what Kept returns for the first n entries of s.
KeptOf(t, s, n, C) ==
    /\ t \in Seq(Clients)
    /\ Len(t) <= n
    /\ \A c \in Clients :
          (\E k \in 1..Len(t) : t[k] = c) <=> (c \in C /\ \E i \in 1..n : s[i] = c)
    /\ \A m, k \in 1..Len(t) :
          m < k => \E i \in 1..n : s[i] = t[m] /\ \A j \in 1..i : s[j] # t[k]

LEMMA KeptOfNext ==
    ASSUME NEW s \in Seq(Clients), NEW C, NEW n \in Nat, n < Len(s), NEW t, KeptOf(t, s, n, C)
    PROVE  \E u : KeptOf(u, s, n + 1, C)
<1> DEFINE e == s[n + 1]
<1>1. PICK h \in Nat : h = Len(t)
  BY LenProperties DEF KeptOf
<1>2. n + 1 \in 1..Len(s)
  BY LenProperties
<1>3. e \in Clients
  BY <1>2, ElementOfSeq
<1>4. \A i : i \in 1..(n + 1) <=> i \in 1..n \/ i = n + 1
  OBVIOUS
<1>5. /\ t \in Seq(Clients) /\ h <= n
      /\ \A c \in Clients : (\E k \in 1..h : t[k] = c) <=> (c \in C /\ \E i \in 1..n : s[i] = c)
      /\ \A m, k \in 1..h :
            m < k => \E i \in 1..n : s[i] = t[m] /\ \A j \in 1..i : s[j] # t[k]
  BY <1>1, Zenon DEF KeptOf
<1>6. CASE e \notin C \/ \E i \in 1..n : s[i] = e
  <2>1. h <= n + 1
    BY <1>5
  <2>2. \A c \in Clients :
           (c \in C /\ \E i \in 1..n : s[i] = c) <=> (c \in C /\ \E i \in 1..(n + 1) : s[i] = c)
    BY <1>4, <1>6, Zenon
  <2>3. \A c \in Clients :
           (\E k \in 1..h : t[k] = c) <=> (c \in C /\ \E i \in 1..(n + 1) : s[i] = c)
    BY <1>5, <2>2, Zenon
  <2>4. ASSUME NEW m \in 1..h, NEW k \in 1..h, m < k
        PROVE  \E i \in 1..(n + 1) : s[i] = t[m] /\ \A j \in 1..i : s[j] # t[k]
    <3>1. PICK i \in 1..n : s[i] = t[m] /\ \A j \in 1..i : s[j] # t[k]
      BY <1>5, <2>4
    <3>2. i \in 1..(n + 1)
      BY <1>4
    <3>3. QED
      BY <3>1, <3>2
  <2>5. KeptOf(t, s, n + 1, C)
    BY <1>1, <1>5, <2>1, <2>3, <2>4 DEF KeptOf
  <2>6. QED
    BY <2>5
<1>7. CASE e \in C /\ ~\E i \in 1..n : s[i] = e
  <2> DEFINE u == Append(t, e)
  <2>1. /\ u \in Seq(Clients) /\ Len(u) = h + 1 /\ u[h + 1] = e
        /\ \A k \in 1..h : u[k] = t[k]
    BY <1>1, <1>3, <1>5
  <2> HIDE DEF u
  <2>2. \A k : k \in 1..(h + 1) <=> k \in 1..h \/ k = h + 1
    OBVIOUS
  <2>3. h + 1 <= n + 1
    BY <1>5
  <2>4. ASSUME NEW c \in Clients
        PROVE  (\E k \in 1..(h + 1) : u[k] = c) <=> (c \in C /\ \E i \in 1..(n + 1) : s[i] = c)
    <3>1. (\E k \in 1..(h + 1) : u[k] = c) <=> (\E k \in 1..h : t[k] = c) \/ c = e
      BY <2>1, <2>2, Zenon
    <3>2. (\E i \in 1..(n + 1) : s[i] = c) <=> (\E i \in 1..n : s[i] = c) \/ c = e
      BY <1>4, Zenon
    <3>3. QED
      BY <1>5, <1>7, <3>1, <3>2, Zenon
  <2>5. ASSUME NEW m \in 1..(h + 1), NEW k \in 1..(h + 1), m < k
        PROVE  \E i \in 1..(n + 1) : s[i] = u[m] /\ \A j \in 1..i : s[j] # u[k]
    <3>1. m \in 1..h
      BY <2>5
    <3>2. u[m] = t[m]
      BY <2>1, <3>1
    <3>3. CASE k \in 1..h
      <4>1. u[k] = t[k]
        BY <2>1, <3>3
      <4>2. PICK i \in 1..n : s[i] = t[m] /\ \A j \in 1..i : s[j] # t[k]
        BY <1>5, <2>5, <3>1, <3>3
      <4>3. i \in 1..(n + 1)
        BY <1>4
      <4>4. QED
        BY <3>2, <4>1, <4>2, <4>3
    <3>4. CASE k = h + 1
      <4>1. t[m] \in Clients
        BY <1>1, <1>5, <3>1, ElementOfSeq
      <4>2. PICK i \in 1..n : s[i] = t[m]
        BY <1>5, <3>1, <4>1, Zenon
      <4>3. \A j \in 1..i : j \in 1..n
        OBVIOUS
      <4>4. \A j \in 1..i : s[j] # u[k]
        BY <1>7, <2>1, <3>4, <4>3, Zenon
      <4>5. QED
        BY <1>4, <3>2, <4>2, <4>4, Zenon
    <3>5. QED
      BY <2>2, <3>3, <3>4
  <2>6. KeptOf(u, s, n + 1, C)
    BY <2>1, <2>3, <2>4, <2>5 DEF KeptOf
  <2>7. QED
    BY <2>6
<1>8. QED
  BY <1>6, <1>7

LEMMA KeptOfAll ==
    ASSUME NEW s \in Seq(Clients), NEW C
    PROVE  \E t : KeptOf(t, s, Len(s), C)
<1> DEFINE T == {n \in 0..Len(s) : ~\E t : KeptOf(t, s, n, C)}
<1>1. PICK l \in Nat : l = Len(s)
  BY LenProperties
<1>2. KeptOf(<<>>, s, 0, C)
  BY DEF KeptOf
<1>3. ASSUME T # {}
      PROVE  FALSE
  <2>1. T \subseteq Nat
    BY <1>1
  <2>2. PICK m \in T : \A n \in T : m <= n
    BY <1>3, <2>1, LeastNumber
  <2>3. m \in 0..l /\ ~\E t : KeptOf(t, s, m, C)
    BY <1>1, <2>2
  <2>4. m # 0
    BY <1>2, <2>3
  <2>5. m - 1 \in Nat /\ m - 1 < Len(s) /\ m - 1 \in 0..Len(s) /\ (m - 1) + 1 = m /\ ~(m <= m - 1)
    BY <1>1, <2>3, <2>4
  <2>6. m - 1 \notin T
    BY <2>2, <2>5
  <2>7. \E t : KeptOf(t, s, m - 1, C)
    BY <2>5, <2>6
  <2>8. \E t : KeptOf(t, s, (m - 1) + 1, C)
    BY <2>5, <2>7, KeptOfNext
  <2>9. QED
    BY <2>3, <2>5, <2>8
<1>4. Len(s) \in 0..Len(s)
  BY <1>1
<1>5. QED
  BY <1>3, <1>4

\* No session is in the list twice.
Once(s) == \A m, n \in 1..Len(s) : m < n => s[m] # s[n]

\* Kept returns the entries that are members of C, each once.
LEMMA KeptIs ==
    ASSUME NEW s \in Seq(Clients), NEW C
    PROVE  /\ Kept(s, C) \in Seq(Clients)
           /\ Once(Kept(s, C))
           /\ \A c \in Clients : Contains(Kept(s, C), c) <=> Contains(s, c) /\ c \in C
<1> DEFINE P(t) ==
              /\ ToSet(t) = ToSet(s) \cap C
              /\ \A m, n \in DOMAIN t :
                    m < n => \E i \in DOMAIN s : s[i] = t[m] /\ \A j \in 1..i : s[j] # t[n]
           B == BoundedSeq(Clients, Len(s))
<1>1. \E t \in B : P(t)
  <2>1. PICK t : KeptOf(t, s, Len(s), C)
    BY KeptOfAll
  <2>2. /\ Len(t) \in Nat /\ t \in [1..Len(t) -> Clients] /\ DOMAIN t = 1..Len(t)
        /\ Len(s) \in Nat /\ s \in [1..Len(s) -> Clients] /\ DOMAIN s = 1..Len(s)
    BY <2>1, LenProperties, Zenon DEF KeptOf
  <2>3. Len(t) \in 0..Len(s)
    BY <2>1, <2>2 DEF KeptOf
  <2>4. t \in B
    BY <2>2, <2>3, Zenon DEF BoundedSeq, SeqOf
  <2>5. ToSet(t) = ToSet(s) \cap C
    <3>1. ASSUME NEW c \in ToSet(t)
          PROVE  c \in ToSet(s) \cap C
      <4>1. PICK k \in 1..Len(t) : t[k] = c
        BY <2>2, <3>1, Zenon DEF ToSet
      <4>2. c \in Clients
        BY <2>2, <4>1
      <4>3. QED
        BY <2>1, <2>2, <4>1, <4>2, Zenon DEF KeptOf, ToSet
    <3>2. ASSUME NEW c \in ToSet(s) \cap C
          PROVE  c \in ToSet(t)
      <4>1. PICK i \in 1..Len(s) : s[i] = c
        BY <2>2, <3>2, Zenon DEF ToSet
      <4>2. c \in Clients
        BY <2>2, <4>1
      <4>3. QED
        BY <2>1, <2>2, <3>2, <4>1, <4>2, Zenon DEF KeptOf, ToSet
    <3>3. QED
      BY <3>1, <3>2
  <2>6. ASSUME NEW m \in DOMAIN t, NEW n \in DOMAIN t, m < n
        PROVE  \E i \in DOMAIN s : s[i] = t[m] /\ \A j \in 1..i : s[j] # t[n]
    <3>1. m \in 1..Len(t) /\ n \in 1..Len(t)
      BY <2>2
    <3>2. PICK i \in 1..Len(s) : s[i] = t[m] /\ \A j \in 1..i : s[j] # t[n]
      BY <2>1, <2>6, <3>1 DEF KeptOf
    <3>3. QED
      BY <2>2, <3>2
  <2>7. P(t)
    BY <2>5, <2>6
  <2>8. QED
    BY <2>4, <2>7
<1>2. PICK t \in B : t = Kept(s, C) /\ P(t)
  <2>1. Kept(s, C) = CHOOSE t \in B : P(t)
    BY Zenon DEF Kept
  <2>2. QED
    BY <1>1, <2>1, Zenon
<1>3. t \in Seq(Clients)
  <2>1. PICK n \in 0..Len(s) : t \in [1..n -> Clients]
    BY <1>2, Zenon DEF BoundedSeq, SeqOf
  <2>2. n \in Nat
    BY LenProperties
  <2>3. Seq(Clients) = UNION {[1..i -> Clients] : i \in Nat}
    OBVIOUS
  <2>4. QED
    BY <2>1, <2>2, <2>3, Zenon
<1>4. DOMAIN t = 1..Len(t) /\ DOMAIN s = 1..Len(s) /\ Len(t) \in Nat
  BY <1>3, LenProperties
<1>5. Once(t)
  <2>1. ASSUME NEW m \in 1..Len(t), NEW n \in 1..Len(t), m < n
        PROVE  t[m] # t[n]
    <3>1. PICK i \in DOMAIN s : s[i] = t[m] /\ \A j \in 1..i : s[j] # t[n]
      BY <1>2, <1>4, <2>1
    <3>2. i \in 1..i
      BY <1>4, LenProperties
    <3>3. QED
      BY <3>1, <3>2, Zenon
  <2>2. QED
    BY <2>1 DEF Once
<1>6. ToSet(t) = ToSet(s) \cap C
  BY <1>2
<1>7. \A c : c \in ToSet(t) <=> Contains(t, c)
  BY <1>4, Zenon DEF ToSet, Contains
<1>8. \A c : c \in ToSet(s) <=> Contains(s, c)
  BY <1>4, Zenon DEF ToSet, Contains
<1>9. \A c \in Clients : Contains(t, c) <=> Contains(s, c) /\ c \in C
  BY <1>6, <1>7, <1>8, Zenon
<1>10. QED
  BY <1>2, <1>3, <1>5, <1>9, Zenon

-----------------------------------------------------------------------------
(* The inductive invariant.                                                *)

Typed ==
    /\ server \in {"down", "up"}
    /\ gen \in 0..MaxGen
    /\ born \in [Clients -> 0..MaxGen]
    /\ open \subseteq Clients
    /\ sinks \in Seq(Clients) /\ rest \in Seq(Clients) /\ told \in Seq(Clients)
    /\ \A u \in Uris : Entry(u) \in Seq(Clients)
    /\ pc \in [Requests -> {"idle", "accepted", "changed", "done"}]
    /\ req \in [Requests -> Asks \cup {<<>>}]
    /\ calling \in Uris \cup {"none", "list"}
    /\ joined \subseteq Clients
    /\ asked \in [Pairs -> {"nothing", "in", "out"}]
    /\ mixed \subseteq Requests
    /\ due \subseteq Clients
    /\ late \in [Pairs -> Nat]

\* Request r is running.
Runs(r, kind, c, u) == pc[r] \in {"accepted", "changed"} /\ req[r] = <<kind, c, u>>

\* Only sessions that have been accepted, and never will be again, have left a trace.
Born(c) == born[c] # 0
Known ==
    /\ server = "up" => gen # 0
    /\ \A c \in open \cup joined \cup due : Born(c)
    /\ \A r \in Requests :
          pc[r] \in {"accepted", "changed"} => req[r] \in Asks /\ Born(req[r][2])
    /\ \A c \in Clients, u \in Uris : asked[<<c, u>>] # "nothing" => Born(c)

\* Two requests that run to opposite ends have both been marked.
Overlaps ==
    \A r, s \in Requests, c \in Clients, u \in Uris :
        Runs(r, "subscribe", c, u) /\ Runs(s, "unsubscribe", c, u) => r \in mixed /\ s \in mixed

\* While a request runs, its client does not take the opposite for granted.
Pending ==
    \A r \in Requests, c \in Clients, u \in Uris :
        /\ Runs(r, "subscribe", c, u) => asked[<<c, u>>] # "out"
        /\ Runs(r, "unsubscribe", c, u) => asked[<<c, u>>] # "in"

\* What a handler changed stays until its client is answered, if nobody rivals it.
InEffect ==
    \A r \in Requests, c \in Clients, u \in Uris :
        pc[r] = "changed" /\ r \notin mixed =>
            /\ req[r] = <<"subscribe", c, u>> /\ c \in open => Contains(Entry(u), c)
            /\ req[r] = <<"unsubscribe", c, u>> => ~Contains(Entry(u), c)

Joined ==
    /\ \A c \in joined \cap open : Contains(sinks, c)
    /\ \A r \in Requests, c \in open :
          pc[r] = "changed" /\ req[r] = <<"initialized", c, "none">> => Contains(sinks, c)

\* A client that is due has been sent to, or will be.
Served == calling # "none" => \A c \in due \cap open : Contains(told, c) \/ Contains(rest, c)

\* A client that was sent an update too late is not in the copy any more.
LateOnce ==
    /\ Once(rest)
    /\ \A c \in Clients, u \in Uris :
          /\ late[<<c, u>>] <= 1
          /\ late[<<c, u>>] # 0 =>
                asked[<<c, u>>] = "out" /\ (calling = u => ~Contains(rest, c))

IInv ==
    /\ Typed /\ Known /\ Overlaps /\ Pending /\ InEffect /\ SubscriptionsAsAnswered
    /\ Joined /\ Served /\ LateOnce

-----------------------------------------------------------------------------
(* What the operators and the actions do, one session and one resource at a   *)
(* time.                                                                    *)

USE DEF serverVars, clientVars, listVars, callVars, historyVars

LEMMA Settings == MaxGen \in Nat /\ "none" \notin Uris /\ "list" \notin Uris
BY ConstantsAssumption DEF ConstantsAssumption

LEMMA KeptAppend ==
    ASSUME NEW s \in Seq(Clients), NEW c \in Clients, NEW C
    PROVE  /\ Kept(Append(s, c), C) \in Seq(Clients)
           /\ Once(Kept(Append(s, c), C))
           /\ \A d \in Clients :
                 Contains(Kept(Append(s, c), C), d) <=> (Contains(s, d) \/ d = c) /\ d \in C
<1> DEFINE t == Append(s, c)
<1>1. t \in Seq(Clients) /\ Len(t) = Len(s) + 1 /\ t[Len(s) + 1] = c
      /\ (\A i \in 1..Len(s) : t[i] = s[i]) /\ Len(s) \in Nat
  OBVIOUS
<1> HIDE DEF t
<1>2. \A i : i \in 1..(Len(s) + 1) <=> i \in 1..Len(s) \/ i = Len(s) + 1
  BY <1>1
<1>3. \A d : Contains(t, d) <=> Contains(s, d) \/ d = c
  BY <1>1, <1>2, Zenon DEF Contains
<1>4. QED
  BY <1>1, <1>3, KeptIs DEF t

LEMMA EntrySet ==
    ASSUME NEW u \in Uris, NEW s, SetEntry(u, s) \/ SetOrRemoveEntry(u, s)
    PROVE  \A v \in Uris : Entry(v)' = IF v = u THEN s ELSE Entry(v)
BY DEF SetEntry, SetOrRemoveEntry, Entry

LEMMA EntryKept ==
    ASSUME subs' = subs
    PROVE  \A v \in Uris : Entry(v)' = Entry(v)
BY DEF Entry

LEMMA AskShape ==
    ASSUME NEW q \in Asks
    PROVE  \/ \E kind \in {"subscribe", "unsubscribe"}, c \in Clients, u \in Uris :
                 q = <<kind, c, u>> /\ Tail(q) = <<c, u>> /\ <<c, u>> \in Pairs
           \/ \E c \in Clients :
                 q = <<"initialized", c, "none">> /\ Tail(q) = <<c, "none">>
                 /\ <<c, "none">> \notin Pairs
<1>1. CASE q \in {"subscribe", "unsubscribe"} \X Clients \X Uris
  <2>1. PICK kind \in {"subscribe", "unsubscribe"}, c \in Clients, u \in Uris :
           q = <<kind, c, u>>
    BY <1>1
  <2>2. Tail(<<kind, c, u>>) = <<c, u>> /\ <<c, u>> \in Pairs
    BY DEF Pairs
  <2>3. QED
    BY <2>1, <2>2
<1>2. CASE q \in {"initialized"} \X Clients \X {"none"}
  <2>1. PICK c \in Clients : q = <<"initialized", c, "none">>
    BY <1>2
  <2>2. Tail(<<"initialized", c, "none">>) = <<c, "none">> /\ <<c, "none">> \notin Pairs
    BY Settings DEF Pairs
  <2>3. QED
    BY <2>1, <2>2
<1>3. QED
  BY <1>1, <1>2 DEF Asks

LEMMA KindShape ==
    ASSUME NEW q \in Asks
    PROVE  /\ q[1] = "initialized" => \E c \in Clients : q = <<"initialized", c, "none">>
           /\ q[1] \in {"subscribe", "unsubscribe"} =>
                 \E c \in Clients, u \in Uris : q = <<q[1], c, u>>
           /\ q[2] \in Clients
<1>1. CASE q \in {"subscribe", "unsubscribe"} \X Clients \X Uris
  <2>1. PICK kind \in {"subscribe", "unsubscribe"}, c \in Clients, u \in Uris :
           q = <<kind, c, u>>
    BY <1>1
  <2>2. q[1] = kind /\ q[2] = c
    BY <2>1
  <2>3. QED
    BY <2>1, <2>2
<1>2. CASE q \in {"initialized"} \X Clients \X {"none"}
  <2>1. PICK c \in Clients : q = <<"initialized", c, "none">>
    BY <1>2
  <2>2. q[1] = "initialized" /\ q[2] = c
    BY <2>1
  <2>3. QED
    BY <2>1, <2>2
<1>3. QED
  BY <1>1, <1>2 DEF Asks

\* A handler that is running has a request.
LEMMA Asked ==
    ASSUME Typed, Known, NEW r \in Requests, NEW kind, Change(r, kind)
    PROVE  req[r] \in Asks /\ req[r][1] = kind
BY DEF Known, Change

LEMMA AddSinkDoes ==
    ASSUME Typed, Known, NEW r \in Requests, AddSink(r)
    PROVE  \E c \in Clients :
              /\ req[r] = <<"initialized", c, "none">>
              /\ sinks' \in Seq(Clients) /\ Once(sinks')
              /\ \A d \in Clients : Contains(sinks', d) <=> (Contains(sinks, d) \/ d = c) /\ d \in open
<1>1. req[r] \in Asks /\ req[r][1] = "initialized"
  BY Asked DEF AddSink
<1>2. PICK c \in Clients : req[r] = <<"initialized", c, "none">>
  BY <1>1, KindShape
<1>3. sinks' = Kept(Append(sinks, c), open)
  BY <1>2 DEF AddSink, AddUnique, RetainOpenUnique
<1>4. sinks \in Seq(Clients)
  BY DEF Typed
<1>5. QED
  BY <1>2, <1>3, <1>4, KeptAppend

LEMMA SubscribeDoes ==
    ASSUME Typed, Known, NEW r \in Requests, Subscribe(r)
    PROVE  \E c \in Clients, u \in Uris :
              /\ req[r] = <<"subscribe", c, u>>
              /\ Entry(u)' \in Seq(Clients) /\ Once(Entry(u)')
              /\ \A v \in Uris \ {u} : Entry(v)' = Entry(v)
              /\ \A d \in Clients :
                    Contains(Entry(u)', d) <=> (Contains(Entry(u), d) \/ d = c) /\ d \in open
<1>1. req[r] \in Asks /\ req[r][1] = "subscribe"
  BY Asked DEF Subscribe
<1>2. PICK c \in Clients, u \in Uris : req[r] = <<"subscribe", c, u>>
  BY <1>1, KindShape
<1>3. SetEntry(u, Kept(Append(Entry(u), c), open))
  BY <1>2 DEF Subscribe, AddUnique, RetainOpenUnique
<1>4. Entry(u) \in Seq(Clients)
  BY DEF Typed
<1>5. PICK s : s = Kept(Append(Entry(u), c), open)
  OBVIOUS
<1>6. SetEntry(u, s)
  BY <1>3, <1>5
<1>7. Entry(u)' = s /\ \A v \in Uris \ {u} : Entry(v)' = Entry(v)
  BY <1>6, EntrySet
<1>8. /\ s \in Seq(Clients) /\ Once(s)
      /\ \A d \in Clients : Contains(s, d) <=> (Contains(Entry(u), d) \/ d = c) /\ d \in open
  BY <1>4, <1>5, KeptAppend
<1>9. QED
  BY <1>2, <1>7, <1>8

LEMMA UnsubscribeDoes ==
    ASSUME Typed, Known, NEW r \in Requests, Unsubscribe(r)
    PROVE  \E c \in Clients, u \in Uris :
              /\ req[r] = <<"unsubscribe", c, u>>
              /\ Entry(u)' \in Seq(Clients) /\ Once(Entry(u)')
              /\ \A v \in Uris \ {u} : Entry(v)' = Entry(v)
              /\ \A d \in Clients :
                    Contains(Entry(u)', d) <=> Contains(Entry(u), d) /\ d \in open /\ d # c
<1>1. req[r] \in Asks /\ req[r][1] = "unsubscribe"
  BY Asked DEF Unsubscribe
<1>2. PICK c \in Clients, u \in Uris : req[r] = <<"unsubscribe", c, u>>
  BY <1>1, KindShape
<1>3. SetOrRemoveEntry(u, Kept(Entry(u), open \ {c}))
  BY <1>2 DEF Unsubscribe
<1>4. Entry(u) \in Seq(Clients)
  BY DEF Typed
<1>5. PICK s : s = Kept(Entry(u), open \ {c})
  OBVIOUS
<1>6. SetOrRemoveEntry(u, s)
  BY <1>3, <1>5
<1>7. Entry(u)' = s /\ \A v \in Uris \ {u} : Entry(v)' = Entry(v)
  BY <1>6, EntrySet
<1>8. /\ s \in Seq(Clients) /\ Once(s)
      /\ \A d \in Clients : Contains(s, d) <=> Contains(Entry(u), d) /\ d \in open \ {c}
  BY <1>4, <1>5, KeptIs
<1>9. QED
  BY <1>2, <1>7, <1>8

\* A call begins with a copy of the open sessions of a list, each once.
LEMMA BroadcastDoes ==
    ASSUME Typed, BroadcastListChanged
    PROVE  /\ sinks' \in Seq(Clients) /\ rest' = sinks' /\ Once(rest')
           /\ \A d \in Clients : Contains(sinks', d) <=> Contains(sinks, d) /\ d \in open
<1>1. sinks' = Kept(sinks, open) /\ rest' = Kept(sinks, open)
  BY DEF BroadcastListChanged, BeginCall, RetainOpenUnique
<1>2. QED
  BY <1>1, KeptIs DEF Typed

LEMMA UpdateDoes ==
    ASSUME Typed, NEW u \in Uris, NotifyResourceUpdated(u)
    PROVE  /\ rest' \in Seq(Clients) /\ Once(rest')
           /\ Entry(u)' = rest'
           /\ \A v \in Uris \ {u} : Entry(v)' = Entry(v)
           /\ \A d \in Clients : Contains(rest', d) <=> Contains(Entry(u), d) /\ d \in open
<1>1. SetOrRemoveEntry(u, Kept(Entry(u), open)) /\ rest' = Kept(Entry(u), open)
  BY DEF NotifyResourceUpdated, BeginCall, RetainOpenUnique
<1>2. PICK s : s = Kept(Entry(u), open)
  OBVIOUS
<1>3. SetOrRemoveEntry(u, s)
  BY <1>1, <1>2
<1>4. Entry(u)' = s /\ \A v \in Uris \ {u} : Entry(v)' = Entry(v)
  BY <1>3, EntrySet
<1>5. Entry(u) \in Seq(Clients)
  BY DEF Typed
<1>6. QED
  BY <1>1, <1>2, <1>4, <1>5, KeptIs

\* The first of the copy is sent to, and is not in the rest of it.
LEMMA SendDoes ==
    ASSUME Typed, SendNext
    PROVE  \E c \in Clients :
              /\ c = Head(rest)
              /\ rest' \in Seq(Clients) /\ told' \in Seq(Clients)
              /\ \A d \in Clients : Contains(rest, d) <=> d = c \/ Contains(rest', d)
              /\ \A d \in Clients : Contains(told', d) <=> Contains(told, d) \/ (d = c /\ c \in open)
              /\ Once(rest) => Once(rest') /\ ~Contains(rest', c)
              /\ Once(told) /\ ~Contains(told, c) => Once(told')
<1> DEFINE s == rest
<1>1. s \in Seq(Clients) /\ s # <<>> /\ told \in Seq(Clients)
  BY DEF Typed, SendNext
<1>2. /\ rest' = Tail(s)
      /\ told' = IF Head(s) \in open THEN Append(told, Head(s)) ELSE told
  BY DEF SendNext
<1> HIDE DEF s
<1>3. PICK l \in Nat : l = Len(s)
  BY <1>1, LenProperties
<1>4. l > 0
  BY <1>1, <1>3
<1>5. PICK c \in Clients : c = Head(s) /\ c = s[1]
  BY <1>1, <1>3, <1>4
<1>6. /\ Tail(s) \in Seq(Clients) /\ Len(Tail(s)) = l - 1
      /\ \A i \in 1..(l - 1) : Tail(s)[i] = s[i + 1]
  BY <1>1, <1>3, HeadTailProperties, Zenon
<1>7. /\ \A i \in 1..(l - 1) : i + 1 \in 1..l /\ 1 < i + 1
      /\ \A i \in 1..l : i = 1 \/ (i - 1 \in 1..(l - 1) /\ (i - 1) + 1 = i)
      /\ 1 \in 1..l
  BY <1>4
<1>8. \A d \in Clients : Contains(s, d) <=> d = c \/ Contains(Tail(s), d)
  <2>1. ASSUME NEW d, NEW i \in 1..l, s[i] = d
        PROVE  d = c \/ \E j \in 1..(l - 1) : Tail(s)[j] = d
    BY <1>5, <1>6, <1>7, <2>1
  <2>2. ASSUME NEW d, NEW j \in 1..(l - 1), Tail(s)[j] = d
        PROVE  \E i \in 1..l : s[i] = d
    BY <1>6, <1>7, <2>2
  <2>3. QED
    BY <1>3, <1>5, <1>6, <1>7, <2>1, <2>2 DEF Contains
<1>9. ASSUME Once(s)
      PROVE  Once(Tail(s)) /\ ~Contains(Tail(s), c)
  <2>1. \A m, n \in 1..l : m < n => s[m] # s[n]
    BY <1>3, <1>9 DEF Once
  <2>2. ASSUME NEW m \in 1..(l - 1), NEW n \in 1..(l - 1), m < n
        PROVE  Tail(s)[m] # Tail(s)[n]
    <3>1. m + 1 < n + 1
      BY <2>2
    <3>2. QED
      BY <1>6, <1>7, <2>1, <3>1
  <2>3. ASSUME NEW n \in 1..(l - 1)
        PROVE  Tail(s)[n] # c
    BY <1>5, <1>6, <1>7, <2>1
  <2>4. QED
    BY <1>6, <2>2, <2>3 DEF Once, Contains
<1>10. /\ told' \in Seq(Clients)
       /\ Once(told) /\ ~Contains(told, c) => Once(told')
       /\ \A d \in Clients : Contains(told', d) <=> Contains(told, d) \/ (d = c /\ c \in open)
  <2>1. CASE c \in open
    <3> DEFINE t == Append(told, c)
    <3>1. told' = t
      BY <1>2, <1>5, <2>1
    <3>2. t \in Seq(Clients) /\ Len(t) = Len(told) + 1 /\ t[Len(told) + 1] = c
          /\ (\A i \in 1..Len(told) : t[i] = told[i]) /\ Len(told) \in Nat
      BY <1>1
    <3> HIDE DEF t
    <3>3. \A i : i \in 1..(Len(told) + 1) <=> i \in 1..Len(told) \/ i = Len(told) + 1
      BY <3>2
    <3>4. \A d : Contains(t, d) <=> Contains(told, d) \/ d = c
      BY <3>2, <3>3, Zenon DEF Contains
    <3>5. ASSUME Once(told), ~Contains(told, c)
          PROVE  Once(t)
      <4>1. PICK n \in Nat : n = Len(told)
        BY <3>2
      <4>2. ASSUME NEW i \in 1..(n + 1), NEW j \in 1..(n + 1), i < j
            PROVE  t[i] # t[j]
        <5>1. i \in 1..n /\ t[i] = told[i] /\ told[i] # c
          BY <3>2, <3>5, <4>1, <4>2 DEF Contains
        <5>2. CASE j = n + 1
          BY <3>2, <4>1, <5>1, <5>2
        <5>3. CASE j \in 1..n
          BY <3>2, <3>5, <4>1, <4>2, <5>1, <5>3 DEF Once
        <5>4. QED
          BY <4>1, <5>2, <5>3
      <4>3. QED
        BY <3>2, <4>1, <4>2 DEF Once
    <3>6. QED
      BY <2>1, <3>1, <3>2, <3>4, <3>5
  <2>2. CASE c \notin open
    BY <1>1, <1>2, <1>5, <2>2
  <2>3. QED
    BY <2>1, <2>2
<1>11. QED
  BY <1>2, <1>5, <1>6, <1>8, <1>9, <1>10 DEF s

\* What a client may count on when a request of a kind is answered.
Settled(kind) == IF kind = "subscribe" THEN "in" ELSE "out"

\* Only request r and the pair <<c, u>> may have changed.
OnlyRequest(r) ==
    \A s \in Requests \ {r} : pc'[s] = pc[s] /\ req'[s] = req[s]
OnlyPair(c, u) ==
    \A d \in Clients, v \in Uris : <<d, v>> # <<c, u>> => asked'[<<d, v>>] = asked[<<d, v>>]

LEMMA AcceptDoes ==
    ASSUME Typed, NEW r \in Requests, NEW q \in Asks, Accept(r, q)
    PROVE  /\ pc[r] = "idle" /\ pc'[r] = "accepted" /\ req'[r] = q /\ OnlyRequest(r)
           /\ mixed \subseteq mixed' /\ \A s \in mixed' : s \in mixed \/ s = r \/ pc[s] # "idle"
           /\ q[2] \in open
           /\ \/ \E c \in Clients : q = <<"initialized", c, "none">> /\ asked' = asked /\ late' = late
              \/ \E kind \in {"subscribe", "unsubscribe"}, c \in Clients, u \in Uris :
                    /\ q = <<kind, c, u>>
                    /\ asked'[<<c, u>>] \in {asked[<<c, u>>], "nothing"} \cap {Settled(kind), "nothing"}
                    /\ kind = "unsubscribe" /\ asked[<<c, u>>] = "out" => asked'[<<c, u>>] = "out"
                    /\ OnlyPair(c, u)
                    /\ late'[<<c, u>>] = IF kind = "subscribe" THEN 0 ELSE late[<<c, u>>]
                    /\ \A d \in Clients, v \in Uris :
                          <<d, v>> # <<c, u>> => late'[<<d, v>>] = late[<<d, v>>]
                    /\ \A s \in Requests, other \in {"subscribe", "unsubscribe"} :
                          Runs(s, other, c, u) /\ other # kind => s \in mixed' /\ r \in mixed'
<1>1. /\ pc[r] = "idle" /\ pc'[r] = "accepted" /\ req'[r] = q /\ OnlyRequest(r)
      /\ mixed' = mixed \cup Rivals(q) \cup (IF Rivals(q) = {} THEN {} ELSE {r})
      /\ q[2] \in open
  BY DEF Accept, Typed, OnlyRequest
<1>2. \A s \in mixed' : s \in mixed \/ s = r \/ pc[s] # "idle"
  BY <1>1 DEF Rivals
<1>3. CASE \E c \in Clients :
              q = <<"initialized", c, "none">> /\ Tail(q) = <<c, "none">> /\ <<c, "none">> \notin Pairs
  <2>1. asked' = asked /\ late' = late
    BY <1>3 DEF Accept
  <2>2. QED
    BY <1>1, <1>2, <1>3, <2>1
<1>4. CASE \E kind \in {"subscribe", "unsubscribe"}, c \in Clients, u \in Uris :
              q = <<kind, c, u>> /\ Tail(q) = <<c, u>> /\ <<c, u>> \in Pairs
  <2>1. PICK kind \in {"subscribe", "unsubscribe"}, c \in Clients, u \in Uris :
           q = <<kind, c, u>> /\ Tail(q) = <<c, u>> /\ <<c, u>> \in Pairs
    BY <1>4
  <2>2. q[1] = kind
    BY <2>1
  <2>3. /\ asked' = [asked EXCEPT ![<<c, u>>] = IF @ = Settled(kind) THEN @ ELSE "nothing"]
        /\ late' = [late EXCEPT ![<<c, u>>] = IF kind = "subscribe" THEN 0 ELSE @]
    BY <2>1, <2>2 DEF Accept, Settled
  <2>4. /\ asked'[<<c, u>>] = IF asked[<<c, u>>] = Settled(kind) THEN Settled(kind) ELSE "nothing"
        /\ late'[<<c, u>>] = IF kind = "subscribe" THEN 0 ELSE late[<<c, u>>]
    BY <2>1, <2>3 DEF Typed
  <2>5. OnlyPair(c, u)
        /\ \A d \in Clients, v \in Uris : <<d, v>> # <<c, u>> => late'[<<d, v>>] = late[<<d, v>>]
    <3>1. \A d \in Clients, v \in Uris : <<d, v>> \in Pairs
      BY DEF Pairs
    <3>2. QED
      BY <2>3, <3>1 DEF Typed, OnlyPair
  <2>6. ASSUME NEW s \in Requests, NEW other \in {"subscribe", "unsubscribe"},
               Runs(s, other, c, u), other # kind
        PROVE  s \in mixed' /\ r \in mixed'
    <3>1. req[s][1] = other /\ Tail(req[s]) = Tail(q)
      <4>1. Tail(<<other, c, u>>) = <<c, u>> /\ <<other, c, u>>[1] = other
        OBVIOUS
      <4>2. QED
        BY <2>1, <2>6, <4>1 DEF Runs
    <3>2. {req[s][1], q[1]} = {"subscribe", "unsubscribe"}
      BY <2>2, <2>6, <3>1
    <3>3. s \in Rivals(q)
      BY <2>6, <3>1, <3>2 DEF Rivals, Runs
    <3>4. QED
      BY <1>1, <3>3
  <2>7. kind = "unsubscribe" /\ asked[<<c, u>>] = "out" => asked'[<<c, u>>] = "out"
    BY <2>4 DEF Settled
  <2>8. asked'[<<c, u>>] \in {asked[<<c, u>>], "nothing"} \cap {Settled(kind), "nothing"}
    BY <2>4
  <2>9. /\ q = <<kind, c, u>>
        /\ asked'[<<c, u>>] \in {asked[<<c, u>>], "nothing"} \cap {Settled(kind), "nothing"}
        /\ kind = "unsubscribe" /\ asked[<<c, u>>] = "out" => asked'[<<c, u>>] = "out"
        /\ OnlyPair(c, u)
        /\ late'[<<c, u>>] = IF kind = "subscribe" THEN 0 ELSE late[<<c, u>>]
        /\ \A d \in Clients, v \in Uris :
              <<d, v>> # <<c, u>> => late'[<<d, v>>] = late[<<d, v>>]
        /\ \A s \in Requests, other \in {"subscribe", "unsubscribe"} :
              Runs(s, other, c, u) /\ other # kind => s \in mixed' /\ r \in mixed'
    <3>1. \A s \in Requests, other \in {"subscribe", "unsubscribe"} :
              Runs(s, other, c, u) /\ other # kind => s \in mixed' /\ r \in mixed'
      BY <2>6
    <3>2. QED
      BY <2>1, <2>4, <2>5, <2>7, <2>8, <3>1, Zenon
  <2>10. QED
    BY <1>1, <1>2, <2>9, Zenon
<1>5. QED
  BY <1>3, <1>4, AskShape

LEMMA AcceptSettles ==
    ASSUME Typed, NEW r \in Requests, NEW q \in Asks, Accept(r, q),
           NEW kind, NEW c \in Clients, NEW u \in Uris, q = <<kind, c, u>>
    PROVE  asked'[<<c, u>>] \in {Settled(kind), "nothing"}
<1>1. Tail(q) = <<c, u>> /\ q[1] = kind /\ <<c, u>> \in Pairs
  <2>1. Tail(<<kind, c, u>>) = <<c, u>> /\ <<kind, c, u>>[1] = kind
    OBVIOUS
  <2>2. QED
    BY <2>1 DEF Pairs
<1>2. asked' = [asked EXCEPT ![<<c, u>>] = IF @ = Settled(kind) THEN @ ELSE "nothing"]
  BY <1>1 DEF Accept, Settled
<1>3. QED
  BY <1>1, <1>2 DEF Typed

LEMMA FinishDoes ==
    ASSUME Typed, Known, NEW r \in Requests, Finish(r)
    PROVE  /\ pc[r] = "changed" /\ pc'[r] = "done" /\ OnlyRequest(r) /\ mixed' = mixed \ {r}
           /\ \/ \E c \in Clients :
                    /\ req[r] = <<"initialized", c, "none">>
                    /\ asked' = asked /\ joined' = joined \cup {c}
              \/ \E kind \in {"subscribe", "unsubscribe"}, c \in Clients, u \in Uris :
                    /\ req[r] = <<kind, c, u>>
                    /\ asked'[<<c, u>>] = IF r \in mixed THEN asked[<<c, u>>] ELSE Settled(kind)
                    /\ OnlyPair(c, u)
                    /\ joined' = joined
<1> DEFINE q == req[r]
<1>1. /\ pc[r] = "changed" /\ pc'[r] = "done" /\ OnlyRequest(r) /\ mixed' = mixed \ {r}
      /\ q \in Asks
  BY DEF Finish, Typed, OnlyRequest, Known
<1>2. CASE \E c \in Clients :
              q = <<"initialized", c, "none">> /\ Tail(q) = <<c, "none">> /\ <<c, "none">> \notin Pairs
  <2>1. PICK c \in Clients :
           q = <<"initialized", c, "none">> /\ Tail(q) = <<c, "none">> /\ <<c, "none">> \notin Pairs
    BY <1>2
  <2>2. asked' = asked /\ joined' = joined \cup {q[2]} /\ q[2] = c
    BY <2>1 DEF Finish
  <2>3. QED
    BY <1>1, <2>1, <2>2
<1>3. CASE \E kind \in {"subscribe", "unsubscribe"}, c \in Clients, u \in Uris :
              q = <<kind, c, u>> /\ Tail(q) = <<c, u>> /\ <<c, u>> \in Pairs
  <2>1. PICK kind \in {"subscribe", "unsubscribe"}, c \in Clients, u \in Uris :
           q = <<kind, c, u>> /\ Tail(q) = <<c, u>> /\ <<c, u>> \in Pairs
    BY <1>3
  <2>2. q[1] = kind
    BY <2>1
  <2>3. /\ asked' = [asked EXCEPT ![<<c, u>>] = IF r \in mixed THEN @ ELSE Settled(kind)]
        /\ joined' = joined
    BY <2>1, <2>2 DEF Finish, Settled
  <2>4. asked'[<<c, u>>] = IF r \in mixed THEN asked[<<c, u>>] ELSE Settled(kind)
    BY <2>1, <2>3 DEF Typed
  <2>5. OnlyPair(c, u)
    <3>1. \A d \in Clients, v \in Uris : <<d, v>> \in Pairs
      BY DEF Pairs
    <3>2. QED
      BY <2>3, <3>1 DEF Typed, OnlyPair
  <2>6. QED
    BY <1>1, <2>1, <2>3, <2>4, <2>5
<1>4. QED
  BY <1>1, <1>2, <1>3, AskShape

-----------------------------------------------------------------------------
(* Each conjunct is kept by every step.                                     *)

LEMMA TypedStep ==
    ASSUME Typed, Known, [Next]_vars
    PROVE  Typed'
<1> USE Settings
<1>1. CASE UNCHANGED vars
  BY <1>1 DEF Typed, vars, Entry
<1>2. ASSUME NEW c \in Clients, Connect(c) \/ Close(c)
      PROVE  Typed'
  BY <1>2 DEF Typed, Connect, Close, Entry
<1>3. ASSUME NEW r \in Requests, NEW q \in Asks, Accept(r, q)
      PROVE  Typed'
  <2>1. mixed' \subseteq Requests
    BY <1>3 DEF Typed, Accept, Rivals
  <2>2. asked' \in [Pairs -> {"nothing", "in", "out"}] /\ late' \in [Pairs -> Nat]
    <3>1. CASE Tail(q) \in Pairs
      <4>1. /\ \E a \in {"nothing", "in", "out"} : asked' = [asked EXCEPT ![Tail(q)] = a]
            /\ \E n \in Nat : late' = [late EXCEPT ![Tail(q)] = n]
        BY <1>3, <3>1 DEF Typed, Accept
      <4>2. QED
        BY <4>1 DEF Typed
    <3>2. CASE Tail(q) \notin Pairs
      BY <1>3, <3>2 DEF Typed, Accept
    <3>3. QED
      BY <3>1, <3>2
  <2>3. pc' \in [Requests -> {"idle", "accepted", "changed", "done"}]
        /\ req' \in [Requests -> Asks \cup {<<>>}]
    BY <1>3 DEF Typed, Accept
  <2>4. \A u \in Uris : Entry(u)' \in Seq(Clients)
    BY <1>3, EntryKept DEF Typed, Accept
  <2>5. UNCHANGED <<server, gen, born, open, sinks, rest, told, calling, joined, due>>
    BY <1>3 DEF Accept
  <2>6. QED
    BY <2>1, <2>2, <2>3, <2>4, <2>5 DEF Typed
<1>4. ASSUME NEW r \in Requests, NEW kind, Change(r, kind),
             sinks' \in Seq(Clients), \A u \in Uris : Entry(u)' \in Seq(Clients)
      PROVE  Typed'
  <2>1. pc' \in [Requests -> {"idle", "accepted", "changed", "done"}]
    BY <1>4 DEF Typed, Change
  <2>2. QED
    BY <1>4, <2>1 DEF Typed, Change
<1>5. ASSUME NEW r \in Requests, AddSink(r)
      PROVE  Typed'
  <2>1. sinks' \in Seq(Clients)
    BY <1>5, AddSinkDoes
  <2>2. \A u \in Uris : Entry(u)' \in Seq(Clients)
    BY <1>5, EntryKept DEF AddSink, Typed
  <2>3. QED
    BY <1>4, <1>5, <2>1, <2>2 DEF AddSink
<1>6. ASSUME NEW r \in Requests, Subscribe(r) \/ Unsubscribe(r)
      PROVE  Typed'
  <2>1. PICK v \in Uris : Entry(v)' \in Seq(Clients) /\ \A u \in Uris \ {v} : Entry(u)' = Entry(u)
    BY <1>6, SubscribeDoes, UnsubscribeDoes
  <2>2. \A u \in Uris : Entry(u)' \in Seq(Clients)
    BY <2>1 DEF Typed
  <2>3. sinks' \in Seq(Clients)
    BY <1>6 DEF Typed, Subscribe, Unsubscribe
  <2>4. QED
    BY <1>4, <1>6, <2>2, <2>3 DEF Subscribe, Unsubscribe
<1>7. ASSUME NEW r \in Requests, Finish(r)
      PROVE  Typed'
  <2>1. req[r] \in Asks
    BY <1>7 DEF Typed, Known, Finish
  <2>2. req[r][2] \in Clients
    BY <2>1, KindShape
  <2>3. joined' \subseteq Clients
    BY <1>7, <2>2 DEF Typed, Finish
  <2>4. asked' \in [Pairs -> {"nothing", "in", "out"}]
    <3>1. CASE Tail(req[r]) \in Pairs
      <4>1. \E a \in {"nothing", "in", "out"} : asked' = [asked EXCEPT ![Tail(req[r])] = a]
        BY <1>7, <3>1 DEF Typed, Finish
      <4>2. QED
        BY <4>1 DEF Typed
    <3>2. CASE Tail(req[r]) \notin Pairs
      BY <1>7, <3>2 DEF Typed, Finish
    <3>3. QED
      BY <3>1, <3>2
  <2>5. pc' \in [Requests -> {"idle", "accepted", "changed", "done"}]
        /\ req' \in [Requests -> Asks \cup {<<>>}] /\ mixed' \subseteq Requests
    BY <1>7 DEF Typed, Finish
  <2>6. \A u \in Uris : Entry(u)' \in Seq(Clients)
    BY <1>7, EntryKept DEF Typed, Finish
  <2>7. QED
    BY <1>7, <2>3, <2>4, <2>5, <2>6 DEF Typed, Finish
<1>8. CASE BroadcastListChanged
  <2>1. sinks' \in Seq(Clients) /\ rest' \in Seq(Clients)
    BY <1>8, BroadcastDoes
  <2>2. \A u \in Uris : Entry(u)' \in Seq(Clients)
    BY <1>8, EntryKept DEF Typed, BroadcastListChanged
  <2>3. told' \in Seq(Clients) /\ due' \subseteq Clients
    BY <1>8 DEF Typed, BroadcastListChanged, BeginCall, Sure
  <2>4. QED
    BY <1>8, <2>1, <2>2, <2>3 DEF Typed, BroadcastListChanged, BeginCall
<1>9. ASSUME NEW u \in Uris, NotifyResourceUpdated(u)
      PROVE  Typed'
  <2>1. rest' \in Seq(Clients) /\ Entry(u)' = rest' /\ \A v \in Uris \ {u} : Entry(v)' = Entry(v)
    BY <1>9, UpdateDoes
  <2>2. \A v \in Uris : Entry(v)' \in Seq(Clients)
    BY <2>1 DEF Typed
  <2>3. told' \in Seq(Clients) /\ due' \subseteq Clients
    BY <1>9 DEF Typed, NotifyResourceUpdated, BeginCall, Sure
  <2>4. QED
    BY <1>9, <2>1, <2>2, <2>3 DEF Typed, NotifyResourceUpdated, BeginCall
<1>10. CASE SendNext
  <2>1. rest' \in Seq(Clients) /\ told' \in Seq(Clients)
    BY <1>10, SendDoes
  <2>2. late' \in [Pairs -> Nat]
    <3>1. late' = late \/ \E p \in Pairs : late' = [late EXCEPT ![p] = late[p] + 1]
      BY <1>10 DEF SendNext
    <3>2. QED
      BY <3>1 DEF Typed
  <2>3. \A v \in Uris : Entry(v)' \in Seq(Clients)
    BY <1>10, EntryKept DEF Typed, SendNext
  <2>4. QED
    BY <1>10, <2>1, <2>2, <2>3 DEF Typed, SendNext
<1>11. CASE EndCall
  BY <1>11 DEF Typed, EndCall, Entry
<1>12. CASE Start \/ Stop
  BY <1>12 DEF Typed, Start, Stop, Entry
<1>13. QED
  BY <1>1, <1>2, <1>3, <1>5, <1>6, <1>7, <1>8, <1>9, <1>10, <1>11, <1>12 DEF Next

\* A request that changes a list goes on running.
LEMMA ChangeDoes ==
    ASSUME Typed, NEW r \in Requests, NEW kind, Change(r, kind)
    PROVE  /\ pc[r] = "accepted" /\ pc'[r] = "changed" /\ OnlyRequest(r)
           /\ UNCHANGED <<server, gen, born, open, req, calling, rest, due, told,
                          joined, asked, mixed, late>>
BY DEF Typed, Change, OnlyRequest

LEMMA KnownStep ==
    ASSUME Typed, Known, [Next]_vars
    PROVE  Known'
<1>1. CASE UNCHANGED vars
  BY <1>1 DEF Known, Born, vars
<1>2. ASSUME NEW c \in Clients, Connect(c)
      PROVE  Known'
  <2>1. /\ gen # 0 /\ server' = server /\ gen' = gen
        /\ born'[c] = gen /\ \A d \in Clients \ {c} : born'[d] = born[d]
        /\ open' = open \cup {c}
        /\ UNCHANGED <<pc, req, joined, due, asked>>
    BY <1>2 DEF Known, Typed, Connect
  <2>2. \A d \in Clients : Born(d) => Born(d)'
    BY <2>1 DEF Born
  <2>3. Born(c)'
    BY <2>1 DEF Born
  <2>4. \A r \in Requests : req[r] \in Asks => req[r][2] \in Clients
    BY KindShape
  <2>5. open \cup joined \cup due \subseteq Clients
    BY DEF Typed
  <2>6. \A d \in open' \cup joined' \cup due' : Born(d)'
    <3>1. \A d \in open \cup joined \cup due : d \in Clients /\ Born(d)
      BY <2>5 DEF Known
    <3>2. QED
      BY <2>1, <2>2, <2>3, <3>1
  <2>7. ASSUME NEW r \in Requests, pc'[r] \in {"accepted", "changed"}
        PROVE  req'[r] \in Asks /\ born'[req'[r][2]] # 0
    <3>1. req[r] \in Asks /\ born[req[r][2]] # 0
      BY <2>1, <2>7 DEF Known, Born
    <3>2. PICK q \in Asks : q = req[r]
      BY <3>1
    <3>3. q[2] \in Clients
      BY KindShape
    <3>4. born'[q[2]] # 0
      BY <2>2, <3>1, <3>2, <3>3 DEF Born
    <3>5. QED
      BY <2>1, <3>2, <3>4
  <2>8. ASSUME NEW d \in Clients, NEW v \in Uris, asked'[<<d, v>>] # "nothing"
        PROVE  Born(d)'
    BY <2>1, <2>2, <2>8 DEF Known
  <2>9. server' = "up" => gen' # 0
    BY <2>1
  <2>10. \A d \in open' \cup joined' \cup due' : born'[d] # 0
    BY <2>6 DEF Born
  <2>11. \A d \in Clients, v \in Uris : asked'[<<d, v>>] # "nothing" => born'[d] # 0
    BY <2>8 DEF Born
  <2>12. QED
    BY <2>7, <2>9, <2>10, <2>11, Zenon DEF Known, Born
<1>3. ASSUME NEW c \in Clients, Close(c)
      PROVE  Known'
  BY <1>3 DEF Known, Born, Close
<1>4. ASSUME NEW r \in Requests, NEW q \in Asks, Accept(r, q)
      PROVE  Known'
  <2>1. UNCHANGED <<server, gen, born, open, joined, due>>
    BY <1>4 DEF Accept
  <2>2. Born(q[2])
    BY <1>4, AcceptDoes DEF Known
  <2>3. ASSUME NEW d \in Clients, NEW v \in Uris, asked'[<<d, v>>] # "nothing"
        PROVE  asked[<<d, v>>] # "nothing"
    <3>1. CASE asked' = asked
      BY <2>3, <3>1
    <3>2. CASE \E kind \in {"subscribe", "unsubscribe"}, c \in Clients, u \in Uris :
                  /\ asked'[<<c, u>>] \in {asked[<<c, u>>], "nothing"}
                  /\ OnlyPair(c, u)
      <4>1. PICK c \in Clients, u \in Uris :
               asked'[<<c, u>>] \in {asked[<<c, u>>], "nothing"} /\ OnlyPair(c, u)
        BY <3>2
      <4>2. CASE <<d, v>> = <<c, u>>
        BY <2>3, <4>1, <4>2
      <4>3. CASE <<d, v>> # <<c, u>>
        BY <2>3, <4>1, <4>3 DEF OnlyPair
      <4>4. QED
        BY <4>2, <4>3
    <3>3. QED
      BY <1>4, <3>1, <3>2, AcceptDoes
  <2>4. \A s \in Requests :
           pc'[s] \in {"accepted", "changed"} => req'[s] \in Asks /\ Born(req'[s][2])
    BY <1>4, <2>2, AcceptDoes DEF Known, OnlyRequest
  <2>5. QED
    BY <2>1, <2>3, <2>4 DEF Known, Born
<1>5. ASSUME NEW r \in Requests, NEW kind, Change(r, kind)
      PROVE  Known'
  BY <1>5, ChangeDoes DEF Known, Born, OnlyRequest
<1>6. ASSUME NEW r \in Requests, Finish(r)
      PROVE  Known'
  <2>1. UNCHANGED <<server, gen, born, open, due>>
    BY <1>6 DEF Finish
  <2>2. Born(req[r][2]) /\ req[r] \in Asks
    BY <1>6, FinishDoes DEF Known
  <2>3. \A s \in Requests :
           pc'[s] \in {"accepted", "changed"} => req'[s] \in Asks /\ Born(req'[s][2])
    BY <1>6, FinishDoes DEF Known, OnlyRequest
  <2>4. ASSUME NEW d \in Clients, NEW v \in Uris, asked'[<<d, v>>] # "nothing"
        PROVE  Born(d)
    <3>1. asked[<<d, v>>] # "nothing" \/ d = req[r][2]
      <4>1. CASE asked' = asked
        BY <2>4, <4>1
      <4>2. CASE \E kind \in {"subscribe", "unsubscribe"}, c \in Clients, u \in Uris :
                    req[r] = <<kind, c, u>> /\ OnlyPair(c, u)
        <5>1. PICK kind \in {"subscribe", "unsubscribe"}, c \in Clients, u \in Uris :
                 req[r] = <<kind, c, u>> /\ OnlyPair(c, u)
          BY <4>2
        <5>2. <<d, v>> # <<c, u>> => asked'[<<d, v>>] = asked[<<d, v>>]
          BY <5>1 DEF OnlyPair
        <5>3. <<d, v>> = <<c, u>> => d = c
          OBVIOUS
        <5>4. req[r][2] = c
          BY <5>1
        <5>5. QED
          BY <2>4, <5>2, <5>3, <5>4, Zenon
      <4>3. QED
        BY <1>6, <4>1, <4>2, FinishDoes
    <3>2. QED
      BY <2>2, <3>1 DEF Known
  <2>5. joined' \subseteq joined \cup {req[r][2]}
    <3>1. CASE joined' = joined
      BY <3>1
    <3>2. CASE \E c \in Clients : req[r] = <<"initialized", c, "none">> /\ joined' = joined \cup {c}
      BY <3>2
    <3>3. QED
      BY <1>6, <3>1, <3>2, FinishDoes
  <2>6. QED
    BY <2>1, <2>2, <2>3, <2>4, <2>5 DEF Known, Born
<1>7. ASSUME NEW what, NEW copy, BeginCall(what, copy)
      PROVE  Known'
  BY <1>7 DEF Known, Born, BeginCall
<1>8. CASE SendNext \/ EndCall \/ Stop
  BY <1>8 DEF Known, Born, SendNext, EndCall, Stop
<1>9. CASE Start
  <2>1. gen' # 0
    <3>1. gen \in Nat /\ gen' = gen + 1
      BY <1>9, Settings DEF Typed, Start
    <3>2. QED
      BY <3>1
  <2>2. QED
    BY <1>9, <2>1 DEF Known, Born, Start
<1>10. QED
  BY <1>1, <1>2, <1>3, <1>4, <1>5, <1>6, <1>7, <1>8, <1>9
     DEF Next, AddSink, Subscribe, Unsubscribe, BroadcastListChanged, NotifyResourceUpdated

\* Steps that only look at the state of requests.
RequestsRest == UNCHANGED <<pc, req, asked, mixed>>

LEMMA WhoMovesRequests ==
    ASSUME [Next]_vars
    PROVE  \/ RequestsRest
           \/ \E r \in Requests, q \in Asks : Accept(r, q)
           \/ \E r \in Requests : AddSink(r) \/ Subscribe(r) \/ Unsubscribe(r) \/ Finish(r)
<1>1. ASSUME NEW c \in Clients, Connect(c) \/ Close(c)
      PROVE  RequestsRest
  BY <1>1 DEF Connect, Close, RequestsRest
<1>2. CASE BroadcastListChanged \/ \E u \in Uris : NotifyResourceUpdated(u)
  BY <1>2 DEF BroadcastListChanged, NotifyResourceUpdated, BeginCall, RequestsRest
<1>3. CASE SendNext \/ EndCall \/ Start \/ Stop \/ UNCHANGED vars
  BY <1>3 DEF SendNext, EndCall, Start, Stop, vars, RequestsRest
<1>4. QED
  BY <1>1, <1>2, <1>3 DEF Next

LEMMA OverlapsStep ==
    ASSUME Typed, Known, Overlaps, [Next]_vars
    PROVE  Overlaps'
<1>1. CASE RequestsRest
  BY <1>1 DEF RequestsRest, Overlaps, Runs
<1>2. ASSUME NEW r \in Requests, NEW q \in Asks, Accept(r, q),
             NEW s \in Requests, NEW t \in Requests, NEW c \in Clients, NEW u \in Uris,
             Runs(s, "subscribe", c, u)', Runs(t, "unsubscribe", c, u)'
      PROVE  s \in mixed' /\ t \in mixed'
  <2>1. /\ s # r => Runs(s, "subscribe", c, u)
        /\ t # r => Runs(t, "unsubscribe", c, u)
        /\ s = r => q = <<"subscribe", c, u>>
        /\ t = r => q = <<"unsubscribe", c, u>>
        /\ mixed \subseteq mixed'
    BY <1>2, AcceptDoes DEF Runs, OnlyRequest
  <2>2. CASE s # r /\ t # r
    BY <2>1, <2>2 DEF Overlaps
  <2>3. CASE s = r
    <3>1. Runs(t, "unsubscribe", c, u)
      BY <2>1, <2>3
    <3>2. QED
      BY <1>2, <2>1, <2>3, <3>1, AcceptDoes
  <2>4. CASE t = r
    <3>1. Runs(s, "subscribe", c, u)
      BY <2>1, <2>4
    <3>2. QED
      BY <1>2, <2>1, <2>4, <3>1, AcceptDoes
  <2>5. QED
    BY <2>2, <2>3, <2>4
<1>3. ASSUME NEW r \in Requests, NEW kind, Change(r, kind)
      PROVE  Overlaps'
  BY <1>3, ChangeDoes DEF Overlaps, Runs, OnlyRequest
<1>4. ASSUME NEW r \in Requests, Finish(r)
      PROVE  Overlaps'
  <2>1. \A s \in Requests : \A kind, c, u : Runs(s, kind, c, u)' => s # r /\ Runs(s, kind, c, u)
    BY <1>4, FinishDoes DEF Runs, OnlyRequest
  <2>2. mixed' = mixed \ {r}
    BY <1>4, FinishDoes
  <2>3. QED
    BY <2>1, <2>2 DEF Overlaps
<1>5. QED
  <2>1. ASSUME NEW r \in Requests, NEW q \in Asks, Accept(r, q)
        PROVE  Overlaps'
    BY <1>2, <2>1 DEF Overlaps
  <2>2. QED
    BY <1>1, <1>3, <1>4, <2>1, WhoMovesRequests DEF AddSink, Subscribe, Unsubscribe

\* A client may take something else for granted only after an answer.
LEMMA AskedMoves ==
    ASSUME Typed, Known, [Next]_vars, NEW c \in Clients, NEW u \in Uris,
           asked'[<<c, u>>] # asked[<<c, u>>], asked'[<<c, u>>] # "nothing"
    PROVE  \E r \in Requests, kind \in {"subscribe", "unsubscribe"} :
              /\ Finish(r) /\ pc[r] = "changed" /\ r \notin mixed
              /\ req[r] = <<kind, c, u>> /\ asked'[<<c, u>>] = Settled(kind)
<1>1. ~RequestsRest
  BY DEF RequestsRest
<1>2. ASSUME NEW r \in Requests, NEW kind, Change(r, kind)
      PROVE  FALSE
  BY <1>2, ChangeDoes
<1>3. ASSUME NEW r \in Requests, NEW q \in Asks, Accept(r, q)
      PROVE  FALSE
  <2>1. asked' # asked
    OBVIOUS
  <2>2. PICK kind \in {"subscribe", "unsubscribe"}, d \in Clients, v \in Uris :
           /\ asked'[<<d, v>>] \in {asked[<<d, v>>], "nothing"}
           /\ OnlyPair(d, v)
    BY <1>3, <2>1, AcceptDoes
  <2>3. <<d, v>> # <<c, u>>
    BY <2>2
  <2>4. QED
    BY <2>2, <2>3 DEF OnlyPair
<1>4. PICK r \in Requests : Finish(r)
  BY <1>1, <1>2, <1>3, WhoMovesRequests DEF AddSink, Subscribe, Unsubscribe
<1>5. asked' # asked
  OBVIOUS
<1>6. PICK kind \in {"subscribe", "unsubscribe"}, d \in Clients, v \in Uris :
         /\ req[r] = <<kind, d, v>>
         /\ asked'[<<d, v>>] = IF r \in mixed THEN asked[<<d, v>>] ELSE Settled(kind)
         /\ OnlyPair(d, v)
  BY <1>4, <1>5, FinishDoes
<1>7. <<d, v>> = <<c, u>>
  BY <1>6 DEF OnlyPair
<1>8. d = c /\ v = u
  BY <1>7
<1>9. QED
  BY <1>4, <1>6, <1>8, FinishDoes

LEMMA PendingStep ==
    ASSUME Typed, Known, Overlaps, Pending, [Next]_vars
    PROVE  Pending'
<1> DEFINE Opposite(kind) == IF kind = "subscribe" THEN "out" ELSE "in"
           Kinds == {"subscribe", "unsubscribe"}
<1>1. ASSUME NEW r \in Requests, NEW kind \in Kinds, NEW c \in Clients, NEW u \in Uris,
             Runs(r, kind, c, u), asked'[<<c, u>>] = Opposite(kind)
      PROVE  pc'[r] = "done"
  <2>1. asked[<<c, u>>] # Opposite(kind) /\ Opposite(kind) # "nothing"
    BY <1>1 DEF Pending
  <2>2. PICK s \in Requests, other \in Kinds :
           /\ Finish(s) /\ pc[s] = "changed" /\ s \notin mixed
           /\ req[s] = <<other, c, u>> /\ asked'[<<c, u>>] = Settled(other)
    BY <1>1, <2>1, AskedMoves
  <2>3. other # kind
    BY <1>1, <2>2 DEF Settled
  <2>4. Runs(s, other, c, u)
    BY <2>2 DEF Runs
  <2>5. s \in mixed
    BY <1>1, <2>3, <2>4 DEF Overlaps
  <2>6. QED
    BY <2>2, <2>5
<1>2. ASSUME NEW r \in Requests, NEW kind \in Kinds, NEW c \in Clients, NEW u \in Uris,
             Runs(r, kind, c, u)'
      PROVE  asked'[<<c, u>>] # Opposite(kind)
  <2>1. CASE Runs(r, kind, c, u)
    <3>1. pc'[r] # "done"
      BY <1>2 DEF Runs
    <3>2. QED
      BY <1>1, <2>1, <3>1
  <2>2. CASE ~Runs(r, kind, c, u)
    <3>1. ~RequestsRest
      BY <1>2, <2>2 DEF RequestsRest, Runs
    <3>2. ASSUME NEW s \in Requests, NEW k, Change(s, k)
          PROVE  FALSE
      BY <1>2, <2>2, <3>2, ChangeDoes DEF Runs, OnlyRequest
    <3>3. ASSUME NEW s \in Requests, Finish(s)
          PROVE  FALSE
      BY <1>2, <2>2, <3>3, FinishDoes DEF Runs, OnlyRequest
    <3>4. PICK s \in Requests, q \in Asks : Accept(s, q)
      BY <3>1, <3>2, <3>3, WhoMovesRequests DEF AddSink, Subscribe, Unsubscribe
    <3>5. s = r /\ q = <<kind, c, u>>
      BY <1>2, <2>2, <3>4, AcceptDoes DEF Runs, OnlyRequest
    <3>6. asked'[<<c, u>>] \in {Settled(kind), "nothing"}
      BY <3>4, <3>5, AcceptSettles
    <3>7. QED
      BY <3>6 DEF Settled
  <2>3. QED
    BY <2>1, <2>2
<1>3. QED
  BY <1>2 DEF Pending

\* A session is opened only once.
LEMMA OpenMoves ==
    ASSUME Typed, Known, [Next]_vars, NEW c \in Clients, c \in open', Born(c)
    PROVE  c \in open
<1>1. ASSUME NEW d \in Clients, Connect(d)
      PROVE  c \in open
  BY <1>1 DEF Connect, Born
<1>2. ASSUME NEW d \in Clients, Close(d)
      PROVE  c \in open
  BY <1>2 DEF Close
<1>3. CASE \A d \in Clients : ~Connect(d) /\ ~Close(d)
  <2>1. open' = open
    BY <1>3 DEF Next, vars, Accept, AddSink, Subscribe, Unsubscribe, Change, Finish,
                BroadcastListChanged, NotifyResourceUpdated, BeginCall, SendNext, EndCall,
                Start, Stop
  <2>2. QED
    BY <2>1
<1>4. QED
  BY <1>1, <1>2, <1>3

\* A session enters a list of subscribers, or leaves it while open, only at a
\* request of its own.
LEMMA EntryMoves ==
    ASSUME Typed, Known, [Next]_vars, NEW c \in Clients, NEW u \in Uris
    PROVE  /\ Contains(Entry(u)', c) /\ ~Contains(Entry(u), c) =>
                 \E r \in Requests : Runs(r, "subscribe", c, u)
           /\ ~Contains(Entry(u)', c) /\ Contains(Entry(u), c) /\ c \in open =>
                 \E r \in Requests : Runs(r, "unsubscribe", c, u)
<1>1. ASSUME NEW r \in Requests, Subscribe(r)
      PROVE  /\ Contains(Entry(u)', c) /\ ~Contains(Entry(u), c) => Runs(r, "subscribe", c, u)
             /\ Contains(Entry(u), c) /\ c \in open => Contains(Entry(u)', c)
  <2>1. PICK d \in Clients, v \in Uris :
           /\ req[r] = <<"subscribe", d, v>>
           /\ \A w \in Uris \ {v} : Entry(w)' = Entry(w)
           /\ \A e \in Clients :
                 Contains(Entry(v)', e) <=> (Contains(Entry(v), e) \/ e = d) /\ e \in open
    BY <1>1, SubscribeDoes
  <2>2. pc[r] = "accepted"
    BY <1>1 DEF Subscribe, Change
  <2>3. CASE u = v
    BY <2>1, <2>2, <2>3 DEF Runs
  <2>4. CASE u # v
    <3>1. Entry(u)' = Entry(u)
      BY <2>1, <2>4
    <3>2. QED
      BY <3>1, Zenon
  <2>5. QED
    BY <2>3, <2>4
<1>2. ASSUME NEW r \in Requests, Unsubscribe(r)
      PROVE  /\ Contains(Entry(u)', c) => Contains(Entry(u), c)
             /\ ~Contains(Entry(u)', c) /\ Contains(Entry(u), c) /\ c \in open =>
                   Runs(r, "unsubscribe", c, u)
  <2>1. PICK d \in Clients, v \in Uris :
           /\ req[r] = <<"unsubscribe", d, v>>
           /\ \A w \in Uris \ {v} : Entry(w)' = Entry(w)
           /\ \A e \in Clients :
                 Contains(Entry(v)', e) <=> Contains(Entry(v), e) /\ e \in open /\ e # d
    BY <1>2, UnsubscribeDoes
  <2>2. pc[r] = "accepted"
    BY <1>2 DEF Unsubscribe, Change
  <2>3. CASE u = v
    BY <2>1, <2>2, <2>3 DEF Runs
  <2>4. CASE u # v
    <3>1. Entry(u)' = Entry(u)
      BY <2>1, <2>4
    <3>2. QED
      BY <3>1, Zenon
  <2>5. QED
    BY <2>3, <2>4
<1>3. ASSUME NEW v \in Uris, NotifyResourceUpdated(v)
      PROVE  /\ Contains(Entry(u)', c) => Contains(Entry(u), c)
             /\ Contains(Entry(u), c) /\ c \in open => Contains(Entry(u)', c)
  <2>1. /\ \A w \in Uris \ {v} : Entry(w)' = Entry(w)
        /\ Entry(v)' = rest'
        /\ Contains(rest', c) <=> Contains(Entry(v), c) /\ c \in open
    BY <1>3, UpdateDoes
  <2>2. CASE u = v
    BY <2>1, <2>2
  <2>3. CASE u # v
    <3>1. Entry(u)' = Entry(u)
      BY <2>1, <2>3
    <3>2. QED
      BY <3>1, Zenon
  <2>4. QED
    BY <2>2, <2>3
<1>4. CASE subs' = subs
  <2>1. Entry(u)' = Entry(u)
    BY <1>4, EntryKept
  <2>2. QED
    BY <2>1, Zenon
<1>5. \/ subs' = subs
      \/ \E r \in Requests : Subscribe(r) \/ Unsubscribe(r)
      \/ \E v \in Uris : NotifyResourceUpdated(v)
  BY DEF Next, vars, Connect, Close, Accept, AddSink, Change, Finish,
         BroadcastListChanged, BeginCall, SendNext, EndCall, Start, Stop
<1>6. QED
  BY <1>1, <1>2, <1>3, <1>4, <1>5

\* What the handler of a request does to the lists is done when it is "changed".
LEMMA ChangedHow ==
    ASSUME Typed, Known, [Next]_vars, NEW r \in Requests, pc'[r] = "changed"
    PROVE  /\ pc[r] \in {"accepted", "changed"} /\ req'[r] = req[r]
           /\ r \notin mixed' => r \notin mixed
           /\ pc[r] = "changed" \/ AddSink(r) \/ Subscribe(r) \/ Unsubscribe(r)
<1>1. CASE RequestsRest
  BY <1>1 DEF RequestsRest
<1>2. ASSUME NEW s \in Requests, NEW q \in Asks, Accept(s, q)
      PROVE  pc[r] = "changed" /\ req'[r] = req[r] /\ (r \notin mixed' => r \notin mixed)
  <2>1. s # r
    BY <1>2, AcceptDoes
  <2>2. QED
    BY <1>2, <2>1, AcceptDoes DEF OnlyRequest
<1>3. ASSUME NEW s \in Requests, AddSink(s) \/ Subscribe(s) \/ Unsubscribe(s)
      PROVE  /\ pc[r] \in {"accepted", "changed"} /\ req'[r] = req[r] /\ mixed' = mixed
             /\ pc[r] = "changed" \/ s = r
  <2>1. PICK kind : Change(s, kind)
    BY <1>3 DEF AddSink, Subscribe, Unsubscribe
  <2>2. QED
    BY <2>1, ChangeDoes DEF OnlyRequest
<1>4. ASSUME NEW s \in Requests, Finish(s)
      PROVE  pc[r] = "changed" /\ req'[r] = req[r] /\ (r \notin mixed' => r \notin mixed)
  <2>1. s # r
    BY <1>4, FinishDoes
  <2>2. QED
    BY <1>4, <2>1, FinishDoes DEF OnlyRequest
<1>5. QED
  BY <1>1, <1>2, <1>3, <1>4, WhoMovesRequests

LEMMA InEffectStep ==
    ASSUME Typed, Known, Overlaps, InEffect, [Next]_vars
    PROVE  InEffect'
<1> SUFFICES ASSUME NEW r \in Requests, NEW c \in Clients, NEW u \in Uris,
                    pc'[r] = "changed", r \notin mixed'
             PROVE  /\ req'[r] = <<"subscribe", c, u>> /\ c \in open' => Contains(Entry(u)', c)
                    /\ req'[r] = <<"unsubscribe", c, u>> => ~Contains(Entry(u)', c)
  BY DEF InEffect
<1>1. /\ pc[r] \in {"accepted", "changed"} /\ req'[r] = req[r] /\ r \notin mixed
      /\ pc[r] = "changed" \/ AddSink(r) \/ Subscribe(r) \/ Unsubscribe(r)
  BY ChangedHow
<1>2. ASSUME req[r] = <<"subscribe", c, u>>, c \in open'
      PROVE  Contains(Entry(u)', c)
  <2>1. Runs(r, "subscribe", c, u)
    BY <1>1, <1>2 DEF Runs
  <2>2. Born(c)
    <3>1. Born(req[r][2])
      BY <1>1 DEF Known
    <3>2. req[r][2] = c
      BY <1>2
    <3>3. QED
      BY <3>1, <3>2
  <2>3. c \in open
    BY <1>2, <2>2, OpenMoves
  <2>4. CASE pc[r] = "changed"
    <3>1. Contains(Entry(u), c)
      BY <1>1, <1>2, <2>3, <2>4 DEF InEffect
    <3>2. ASSUME NEW s \in Requests, Runs(s, "unsubscribe", c, u)
          PROVE  FALSE
      BY <1>1, <2>1, <3>2 DEF Overlaps
    <3>3. QED
      BY <2>3, <3>1, <3>2, EntryMoves
  <2>5. CASE Subscribe(r)
    <3>1. PICK d \in Clients, v \in Uris :
             /\ req[r] = <<"subscribe", d, v>>
             /\ \A e \in Clients :
                   Contains(Entry(v)', e) <=> (Contains(Entry(v), e) \/ e = d) /\ e \in open
      BY <2>5, SubscribeDoes
    <3>2. d = c /\ v = u
      BY <1>2, <3>1
    <3>3. QED
      BY <2>3, <3>1, <3>2
  <2>6. req[r][1] = "subscribe"
    BY <1>2
  <2>7. QED
    BY <1>1, <2>4, <2>5, <2>6 DEF AddSink, Unsubscribe, Change
<1>3. ASSUME req[r] = <<"unsubscribe", c, u>>
      PROVE  ~Contains(Entry(u)', c)
  <2>1. Runs(r, "unsubscribe", c, u)
    BY <1>1, <1>3 DEF Runs
  <2>2. CASE pc[r] = "changed"
    <3>1. ~Contains(Entry(u), c)
      BY <1>1, <1>3, <2>2 DEF InEffect
    <3>2. ASSUME NEW s \in Requests, Runs(s, "subscribe", c, u)
          PROVE  FALSE
      BY <1>1, <2>1, <3>2 DEF Overlaps
    <3>3. QED
      BY <3>1, <3>2, EntryMoves
  <2>3. CASE Unsubscribe(r)
    <3>1. PICK d \in Clients, v \in Uris :
             /\ req[r] = <<"unsubscribe", d, v>>
             /\ \A e \in Clients :
                   Contains(Entry(v)', e) <=> Contains(Entry(v), e) /\ e \in open /\ e # d
      BY <2>3, UnsubscribeDoes
    <3>2. d = c /\ v = u
      BY <1>3, <3>1
    <3>3. QED
      BY <3>1, <3>2
  <2>4. req[r][1] = "unsubscribe"
    BY <1>3
  <2>5. QED
    BY <1>1, <2>2, <2>3, <2>4 DEF AddSink, Subscribe, Change
<1>4. QED
  BY <1>1, <1>2, <1>3

LEMMA AnsweredStep ==
    ASSUME Typed, Known, Pending, InEffect, SubscriptionsAsAnswered, [Next]_vars
    PROVE  SubscriptionsAsAnswered'
<1> SUFFICES ASSUME NEW c \in Clients, NEW u \in Uris
             PROVE  /\ asked'[<<c, u>>] = "in" /\ c \in open' => Contains(Entry(u)', c)
                    /\ asked'[<<c, u>>] = "out" => ~Contains(Entry(u)', c)
  BY DEF SubscriptionsAsAnswered
<1>1. CASE asked'[<<c, u>>] = asked[<<c, u>>]
  <2>1. ASSUME asked[<<c, u>>] = "in", c \in open'
        PROVE  Contains(Entry(u)', c)
    <3>1. Born(c)
      BY <2>1 DEF Known
    <3>2. c \in open
      BY <2>1, <3>1, OpenMoves
    <3>3. Contains(Entry(u), c)
      BY <2>1, <3>2 DEF SubscriptionsAsAnswered
    <3>4. \A r \in Requests : ~Runs(r, "unsubscribe", c, u)
      BY <2>1 DEF Pending
    <3>5. QED
      BY <3>2, <3>3, <3>4, EntryMoves
  <2>2. ASSUME asked[<<c, u>>] = "out"
        PROVE  ~Contains(Entry(u)', c)
    <3>1. ~Contains(Entry(u), c)
      BY <2>2 DEF SubscriptionsAsAnswered
    <3>2. \A r \in Requests : ~Runs(r, "subscribe", c, u)
      BY <2>2 DEF Pending
    <3>3. QED
      BY <3>1, <3>2, EntryMoves
  <2>3. QED
    BY <1>1, <2>1, <2>2
<1>2. CASE asked'[<<c, u>>] = "nothing"
  BY <1>2
<1>3. CASE asked'[<<c, u>>] # asked[<<c, u>>] /\ asked'[<<c, u>>] # "nothing"
  <2>1. PICK r \in Requests, kind \in {"subscribe", "unsubscribe"} :
           /\ Finish(r) /\ pc[r] = "changed" /\ r \notin mixed
           /\ req[r] = <<kind, c, u>> /\ asked'[<<c, u>>] = Settled(kind)
    BY <1>3, AskedMoves
  <2>2. open' = open /\ subs' = subs
    BY <2>1 DEF Finish
  <2>3. Entry(u)' = Entry(u)
    BY <2>2, EntryKept
  <2>4. /\ kind = "subscribe" /\ c \in open => Contains(Entry(u), c)
        /\ kind = "unsubscribe" => ~Contains(Entry(u), c)
    BY <2>1 DEF InEffect
  <2>5. QED
    BY <2>1, <2>2, <2>3, <2>4 DEF Settled
<1>4. QED
  BY <1>1, <1>2, <1>3

\* A session leaves the list of initialized clients only when it is closed.
LEMMA SinksMove ==
    ASSUME Typed, Known, [Next]_vars, NEW c \in Clients, Contains(sinks, c), c \in open
    PROVE  Contains(sinks', c)
<1>1. ASSUME NEW r \in Requests, AddSink(r)
      PROVE  Contains(sinks', c)
  BY <1>1, AddSinkDoes
<1>2. CASE BroadcastListChanged
  BY <1>2, BroadcastDoes
<1>3. CASE sinks' = sinks
  BY <1>3
<1>4. sinks' = sinks \/ BroadcastListChanged \/ \E r \in Requests : AddSink(r)
  BY DEF Next, vars, Connect, Close, Accept, Subscribe, Unsubscribe, Change, Finish,
         NotifyResourceUpdated, BeginCall, SendNext, EndCall, Start, Stop
<1>5. QED
  BY <1>1, <1>2, <1>3, <1>4

LEMMA JoinedStep ==
    ASSUME Typed, Known, Joined, [Next]_vars
    PROVE  Joined'
<1>1. ASSUME NEW c \in joined', c \in open'
      PROVE  Contains(sinks', c)
  <2>1. CASE c \in joined
    <3>1. c \in Clients /\ Born(c)
      BY <2>1 DEF Typed, Known
    <3>2. c \in open
      BY <1>1, <3>1, OpenMoves
    <3>3. QED
      BY <2>1, <3>1, <3>2, SinksMove DEF Joined
  <2>2. CASE c \notin joined
    <3>1. PICK r \in Requests : Finish(r)
      <4>1. joined' # joined
        BY <1>1, <2>2
      <4>2. QED
        BY <4>1 DEF Next, vars, Connect, Close, Accept, AddSink, Subscribe, Unsubscribe, Change,
                    BroadcastListChanged, NotifyResourceUpdated, BeginCall, SendNext, EndCall,
                    Start, Stop
    <3>2. open' = open /\ sinks' = sinks /\ pc[r] = "changed"
      BY <3>1 DEF Finish
    <3>3. req[r] = <<"initialized", c, "none">>
      <4>1. joined' # joined
        BY <1>1, <2>2
      <4>2. PICK d \in Clients :
               req[r] = <<"initialized", d, "none">> /\ joined' = joined \cup {d}
        BY <3>1, <4>1, FinishDoes
      <4>3. d = c
        BY <1>1, <2>2, <4>2
      <4>4. QED
        BY <4>2, <4>3
    <3>4. QED
      BY <1>1, <3>2, <3>3 DEF Joined
  <2>3. QED
    BY <2>1, <2>2
<1>2. ASSUME NEW r \in Requests, NEW c \in open', pc'[r] = "changed",
             req'[r] = <<"initialized", c, "none">>
      PROVE  Contains(sinks', c)
  <2>1. /\ pc[r] \in {"accepted", "changed"} /\ req[r] = <<"initialized", c, "none">>
        /\ pc[r] = "changed" \/ AddSink(r) \/ Subscribe(r) \/ Unsubscribe(r)
    BY <1>2, ChangedHow
  <2>2. req[r][1] = "initialized" /\ req[r][2] = c
    BY <2>1
  <2>3. c \in Clients /\ Born(c)
    <3>1. req[r] \in Asks /\ Born(req[r][2])
      BY <2>1 DEF Known
    <3>2. QED
      BY <2>2, <3>1, KindShape
  <2>4. c \in open
    BY <2>3, OpenMoves
  <2>5. CASE pc[r] = "changed"
    BY <2>1, <2>3, <2>4, <2>5, SinksMove DEF Joined
  <2>6. CASE AddSink(r)
    <3>1. PICK d \in Clients :
             /\ req[r] = <<"initialized", d, "none">>
             /\ \A e \in Clients : Contains(sinks', e) <=> (Contains(sinks, e) \/ e = d) /\ e \in open
      BY <2>6, AddSinkDoes
    <3>2. d = c
      BY <2>2, <3>1
    <3>3. QED
      BY <2>3, <2>4, <3>1, <3>2
  <2>7. QED
    BY <2>1, <2>2, <2>5, <2>6 DEF Subscribe, Unsubscribe, Change
<1>3. QED
  BY <1>1, <1>2 DEF Joined

\* The 1C thread alone changes the state of its call.
LEMMA WhoMovesTheCall ==
    ASSUME [Next]_vars
    PROVE  \/ UNCHANGED <<calling, rest, due, told>>
           \/ BroadcastListChanged
           \/ \E u \in Uris : NotifyResourceUpdated(u)
           \/ SendNext
           \/ EndCall
BY DEF Next, vars, Connect, Close, Accept, AddSink, Subscribe, Unsubscribe, Change, Finish,
       Start, Stop

LEMMA ServedStep ==
    ASSUME Typed, Known, SubscriptionsAsAnswered, Joined, Served, [Next]_vars
    PROVE  Served'
<1> SUFFICES ASSUME calling' # "none", NEW c \in due', c \in open'
             PROVE  Contains(told', c) \/ Contains(rest', c)
  BY DEF Served
<1>1. CASE UNCHANGED <<calling, rest, due, told>>
  <2>1. c \in Clients /\ Born(c)
    BY <1>1 DEF Typed, Known
  <2>2. c \in open
    BY <2>1, OpenMoves
  <2>3. QED
    BY <1>1, <2>2 DEF Served
<1>2. CASE BroadcastListChanged
  <2>1. c \in joined /\ c \in open
    BY <1>2 DEF BroadcastListChanged, BeginCall, Sure
  <2>2. c \in Clients
    BY <2>1 DEF Typed
  <2>3. Contains(sinks, c)
    BY <2>1 DEF Joined
  <2>4. QED
    BY <1>2, <2>1, <2>2, <2>3, BroadcastDoes
<1>3. ASSUME NEW u \in Uris, NotifyResourceUpdated(u)
      PROVE  Contains(rest', c)
  <2>1. u # "list"
    BY Settings
  <2>2. c \in Clients /\ asked[<<c, u>>] = "in" /\ c \in open
    BY <1>3, <2>1 DEF NotifyResourceUpdated, BeginCall, Sure
  <2>3. Contains(Entry(u), c)
    BY <2>2 DEF SubscriptionsAsAnswered
  <2>4. QED
    BY <1>3, <2>2, <2>3, UpdateDoes
<1>4. CASE SendNext
  <2>1. calling' = calling /\ due' = due /\ open' = open
    BY <1>4 DEF SendNext
  <2>2. c \in Clients
    BY <2>1 DEF Typed
  <2>3. Contains(told, c) \/ Contains(rest, c)
    BY <2>1 DEF Served
  <2>4. QED
    BY <1>4, <2>1, <2>2, <2>3, SendDoes
<1>5. CASE EndCall
  BY <1>5 DEF EndCall
<1>6. QED
  BY <1>1, <1>2, <1>3, <1>4, <1>5, WhoMovesTheCall

\* An update sent too late is counted at the send; it is forgotten when the
\* client subscribes again.
LEMMA LateMoves ==
    ASSUME [Next]_vars
    PROVE  late' = late \/ SendNext \/ \E r \in Requests, q \in Asks : Accept(r, q)
BY DEF Next, vars, Connect, Close, AddSink, Subscribe, Unsubscribe, Change, Finish,
       BroadcastListChanged, NotifyResourceUpdated, BeginCall, EndCall, Start, Stop

LEMMA LateOnceStep ==
    ASSUME Typed, Known, Pending, SubscriptionsAsAnswered, LateOnce, [Next]_vars
    PROVE  LateOnce'
<1>1. Once(rest')
  <2>1. CASE rest' = rest
    BY <2>1 DEF LateOnce
  <2>2. CASE BroadcastListChanged
    BY <2>2, BroadcastDoes
  <2>3. ASSUME NEW u \in Uris, NotifyResourceUpdated(u)
        PROVE  Once(rest')
    BY <2>3, UpdateDoes
  <2>4. CASE SendNext
    BY <2>4, SendDoes DEF LateOnce
  <2>5. CASE EndCall
    BY <2>5 DEF EndCall, LateOnce
  <2>6. QED
    BY <2>1, <2>2, <2>3, <2>4, <2>5, WhoMovesTheCall
<1> SUFFICES ASSUME NEW c \in Clients, NEW u \in Uris
             PROVE  /\ late'[<<c, u>>] <= 1
                    /\ late'[<<c, u>>] # 0 =>
                          asked'[<<c, u>>] = "out" /\ (calling' = u => ~Contains(rest', c))
  BY <1>1 DEF LateOnce
<1> DEFINE p == <<c, u>>
<1>2. p \in Pairs /\ u # "none" /\ u # "list" /\ late[p] \in Nat
  BY Settings DEF Pairs, Typed
<1>3. /\ late[p] <= 1
      /\ late[p] # 0 => asked[p] = "out" /\ (calling = u => ~Contains(rest, c))
  BY DEF LateOnce
<1> HIDE DEF p
\* The update that is sent: the first to this client since it unsubscribed.
<1>4. CASE SendNext
  <2>1. PICK d \in Clients :
           /\ d = Head(rest)
           /\ \A e \in Clients : Contains(rest, e) <=> e = d \/ Contains(rest', e)
           /\ ~Contains(rest', d)
    BY <1>4, SendDoes DEF LateOnce
  <2>2. calling' = calling /\ asked' = asked
    BY <1>4 DEF SendNext
  <2>3. CASE late'[p] = late[p]
    BY <1>3, <2>1, <2>2, <2>3 DEF p
  <2>4. CASE late'[p] # late[p]
    <3>1. late' = [late EXCEPT ![<<d, calling>>] = @ + 1] /\ asked[<<d, calling>>] = "out"
      BY <1>4, <2>1, <2>4 DEF SendNext
    <3>2. p = <<d, calling>>
      BY <1>2, <2>4, <3>1 DEF Typed
    <3>3. d = c /\ calling = u
      BY <3>2 DEF p
    <3>4. late'[p] = late[p] + 1 /\ asked[p] = "out"
      BY <1>2, <3>1, <3>2 DEF Typed
    <3>5. late[p] = 0
      BY <1>3, <2>1, <3>3
    <3>6. QED
      BY <2>1, <2>2, <3>3, <3>4, <3>5 DEF p
  <2>5. QED
    BY <2>3, <2>4
\* The client subscribes again, and nothing is late any more.
<1>5. ASSUME NEW r \in Requests, NEW q \in Asks, Accept(r, q)
      PROVE  late'[p] <= 1 /\ (late'[p] # 0 => asked'[p] = "out" /\ (calling' = u => ~Contains(rest', c)))
  <2>1. calling' = calling /\ rest' = rest
    BY <1>5 DEF Accept
  <2>2. CASE Tail(q) # p
    <3>1. late'[p] = late[p] /\ asked'[p] = asked[p]
      BY <1>2, <1>5, <2>2 DEF Accept, Typed
    <3>2. QED
      BY <1>3, <2>1, <3>1
  <2>3. CASE Tail(q) = p
    <3>1. q[1] \in {"subscribe", "unsubscribe"}
      <4>1. CASE q \in {"subscribe", "unsubscribe"} \X Clients \X Uris
        BY <4>1
      <4>2. CASE q \in {"initialized"} \X Clients \X {"none"}
        <5>1. PICK d \in Clients : q = <<"initialized", d, "none">>
          BY <4>2
        <5>2. Tail(q) = <<d, "none">>
          BY <5>1
        <5>3. u = "none"
          BY <2>3, <5>2 DEF p
        <5>4. QED
          BY <1>2, <5>3
      <4>3. QED
        BY <4>1, <4>2 DEF Asks
    <3>2. /\ late'[p] = IF q[1] = "subscribe" THEN 0 ELSE late[p]
          /\ q[1] = "unsubscribe" /\ asked[p] = "out" => asked'[p] = "out"
      BY <1>2, <1>5, <2>3, <3>1 DEF Accept, Typed
    <3>3. QED
      BY <1>3, <2>1, <3>1, <3>2
  <2>4. QED
    BY <2>2, <2>3
\* Nothing is sent: a client that is sent nothing late must not get into the copy.
<1>6. CASE late' = late /\ ~\E r \in Requests, q \in Asks : Accept(r, q)
  <2>1. CASE late[p] = 0
    BY <1>6, <2>1 DEF p
  <2>2. CASE late[p] # 0
    <3>1. asked'[p] = "out"
      <4>1. CASE asked'[p] = asked[p]
        BY <1>3, <2>2, <4>1
      <4>2. CASE asked'[p] = "nothing" /\ asked[p] # "nothing"
        <5>1. PICK r \in Requests : Finish(r)
          <6>1. ~RequestsRest
            BY <4>2 DEF RequestsRest
          <6>2. ASSUME NEW s \in Requests, NEW kind, Change(s, kind)
                PROVE  FALSE
            BY <4>2, <6>2, ChangeDoes
          <6>3. QED
            BY <1>6, <6>1, <6>2, WhoMovesRequests DEF AddSink, Subscribe, Unsubscribe
        <5>2. asked'[p] \in {asked[p], "in", "out"}
          BY <1>2, <5>1 DEF Finish, Typed
        <5>3. QED
          BY <4>2, <5>2
      <4>3. CASE asked'[p] # asked[p] /\ asked'[p] # "nothing"
        <5>1. PICK r \in Requests, kind \in {"subscribe", "unsubscribe"} :
                 /\ pc[r] = "changed" /\ req[r] = <<kind, c, u>>
                 /\ asked'[p] = Settled(kind)
          BY <4>3, AskedMoves DEF p
        <5>2. Runs(r, kind, c, u)
          BY <5>1 DEF Runs
        <5>3. kind # "subscribe"
          BY <1>3, <2>2, <5>2 DEF Pending, p
        <5>4. QED
          BY <5>1, <5>3 DEF Settled
      <4>4. QED
        BY <4>1, <4>2, <4>3
    <3>2. ASSUME calling' = u
          PROVE  ~Contains(rest', c)
      <4>1. CASE UNCHANGED <<calling, rest, due, told>>
        BY <1>3, <2>2, <3>2, <4>1
      <4>2. ASSUME NEW v \in Uris, NotifyResourceUpdated(v)
            PROVE  ~Contains(rest', c)
        <5>1. v = u
          BY <3>2, <4>2 DEF NotifyResourceUpdated, BeginCall
        <5>2. ~Contains(Entry(u), c)
          BY <1>3, <2>2 DEF SubscriptionsAsAnswered, p
        <5>3. QED
          BY <4>2, <5>1, <5>2, UpdateDoes
      <4>3. ~BroadcastListChanged /\ ~EndCall
        BY <1>2, <3>2 DEF BroadcastListChanged, BeginCall, EndCall
      <4>4. CASE SendNext
        BY <1>3, <2>2, <3>2, <4>4, SendDoes DEF SendNext
      <4>5. QED
        BY <4>1, <4>2, <4>3, <4>4, WhoMovesTheCall
    <3>3. QED
      BY <1>3, <1>6, <3>1, <3>2 DEF p
  <2>3. QED
    BY <2>1, <2>2
<1>7. QED
  BY <1>4, <1>5, <1>6, LateMoves DEF p

-----------------------------------------------------------------------------
(* No list has a session twice.                                             *)

\* A call sends to a session once.
CopyOnce ==
    /\ Once(rest) /\ Once(told)
    /\ \A c \in Clients : ~(Contains(told, c) /\ Contains(rest, c))
    /\ calling = "none" => rest = <<>> /\ told = <<>>

EachOnce == Once(sinks) /\ (\A u \in Uris : Once(Entry(u))) /\ CopyOnce

LEMMA EmptyOnce == Once(<<>>) /\ \A c : ~Contains(<<>>, c)
BY DEF Once, Contains

\* Each action changes one of the lists, or none.
LEMMA WhoMovesLists ==
    ASSUME [Next]_vars
    PROVE  /\ sinks' = sinks \/ BroadcastListChanged \/ \E r \in Requests : AddSink(r)
           /\ \/ subs' = subs
              \/ \E r \in Requests : Subscribe(r) \/ Unsubscribe(r)
              \/ \E u \in Uris : NotifyResourceUpdated(u)
BY DEF Next, vars, Connect, Close, Accept, AddSink, Subscribe, Unsubscribe, Change, Finish,
       BroadcastListChanged, NotifyResourceUpdated, BeginCall, SendNext, EndCall, Start, Stop

LEMMA EachOnceStep ==
    ASSUME Typed, Known, EachOnce, [Next]_vars
    PROVE  EachOnce'
<1>1. Once(sinks')
  <2>1. CASE sinks' = sinks
    BY <2>1 DEF EachOnce
  <2>2. CASE BroadcastListChanged
    BY <2>2, BroadcastDoes
  <2>3. ASSUME NEW r \in Requests, AddSink(r)
        PROVE  Once(sinks')
    BY <2>3, AddSinkDoes
  <2>4. QED
    BY <2>1, <2>2, <2>3, WhoMovesLists
<1>2. ASSUME NEW u \in Uris
      PROVE  Once(Entry(u)')
  <2>1. CASE subs' = subs
    BY <2>1, EntryKept DEF EachOnce
  <2>2. ASSUME NEW v \in Uris, Once(Entry(v)'), \A w \in Uris \ {v} : Entry(w)' = Entry(w)
        PROVE  Once(Entry(u)')
    BY <2>2 DEF EachOnce
  <2>3. ASSUME NEW r \in Requests, Subscribe(r) \/ Unsubscribe(r)
        PROVE  Once(Entry(u)')
    BY <2>2, <2>3, SubscribeDoes, UnsubscribeDoes
  <2>4. ASSUME NEW v \in Uris, NotifyResourceUpdated(v)
        PROVE  Once(Entry(u)')
    BY <2>2, <2>4, UpdateDoes
  <2>5. QED
    BY <2>1, <2>3, <2>4, WhoMovesLists
<1>3. CopyOnce'
  <2>1. CASE UNCHANGED <<calling, rest, due, told>>
    BY <2>1 DEF EachOnce, CopyOnce
  <2>2. ASSUME calling' # "none", told' = <<>>, Once(rest')
        PROVE  CopyOnce'
    BY <2>2, EmptyOnce DEF CopyOnce
  <2>3. CASE BroadcastListChanged
    BY <2>2, <2>3, BroadcastDoes DEF BroadcastListChanged, BeginCall
  <2>4. ASSUME NEW u \in Uris, NotifyResourceUpdated(u)
        PROVE  CopyOnce'
    <3>1. calling' # "none" /\ told' = <<>>
      BY <2>4, Settings DEF NotifyResourceUpdated, BeginCall
    <3>2. QED
      BY <2>2, <2>4, <3>1, UpdateDoes
  <2>5. CASE SendNext
    <3>1. calling' = calling /\ calling # "none"
      BY <2>5 DEF SendNext, EachOnce, CopyOnce
    <3>2. PICK c \in Clients :
             /\ \A d \in Clients : Contains(rest, d) <=> d = c \/ Contains(rest', d)
             /\ \A d \in Clients : Contains(told', d) <=> Contains(told, d) \/ (d = c /\ c \in open)
             /\ Once(rest) => Once(rest') /\ ~Contains(rest', c)
             /\ Once(told) /\ ~Contains(told, c) => Once(told')
      BY <2>5, SendDoes
    <3>3. QED
      BY <3>1, <3>2 DEF EachOnce, CopyOnce
  <2>6. CASE EndCall
    BY <2>6, EmptyOnce DEF EndCall, CopyOnce
  <2>7. QED
    BY <2>1, <2>3, <2>4, <2>5, <2>6, WhoMovesTheCall
<1>4. QED
  BY <1>1, <1>2, <1>3 DEF EachOnce

\* Such a list is not longer than there are sessions.
LEMMA OnceIsShort ==
    ASSUME NEW s \in Seq(Clients), Once(s)
    PROVE  s \in Lists
<1>1. PICK l \in Nat : l = Len(s) /\ s \in [1..l -> Clients]
  BY LenProperties
<1>2. s \in Injection(1..l, Clients)
  <2>1. ASSUME NEW m \in 1..l, NEW n \in 1..l, s[m] = s[n]
        PROVE  m = n
    BY <1>1, <2>1 DEF Once
  <2>2. QED
    BY <1>1, <2>1 DEF Injection, IsInjective
<1>3. IsFiniteSet(Clients)
  BY ConstantsAssumption DEF ConstantsAssumption
<1>4. Cardinality(1..l) <= Cardinality(Clients)
  BY <1>2, <1>3, FS_Injection
<1>5. Cardinality(1..l) = l /\ Cardinality(Clients) \in Nat
  BY <1>3, FS_Interval, FS_CardinalityType
<1>6. l \in 0..Cardinality(Clients)
  BY <1>4, <1>5
<1>7. QED
  BY <1>1, <1>6, Zenon DEF Lists, BoundedSeq, SeqOf

\* Only resources have an entry.
EntriesOfUris == DOMAIN subs \subseteq Uris

LEMMA EntriesOfUrisStep ==
    ASSUME Typed, Known, EntriesOfUris, [Next]_vars
    PROVE  EntriesOfUris'
<1>1. ASSUME NEW r \in Requests, NEW kind \in {"subscribe", "unsubscribe"}, Change(r, kind)
      PROVE  req[r][3] \in Uris
  <2>1. req[r] \in Asks /\ req[r][1] = kind
    BY <1>1, Asked
  <2>2. PICK c \in Clients, u \in Uris : req[r] = <<req[r][1], c, u>>
    BY <2>1, KindShape
  <2>3. QED
    BY <2>2
<1>2. ASSUME NEW u \in Uris, NEW s, SetEntry(u, s) \/ SetOrRemoveEntry(u, s)
      PROVE  EntriesOfUris'
  BY <1>2 DEF EntriesOfUris, SetEntry, SetOrRemoveEntry
<1>3. CASE subs' = subs
  BY <1>3 DEF EntriesOfUris
<1>4. ASSUME NEW r \in Requests, Subscribe(r) \/ Unsubscribe(r)
      PROVE  EntriesOfUris'
  <2>1. req[r][3] \in Uris
    BY <1>1, <1>4 DEF Subscribe, Unsubscribe
  <2>2. \E s : SetEntry(req[r][3], s) \/ SetOrRemoveEntry(req[r][3], s)
    BY <1>4 DEF Subscribe, Unsubscribe
  <2>3. PICK u \in Uris : \E s : SetEntry(u, s) \/ SetOrRemoveEntry(u, s)
    BY <2>1, <2>2
  <2>4. QED
    BY <1>2, <2>3
<1>5. ASSUME NEW u \in Uris, NotifyResourceUpdated(u)
      PROVE  EntriesOfUris'
  <2>1. PICK s : SetOrRemoveEntry(u, s)
    BY <1>5 DEF NotifyResourceUpdated
  <2>2. QED
    BY <1>2, <2>1
<1>6. QED
  BY <1>3, <1>4, <1>5, WhoMovesLists


-----------------------------------------------------------------------------
(* Theorems.                                                                *)

LEMMA InitOK == Init => IInv
<1> SUFFICES ASSUME Init
             PROVE  IInv
  OBVIOUS
<1> USE Settings
<1>1. <<>> \in Seq(Clients) /\ Once(<<>>) /\ \A c : ~Contains(<<>>, c)
  BY DEF Once, Contains
<1>2. \A u \in Uris : Entry(u) = <<>>
  BY DEF Init, Entry
<1>3. \A c \in Clients, u \in Uris : <<c, u>> \in Pairs
  BY DEF Pairs
<1>4. Typed
  <2>1. \A u \in Uris : Entry(u) \in Seq(Clients)
    BY <1>1, <1>2
  <2>2. /\ born \in [Clients -> 0..MaxGen]
        /\ pc \in [Requests -> {"idle", "accepted", "changed", "done"}]
        /\ req \in [Requests -> Asks \cup {<<>>}]
        /\ asked \in [Pairs -> {"nothing", "in", "out"}]
        /\ late \in [Pairs -> Nat]
    BY DEF Init
  <2>3. gen \in 0..MaxGen
    BY DEF Init
  <2>4. QED
    BY <1>1, <2>1, <2>2, <2>3 DEF Init, Typed
<1>5. \A c \in Clients, u \in Uris : asked[<<c, u>>] = "nothing" /\ late[<<c, u>>] = 0
  BY <1>3 DEF Init
<1>6. Known /\ Overlaps /\ Pending /\ InEffect
  BY <1>5 DEF Init, Known, Overlaps, Pending, InEffect, Runs
<1>7. SubscriptionsAsAnswered
  BY <1>5 DEF SubscriptionsAsAnswered
<1>8. Joined /\ Served
  BY DEF Init, Joined, Served
<1>9. LateOnce
  BY <1>1, <1>5 DEF Init, LateOnce
<1>10. QED
  BY <1>4, <1>6, <1>7, <1>8, <1>9 DEF IInv

\* IInv holds in every reachable state.
THEOREM Invariance == Spec => []IInv
<1>1. IInv /\ [Next]_vars => IInv'
  BY TypedStep, KnownStep, OverlapsStep, PendingStep, InEffectStep, AnsweredStep, JoinedStep,
     ServedStep, LateOnceStep
     DEF IInv
<1>2. QED
  BY <1>1, InitOK, PTL DEF Spec

\* A subscribed client stays in the entry of its resource, and an unsubscribed one
\* out of it, through the handlers, prunings and restarts of everybody else.
THEOREM SubscriptionsHold == Spec => []SubscriptionsAsAnswered
  BY Invariance, PTL DEF IInv

\* After it unsubscribed a client is sent at most one update, by the call that had
\* copied the list before.
THEOREM OneLateUpdate == Spec => []AtMostOneLate
<1>1. IInv => AtMostOneLate
  BY DEF IInv, LateOnce, AtMostOneLate, Pairs
<1>2. QED
  BY <1>1, Invariance, PTL

\* A notification of 1C reaches every client that counts on it and is still open when
\* the call returns.
THEOREM DueAreTold == Spec => EveryoneDueIsTold
<1>1. IInv /\ [Next]_vars
         => [calling # "none" /\ calling' = "none" => due \cap open \subseteq Range(told)]_vars
  <2> SUFFICES ASSUME IInv, [Next]_vars, calling # "none", calling' = "none",
                      NEW c \in due \cap open
               PROVE  c \in Range(told)
    OBVIOUS
  <2>1. EndCall
    BY WhoMovesTheCall DEF BroadcastListChanged, NotifyResourceUpdated, BeginCall, SendNext
  <2>2. rest = <<>> /\ told \in Seq(Clients)
    BY <2>1 DEF EndCall, IInv, Typed
  <2>3. Contains(told, c) \/ Contains(rest, c)
    BY DEF IInv, Served
  <2>4. \E i \in 1..Len(told) : told[i] = c
    BY <2>2, <2>3 DEF Contains
  <2>5. DOMAIN told = 1..Len(told)
    BY <2>2, LenProperties
  <2>6. QED
    BY <2>4, <2>5 DEF Range
<1>2. QED
  BY <1>1, Invariance, PTL DEF Spec, EveryoneDueIsTold

\* Every variable keeps its type: no list has more entries than there are sessions,
\* however often they initialize and subscribe, so that lists do not grow without end.
THEOREM TypeCorrect == Spec => []TypeOK
<1>1. Init => EachOnce /\ EntriesOfUris
  BY EmptyOnce DEF Init, EachOnce, CopyOnce, EntriesOfUris, Entry
<1>2. IInv /\ EachOnce /\ EntriesOfUris /\ [Next]_vars => EachOnce' /\ EntriesOfUris'
  BY EachOnceStep, EntriesOfUrisStep DEF IInv
<1>3. IInv /\ EachOnce /\ EntriesOfUris => TypeOK
  <2> SUFFICES ASSUME Typed, EachOnce, EntriesOfUris
               PROVE  TypeOK
    BY DEF IInv
  <2>1. {sinks, rest, told} \subseteq Lists
    BY OnceIsShort DEF Typed, EachOnce, CopyOnce
  <2>2. \A u \in Uris : Entry(u) \in Lists
    BY OnceIsShort DEF Typed, EachOnce
  <2>3. Range(subs) \subseteq Lists
    BY <2>2 DEF EntriesOfUris, Entry, Range
  <2>4. QED
    BY <2>1, <2>3 DEF Typed, EntriesOfUris, TypeOK
<1>4. QED
  BY <1>1, <1>2, <1>3, Invariance, PTL DEF Spec
=============================================================================
