--------------------------- MODULE SseSessionsProofs ---------------------------
(***************************************************************************)
(* Safety of SSE sessions for any number of streams, ids, events and       *)
(* restarts: what a stream is given, by position, and who holds a session. *)
(***************************************************************************)
EXTENDS SseSessions, FiniteSetTheorems, SequenceTheorems, TLAPS

Stages == {"idle", "accepted", "registered", "announced", "streaming", "ended", "left"}
Events == 0..MaxEvents

Typed ==
    /\ server \in {"down", "up", "closing"}
    /\ gen \in 0..MaxGen
    /\ nextId \in 1..(Cardinality(Streams) + 1)
    /\ sessions \in [Ids -> Streams \cup {NoStream}]
    /\ pc \in [Streams -> Stages]
    /\ named \in [Streams -> BOOLEAN]
    /\ sid \in [Streams -> Ids \cup {0}]
    /\ queue \in [Streams -> Seq(Events)]
    /\ seen \in [Streams -> Seq(Events)]
    /\ opened \subseteq Streams
    /\ sent \in Events

\* Streams whose id came from the counter, which is as many ahead.
Counted == {k \in Streams : ~named[k] /\ sid[k] # 0}
CounterOK == nextId = Cardinality(Counted) + 1

\* A stream has an id once it is accepted; counted ids are unshared.
NumberOf(k) ==
    /\ pc[k] = "idle" <=> sid[k] = 0
    /\ pc[k] = "idle" => ~named[k]
    /\ ~named[k] => sid[k] < nextId
    /\ \A j \in Streams \ {k} : ~named[k] /\ ~named[j] /\ sid[k] # 0 => sid[j] # sid[k]
Numbered == \A k \in Streams : NumberOf(k)

\* A session is held by a stream of that id, which registered and is not done.
Held ==
    \A i \in Ids : sessions[i] # NoStream =>
        /\ sid[sessions[i]] = i
        /\ pc[sessions[i]] \in {"registered", "announced", "streaming", "left"}

\* A stream that 1C was told of has gone on since.
Known == \A j \in opened : pc[j] \in {"streaming", "ended", "left"}

\* 1C has the id of k from elsewhere.
Elsewhere(k) == sid[k] \in Agreed \/ \E j \in opened \ {k} : sid[j] = sid[k]

\* The endpoint goes into the channel once, when the handler is at it; what 1C sends
\* before that, it sends to an id that it has from elsewhere.
FirstOf(k) ==
    /\ pc[k] \in {"idle", "accepted"} => Len(Items(k)) = 0
    /\ pc[k] = "registered" => \A n \in 1..Len(Items(k)) : Items(k)[n] # Endpoint
    /\ pc[k] \in {"announced", "streaming", "ended"} =>
          \E n \in 1..Len(Items(k)) : Items(k)[n] = Endpoint
    /\ \A m, n \in 1..Len(Items(k)) :
          Items(k)[m] = Endpoint /\ Items(k)[n] = Endpoint => m = n
    /\ Len(Items(k)) # 0 => Items(k)[1] = Endpoint \/ Elsewhere(k)
First == \A k \in Streams : FirstOf(k)

\* Events grow along a stream and no two streams have one in common.
OrderOf(k) ==
    /\ \A n \in 1..Len(Items(k)) : Items(k)[n] <= sent
    /\ \A m, n \in 1..Len(Items(k)) :
          m < n /\ Items(k)[n] # Endpoint => Items(k)[m] < Items(k)[n]
    /\ \A j \in Streams \ {k} : \A m \in 1..Len(Items(k)), n \in 1..Len(Items(j)) :
          Items(k)[m] # Endpoint => Items(k)[m] # Items(j)[n]
Ordered == \A k \in Streams : OrderOf(k)

IInv == Typed /\ CounterOK /\ Numbered /\ Held /\ Known /\ First /\ Ordered

USE DEF serverVars, streamVars, channelVars, Advance, Endpoint

-----------------------------------------------------------------------------
(* Sequences.                                                              *)

\* What is put at the end of the channel comes after all there was.
LEMMA AppendEnd ==
    ASSUME NEW S, NEW s \in Seq(S), NEW t \in Seq(S), NEW e \in S
    PROVE  s \o Append(t, e) = Append(s \o t, e)
<1>1. Append(t, e) \in Seq(S) /\ s \o t \in Seq(S)
  BY ConcatProperties
<1>2. <<e>> \in Seq(S) /\ Append(t, e) = t \o <<e>> /\ Append(s \o t, e) = (s \o t) \o <<e>>
  BY <1>1
<1>3. (s \o t) \o <<e>> = s \o (t \o <<e>>)
  BY <1>2, ConcatAssociative
<1>4. QED
  BY <1>2, <1>3

\* What was received is the beginning of all there was.
LEMMA Beginning ==
    ASSUME NEW S, NEW s \in Seq(S), NEW t \in Seq(S)
    PROVE  /\ Len(s) \in 0..Len(s \o t)
           /\ \A n \in 1..Len(s) : (s \o t)[n] = s[n]
  BY ConcatProperties, LenProperties

\* Moving the head of the channel to what was received changes nothing.
LEMMA MoveHead ==
    ASSUME NEW S, NEW s \in Seq(S), NEW t \in Seq(S), t # <<>>
    PROVE  Append(s, Head(t)) \o Tail(t) = s \o t
<1>1. Head(t) \in S /\ Tail(t) \in Seq(S) /\ <<Head(t)>> \in Seq(S)
  BY HeadTailProperties
<1>2. Append(s, Head(t)) = s \o <<Head(t)>>
  BY <1>1
<1>3. <<Head(t)>> \o Tail(t) = t
  BY <1>1, HeadTailProperties
<1>4. (s \o <<Head(t)>>) \o Tail(t) = s \o (<<Head(t)>> \o Tail(t))
  BY <1>1, ConcatAssociative
<1>5. QED
  BY <1>2, <1>3, <1>4, Zenon

-----------------------------------------------------------------------------
(* What a step does to the streams.                                        *)

LEMMA ItemsTyped ==
    ASSUME Typed, NEW k \in Streams
    PROVE  /\ Items(k) \in Seq(Events)
           /\ Len(Items(k)) \in Nat
           /\ \A n \in 1..Len(Items(k)) : Items(k)[n] \in Nat
<1>1. seen[k] \in Seq(Events) /\ queue[k] \in Seq(Events)
  BY DEF Typed
<1>2. Items(k) \in Seq(Events)
  BY <1>1, ConcatProperties DEF Items
<1>3. \A n \in 1..Len(Items(k)) : Items(k)[n] \in Events
  BY <1>2, ElementOfSeq
<1>4. Len(Items(k)) \in Nat
  BY <1>2, LenProperties
<1>5. QED
  BY <1>2, <1>3, <1>4, ConstantsAssumption DEF ConstantsAssumption, Events

\* A step that gives no stream anything.
Lose ==
    /\ sent' = sent
    /\ \A k \in Streams :
          /\ Len(Items(k)') \in 0..Len(Items(k))
          /\ \A n \in 1..Len(Items(k)') : Items(k)'[n] = Items(k)[n]

LEMMA LoseStep == IInv /\ Lose => Ordered'
<1> SUFFICES ASSUME IInv, Lose, NEW k \in Streams PROVE OrderOf(k)'
  BY DEF Ordered
<1>1. \A j \in Streams : Len(Items(j)) \in Nat
  BY ItemsTyped DEF IInv
<1>2. \A j \in Streams : \A n \in 1..Len(Items(j)') :
          n \in 1..Len(Items(j)) /\ Items(j)'[n] = Items(j)[n]
  BY <1>1 DEF Lose
<1>3. OrderOf(k)
  BY DEF IInv, Ordered
<1>4. QED
  BY <1>2, <1>3 DEF OrderOf, Lose

\* A step that gives one stream its endpoint, or the next event.
Gain(k, e) ==
    /\ Items(k)' = Append(Items(k), e)
    /\ \A j \in Streams \ {k} : Items(j)' = Items(j)
    /\ \/ e = Endpoint /\ sent' = sent
       \/ e = sent + 1 /\ sent' = sent + 1

LEMMA GainStep == ASSUME IInv, NEW k \in Streams, NEW e \in Events, Gain(k, e) PROVE Ordered'
<1> DEFINE old == Items(k)
           new == Items(k)'
<1>1. /\ Len(new) = Len(old) + 1
      /\ \A n \in 1..Len(old) : new[n] = old[n]
      /\ new[Len(old) + 1] = e
      /\ Len(old) \in Nat
  BY ItemsTyped, AppendProperties DEF IInv, Gain
<1>2. \A j \in Streams : Len(Items(j)) \in Nat /\ \A n \in 1..Len(Items(j)) : Items(j)[n] \in Nat
  BY ItemsTyped DEF IInv
<1>3. sent \in Nat /\ sent' \in Nat /\ sent <= sent' /\ e <= sent' /\ e \in Nat
  BY ConstantsAssumption DEF ConstantsAssumption, IInv, Typed, Events, Gain
<1>4. \A j \in Streams : \A n \in 1..Len(Items(j)) : Items(j)[n] <= sent
  BY DEF IInv, Ordered, OrderOf
<1>5. \A n \in 1..Len(new) :
          \/ n \in 1..Len(old) /\ new[n] = old[n]
          \/ n = Len(old) + 1 /\ new[n] = e
  BY <1>1
<1>6. \A j \in Streams \ {k} : Items(j)' = Items(j)
  BY DEF Gain
<1>7. e = 0 \/ sent < e
  BY <1>3 DEF Gain
<1>8. OrderOf(k)'
  <2>1. \A n \in 1..Len(new) : new[n] <= sent'
    BY <1>2, <1>3, <1>4, <1>5
  <2>2. ASSUME NEW m \in 1..Len(new), NEW n \in 1..Len(new), m < n, new[n] # Endpoint
        PROVE  new[m] < new[n]
    <3>1. m \in 1..Len(old) /\ new[m] = old[m]
      BY <1>1, <2>2
    <3>2. CASE n \in 1..Len(old)
      BY <1>1, <2>2, <3>1, <3>2 DEF IInv, Ordered, OrderOf
    <3>3. CASE n = Len(old) + 1
      BY <1>1, <1>2, <1>3, <1>4, <1>7, <2>2, <3>1, <3>3
    <3>4. QED
      BY <1>5, <3>2, <3>3
  <2>3. ASSUME NEW j \in Streams \ {k}, NEW m \in 1..Len(new), NEW n \in 1..Len(Items(j)),
               new[m] # Endpoint
        PROVE  new[m] # Items(j)[n]
    <3>1. CASE m \in 1..Len(old)
      BY <1>1, <2>3, <3>1 DEF IInv, Ordered, OrderOf
    <3>2. CASE m = Len(old) + 1
      BY <1>1, <1>2, <1>3, <1>4, <1>7, <2>3, <3>2
    <3>3. QED
      BY <1>5, <3>1, <3>2
  <2>4. QED
    BY <1>6, <2>1, <2>2, <2>3 DEF OrderOf
<1>9. ASSUME NEW j \in Streams \ {k}
      PROVE  OrderOf(j)'
  <2>1. OrderOf(j)
    BY DEF IInv, Ordered
  <2>2. ASSUME NEW m \in 1..Len(Items(j)), NEW n \in 1..Len(new), Items(j)[m] # Endpoint
        PROVE  Items(j)[m] # new[n]
    <3>1. CASE n \in 1..Len(old)
      BY <1>1, <2>1, <2>2, <3>1 DEF OrderOf
    <3>2. CASE n = Len(old) + 1
      BY <1>1, <1>2, <1>3, <1>4, <1>7, <2>2, <3>2
    <3>3. QED
      BY <1>5, <3>1, <3>2
  <2>3. \A n \in 1..Len(Items(j)) : Items(j)[n] <= sent'
    BY <1>2, <1>3, <1>4
  <2> HIDE DEF new, old
  <2>4. \A i \in Streams \ {j} : \A m \in 1..Len(Items(j)), n \in 1..Len(Items(i)') :
           Items(j)[m] # Endpoint => Items(j)[m] # Items(i)'[n]
    BY <1>6, <2>1, <2>2 DEF OrderOf, new
  <2>5. QED
    BY <1>6, <2>1, <2>3, <2>4 DEF OrderOf
<1>10. QED
  BY <1>8, <1>9 DEF Ordered

\* The steps that touch no channel.
LEMMA QuietLoses == IInv /\ UNCHANGED <<queue, seen, sent>> => Lose
<1> SUFFICES ASSUME IInv, UNCHANGED <<queue, seen, sent>> PROVE Lose
  OBVIOUS
<1>1. \A k \in Streams : Items(k)' = Items(k) /\ Len(Items(k)) \in Nat
  BY ItemsTyped DEF IInv, Items
<1>2. QED
  BY <1>1 DEF Lose

LEMMA DeliverLoses ==
    ASSUME IInv, NEW k \in Streams, Deliver(k)
    PROVE  \A j \in Streams : Items(j)' = Items(j)
<1>1. queue[k] \in Seq(Events) /\ seen[k] \in Seq(Events) /\ queue[k] # <<>>
  BY DEF IInv, Typed, Deliver
<1>2. Append(seen[k], Head(queue[k])) \o Tail(queue[k]) = seen[k] \o queue[k]
  BY <1>1, MoveHead
<1>3. /\ queue'[k] = Tail(queue[k]) /\ seen'[k] = Append(seen[k], Head(queue[k]))
      /\ \A j \in Streams \ {k} : queue'[j] = queue[j] /\ seen'[j] = seen[j]
  BY DEF IInv, Typed, Deliver
<1>4. \A j \in Streams \ {k} : Items(j)' = Items(j)
  BY <1>3 DEF Items
<1>5. Items(k)' = Items(k)
  BY <1>2, <1>3, Zenon DEF Items
<1>6. QED
  BY <1>4, <1>5

LEMMA LeaveLoses ==
    ASSUME IInv, NEW k \in Streams, ClientLeaves(k)
    PROVE  Lose /\ \A j \in Streams \ {k} : Items(j)' = Items(j)
<1>1. queue[k] \in Seq(Events) /\ seen[k] \in Seq(Events)
  BY DEF IInv, Typed
<1>2. /\ queue'[k] = <<>> /\ seen'[k] = seen[k]
      /\ \A j \in Streams \ {k} : queue'[j] = queue[j] /\ seen'[j] = seen[j]
  BY DEF IInv, Typed, ClientLeaves
<1>3. \A j \in Streams \ {k} : Items(j)' = Items(j)
  BY <1>2 DEF Items
<1>4. Items(k)' = seen[k]
  <2>1. Items(k)' = seen[k] \o <<>>
    BY <1>2 DEF Items
  <2>2. QED
    BY <1>1, <2>1, ConcatEmptySeq
<1>5. /\ Len(seen[k]) \in 0..Len(Items(k))
      /\ \A n \in 1..Len(seen[k]) : Items(k)[n] = seen[k][n]
  BY <1>1, Beginning DEF Items
<1>6. \A j \in Streams : Len(Items(j)) \in Nat
  BY ItemsTyped DEF IInv
<1>7. sent' = sent
  BY DEF ClientLeaves
<1>8. ASSUME NEW j \in Streams
      PROVE  /\ Len(Items(j)') \in 0..Len(Items(j))
             /\ \A n \in 1..Len(Items(j)') : Items(j)'[n] = Items(j)[n]
  <2>1. CASE j = k
    BY <1>4, <1>5, <2>1
  <2>2. CASE j # k
    BY <1>3, <1>6, <2>2
  <2>3. QED
    BY <2>1, <2>2
<1>9. QED
  BY <1>3, <1>7, <1>8 DEF Lose

LEMMA EndpointGains ==
    ASSUME IInv, NEW k \in Streams, SendEndpoint(k)
    PROVE  Gain(k, Endpoint) /\ Endpoint \in Events
<1>1. queue[k] \in Seq(Events) /\ seen[k] \in Seq(Events) /\ Endpoint \in Events
  BY ConstantsAssumption DEF ConstantsAssumption, IInv, Typed, Events
<1>2. /\ queue'[k] = Append(queue[k], Endpoint) /\ seen'[k] = seen[k] /\ sent' = sent
      /\ \A j \in Streams \ {k} : queue'[j] = queue[j] /\ seen'[j] = seen[j]
  BY DEF IInv, Typed, SendEndpoint
<1>3. seen[k] \o Append(queue[k], Endpoint) = Append(seen[k] \o queue[k], Endpoint)
  <2> DEFINE s == seen[k]
             t == queue[k]
             e == Endpoint
  <2>1. s \in Seq(Events) /\ t \in Seq(Events) /\ e \in Events
    BY <1>1
  <2> HIDE DEF s, t, e
  <2>2. s \o Append(t, e) = Append(s \o t, e)
    BY <2>1, AppendEnd
  <2>3. QED
    BY <2>2 DEF s, t, e
<1>4. QED
  BY <1>1, <1>2, <1>3 DEF Gain, Items

LEMMA SendGains ==
    ASSUME IInv, NEW i \in Ids, SseSend(i), NEW k, k = sessions[i]
    PROVE  Gain(k, sent + 1) /\ sent + 1 \in Events /\ k \in Streams
<1>1. k \in Streams
  BY DEF IInv, Typed, SseSend
<1>2. sent + 1 \in Events /\ sent' = sent + 1
  BY ConstantsAssumption DEF ConstantsAssumption, IInv, Typed, SseSend, Events
<1>3. queue[k] \in Seq(Events) /\ seen[k] \in Seq(Events)
  BY <1>1 DEF IInv, Typed
<1>4. /\ queue'[k] = Append(queue[k], sent + 1) /\ seen' = seen
      /\ \A j \in Streams \ {k} : queue'[j] = queue[j]
  BY <1>1, <1>2 DEF IInv, Typed, SseSend
<1>5. seen[k] \o Append(queue[k], sent + 1) = Append(seen[k] \o queue[k], sent + 1)
  <2> DEFINE s == seen[k]
             t == queue[k]
             e == sent + 1
  <2>1. s \in Seq(Events) /\ t \in Seq(Events) /\ e \in Events
    BY <1>2, <1>3
  <2> HIDE DEF s, t, e
  <2>2. s \o Append(t, e) = Append(s \o t, e)
    BY <2>1, AppendEnd
  <2>3. QED
    BY <2>2 DEF s, t, e
<1>6. Items(k)' = Append(Items(k), sent + 1)
  BY <1>4, <1>5, Zenon DEF Items
<1>7. \A j \in Streams \ {k} : Items(j)' = Items(j)
  BY <1>4 DEF Items
<1>8. QED
  BY <1>1, <1>2, <1>6, <1>7 DEF Gain

LEMMA OrderedStep == IInv /\ [Next]_vars => Ordered'
<1> SUFFICES ASSUME IInv, [Next]_vars PROVE Ordered'
  OBVIOUS
<1>1. UNCHANGED <<queue, seen, sent>> => Ordered'
  BY QuietLoses, LoseStep
<1>2. ASSUME NEW k \in Streams, Deliver(k)
      PROVE  Ordered'
  <2>1. \A j \in Streams : Items(j)' = Items(j) /\ Len(Items(j)) \in Nat
    BY <1>2, DeliverLoses, ItemsTyped DEF IInv
  <2>2. Lose
    BY <1>2, <2>1 DEF Lose, Deliver
  <2>3. QED
    BY <2>2, LoseStep
<1>3. ASSUME NEW k \in Streams, ClientLeaves(k)
      PROVE  Ordered'
  BY <1>3, LeaveLoses, LoseStep
<1>4. ASSUME NEW k \in Streams, SendEndpoint(k)
      PROVE  Ordered'
  BY <1>4, EndpointGains, GainStep
<1>5. ASSUME NEW i \in Ids, SseSend(i)
      PROVE  Ordered'
  BY <1>5, SendGains, GainStep
<1>6. ASSUME NEW k \in Streams, NEW i \in NamedIds, AcceptNamed(k, i)
      PROVE  Ordered'
  BY <1>1, <1>6 DEF AcceptNamed
<1>7. ASSUME NEW k \in Streams,
             AcceptNumbered(k) \/ Register(k) \/ OpenEvent(k) \/ StreamEnds(k)
      PROVE  Ordered'
  BY <1>1, <1>7 DEF AcceptNumbered, Register, OpenEvent, StreamEnds
<1>8. ASSUME NEW i \in Ids, SseClose(i)
      PROVE  Ordered'
  BY <1>1, <1>8 DEF SseClose
<1>9. CASE Start \/ StopClear \/ StopShutdown
  BY <1>1, <1>9 DEF Start, StopClear, StopShutdown
<1>10. CASE UNCHANGED vars
  BY <1>1, <1>10 DEF vars
<1>11. QED
  BY <1>2, <1>3, <1>4, <1>5, <1>6, <1>7, <1>8, <1>9, <1>10 DEF Next, StreamStep

-----------------------------------------------------------------------------
(* Ids.                                                                    *)

LEMMA CountBound == Typed => /\ IsFiniteSet(Counted)
                             /\ Cardinality(Counted) \in 0..Cardinality(Streams)
                             /\ Cardinality(Streams) \in Nat
<1> SUFFICES ASSUME Typed
             PROVE  /\ IsFiniteSet(Counted)
                    /\ Cardinality(Counted) \in 0..Cardinality(Streams)
                    /\ Cardinality(Streams) \in Nat
  OBVIOUS
<1>1. IsFiniteSet(Streams) /\ Counted \subseteq Streams
  BY ConstantsAssumption DEF ConstantsAssumption, Counted
<1>2. IsFiniteSet(Counted) /\ Cardinality(Counted) <= Cardinality(Streams)
  BY <1>1, FS_Subset
<1>3. Cardinality(Counted) \in Nat /\ Cardinality(Streams) \in Nat
  BY <1>1, <1>2, FS_CardinalityType
<1>4. QED
  BY <1>2, <1>3

\* A stream that takes a number is one more of those that have one.
LEMMA TakeCounts ==
    ASSUME IInv, NEW k \in Streams, AcceptNumbered(k)
    PROVE  /\ nextId \in 1..Cardinality(Streams)
           /\ nextId' = nextId + 1
           /\ sid' = [sid EXCEPT ![k] = nextId]
           /\ CounterOK'
<1>1. /\ IsFiniteSet(Counted) /\ IsFiniteSet(Streams)
      /\ Cardinality(Counted) \in Nat /\ Cardinality(Streams) \in Nat
  BY CountBound, ConstantsAssumption DEF ConstantsAssumption, IInv
<1>2. /\ nextId' = nextId + 1 /\ sid' = [sid EXCEPT ![k] = nextId] /\ named' = named
      /\ nextId \in Nat /\ nextId # 0
  BY DEF AcceptNumbered, IInv, Typed
<1>3. k \notin Counted /\ ~named[k]
  BY DEF AcceptNumbered, IInv, Numbered, NumberOf, Counted
<1>4. Counted' = Counted \cup {k}
  <2>1. sid \in [Streams -> Ids \cup {0}]
    BY DEF IInv, Typed
  <2>2. QED
    BY <1>2, <1>3, <2>1 DEF Counted
<1>5. Cardinality(Counted \cup {k}) = Cardinality(Counted) + 1 /\ IsFiniteSet(Counted \cup {k})
  BY <1>1, <1>3, FS_AddElement
<1>6. CounterOK'
  BY <1>1, <1>2, <1>4, <1>5 DEF CounterOK, IInv
<1>7. Counted \cup {k} \subseteq Streams
  BY DEF Counted
<1>8. Cardinality(Counted \cup {k}) <= Cardinality(Streams)
  BY <1>1, <1>7, FS_Subset
<1>9. nextId \in 1..Cardinality(Streams)
  BY <1>1, <1>2, <1>5, <1>8 DEF CounterOK, IInv
<1>10. QED
  BY <1>2, <1>6, <1>9

\* The counter is untouched by a step that gives no number.
LEMMA CounterKept == IInv /\ UNCHANGED <<nextId, named, sid>> => CounterOK'
  BY DEF IInv, CounterOK, Counted

LEMMA NumberedStep == IInv /\ [Next]_vars => Numbered' /\ CounterOK'
<1> SUFFICES ASSUME IInv, [Next]_vars PROVE Numbered' /\ CounterOK'
  OBVIOUS
<1>1. /\ pc \in [Streams -> Stages] /\ sid \in [Streams -> Nat] /\ named \in [Streams -> BOOLEAN]
      /\ nextId \in Nat
  <2>1. Cardinality(Streams) \in Nat /\ NamedIds \subseteq Nat
    BY CountBound, ConstantsAssumption DEF ConstantsAssumption, IInv
  <2>2. ASSUME NEW i \in Ids
        PROVE  i \in Nat
    <3>1. CASE i \in NamedIds
      BY <2>1, <3>1
    <3>2. CASE i \in 1..(Cardinality(Streams) + 1)
      BY <2>1, <3>2
    <3>3. QED
      BY <3>1, <3>2 DEF Ids
  <2>3. QED
    BY <2>1, <2>2 DEF IInv, Typed
<1>2. Numbered /\ CounterOK
  BY DEF IInv
<1>3. UNCHANGED <<nextId, named, sid>> => CounterOK'
  BY CounterKept
<1> USE <1>1, <1>2 DEF Numbered, NumberOf, Stages
<1>4. ASSUME NEW k \in Streams, NEW i \in NamedIds, AcceptNamed(k, i)
      PROVE  Numbered' /\ CounterOK'
  <2>1. i \in Nat \ {0}
    BY ConstantsAssumption DEF ConstantsAssumption
  <2>2. Numbered'
    BY <1>4, <2>1 DEF AcceptNamed
  <2>3. Counted' = Counted /\ nextId' = nextId
    BY <1>4 DEF AcceptNamed, Counted
  <2>4. CounterOK'
    BY <2>3 DEF CounterOK
  <2>5. QED
    BY <2>2, <2>4
<1>5. ASSUME NEW k \in Streams, AcceptNumbered(k)
      PROVE  Numbered' /\ CounterOK'
  <2>1. CounterOK' /\ nextId \in 1..Cardinality(Streams)
    BY <1>5, TakeCounts
  <2>2. nextId # 0
    BY <2>1
  <2>3. Numbered'
    BY <1>5, <2>2 DEF AcceptNumbered
  <2>4. QED
    BY <2>1, <2>3
<1>6. ASSUME NEW k \in Streams, Register(k) \/ SendEndpoint(k) \/ OpenEvent(k)
      PROVE  Numbered' /\ CounterOK'
  BY <1>3, <1>6 DEF Register, SendEndpoint, OpenEvent
<1>7. ASSUME NEW k \in Streams, Deliver(k) \/ StreamEnds(k) \/ ClientLeaves(k)
      PROVE  Numbered' /\ CounterOK'
  BY <1>3, <1>7 DEF Deliver, StreamEnds, ClientLeaves
<1>8. ASSUME NEW i \in Ids, SseSend(i) \/ SseClose(i)
      PROVE  Numbered' /\ CounterOK'
  BY <1>3, <1>8 DEF SseSend, SseClose
<1>9. CASE Start \/ StopClear \/ StopShutdown
  BY <1>3, <1>9 DEF Start, StopClear, StopShutdown
<1>10. CASE UNCHANGED vars
  BY <1>3, <1>10 DEF vars
<1>11. QED
  BY <1>4, <1>5, <1>6, <1>7, <1>8, <1>9, <1>10 DEF Next, StreamStep

-----------------------------------------------------------------------------
(* Sessions.                                                               *)

LEMMA TypedStep == IInv /\ [Next]_vars => Typed'
<1> SUFFICES ASSUME IInv, [Next]_vars PROVE Typed'
  OBVIOUS
<1> USE DEF Stages
<1>1. Typed
  BY DEF IInv
<1>2. ASSUME NEW k \in Streams, NEW i \in NamedIds, AcceptNamed(k, i)
      PROVE  Typed'
  BY <1>1, <1>2 DEF AcceptNamed, Typed, Ids
<1>3. ASSUME NEW k \in Streams, AcceptNumbered(k)
      PROVE  Typed'
  <2>1. /\ nextId \in 1..Cardinality(Streams) /\ nextId' = nextId + 1
        /\ sid' = [sid EXCEPT ![k] = nextId] /\ Cardinality(Streams) \in Nat
    BY <1>1, <1>3, TakeCounts, CountBound
  <2>2. nextId' \in 1..(Cardinality(Streams) + 1) /\ nextId \in Ids
    BY <2>1 DEF Ids
  <2>3. QED
    BY <1>1, <1>3, <2>1, <2>2 DEF AcceptNumbered, Typed
<1>4. ASSUME NEW k \in Streams, Register(k)
      PROVE  Typed'
  BY <1>1, <1>4 DEF Register, Typed
<1>5. ASSUME NEW k \in Streams, SendEndpoint(k)
      PROVE  Typed'
  <2>1. Append(queue[k], Endpoint) \in Seq(Events)
    <3>1. queue[k] \in Seq(Events)
      BY <1>1 DEF Typed
    <3>2. QED
      BY <1>5, <3>1, EndpointGains, AppendProperties
  <2>2. QED
    BY <1>1, <1>5, <2>1 DEF SendEndpoint, Typed
<1>6. ASSUME NEW k \in Streams, OpenEvent(k)
      PROVE  Typed'
  <2>1. sid[k] \in Ids
    BY <1>1, <1>6 DEF Typed, OpenEvent, IInv, Numbered, NumberOf
  <2>2. QED
    BY <1>1, <1>6, <2>1 DEF OpenEvent, Typed
<1>7. ASSUME NEW k \in Streams, Deliver(k)
      PROVE  Typed'
  <2>1. queue[k] \in Seq(Events) /\ seen[k] \in Seq(Events) /\ queue[k] # <<>>
    BY <1>1, <1>7 DEF Typed, Deliver
  <2>2. Tail(queue[k]) \in Seq(Events) /\ Append(seen[k], Head(queue[k])) \in Seq(Events)
    BY <2>1, HeadTailProperties, AppendProperties
  <2>3. QED
    BY <1>1, <1>7, <2>2 DEF Deliver, Typed
<1>8. ASSUME NEW k \in Streams, StreamEnds(k)
      PROVE  Typed'
  BY <1>1, <1>8 DEF StreamEnds, Typed
<1>9. ASSUME NEW k \in Streams, ClientLeaves(k)
      PROVE  Typed'
  <2>1. <<>> \in Seq(Events)
    BY EmptySeq
  <2>2. QED
    BY <1>1, <1>9, <2>1 DEF ClientLeaves, Typed
<1>10. ASSUME NEW i \in Ids, SseSend(i)
       PROVE  Typed'
  <2>1. PICK k \in Streams : k = sessions[i]
    BY <1>10, SendGains
  <2>2. sent + 1 \in Events
    BY <1>10, SendGains
  <2>3. Append(queue[k], sent + 1) \in Seq(Events)
    <3>1. queue[k] \in Seq(Events)
      BY <1>1 DEF Typed
    <3>2. QED
      BY <2>2, <3>1, AppendProperties
  <2>4. queue' = [queue EXCEPT ![k] = Append(queue[k], sent + 1)] /\ sent' = sent + 1
    BY <1>10, <2>1 DEF SseSend
  <2>5. queue' \in [Streams -> Seq(Events)]
    BY <1>1, <2>3, <2>4 DEF Typed
  <2>6. UNCHANGED <<serverVars, sessions, pc, streamVars, seen, opened>>
    BY <1>10 DEF SseSend
  <2>7. QED
    BY <1>1, <2>2, <2>4, <2>5, <2>6 DEF Typed
<1>11. ASSUME NEW i \in Ids, SseClose(i)
       PROVE  Typed'
  BY <1>1, <1>11 DEF SseClose, Typed
<1>12. CASE Start \/ StopClear \/ StopShutdown
  BY <1>1, <1>12, ConstantsAssumption
  DEF ConstantsAssumption, Start, StopClear, StopShutdown, Typed
<1>13. CASE UNCHANGED vars
  BY <1>1, <1>13 DEF vars, Typed
<1>14. QED
  BY <1>2, <1>3, <1>4, <1>5, <1>6, <1>7, <1>8, <1>9, <1>10, <1>11, <1>12, <1>13
     DEF Next, StreamStep

\* An entry names a stream that registered under that id; a stream that ended has none.
LEMMA HeldStep == IInv /\ [Next]_vars => Held'
<1> SUFFICES ASSUME IInv, [Next]_vars PROVE Held'
  OBVIOUS
<1>1. /\ sessions \in [Ids -> Streams \cup {NoStream}] /\ pc \in [Streams -> Stages]
      /\ sid \in [Streams -> Ids \cup {0}]
  BY DEF IInv, Typed
<1>2. Held
  BY DEF IInv
<1> USE <1>1, <1>2 DEF Held, Stages
<1>3. ASSUME NEW k \in Streams, NEW i \in NamedIds, AcceptNamed(k, i)
      PROVE  Held'
  BY <1>3 DEF AcceptNamed
<1>4. ASSUME NEW k \in Streams, AcceptNumbered(k)
      PROVE  Held'
  BY <1>4 DEF AcceptNumbered
<1>5. ASSUME NEW k \in Streams, Register(k)
      PROVE  Held'
  BY <1>5 DEF Register
<1>6. ASSUME NEW k \in Streams, SendEndpoint(k) \/ OpenEvent(k) \/ Deliver(k)
      PROVE  Held'
  BY <1>6 DEF SendEndpoint, OpenEvent, Deliver
<1>7. ASSUME NEW k \in Streams, StreamEnds(k)
      PROVE  Held'
  BY <1>7 DEF StreamEnds
<1>8. ASSUME NEW k \in Streams, ClientLeaves(k)
      PROVE  Held'
  BY <1>8 DEF ClientLeaves
<1>9. ASSUME NEW i \in Ids, SseSend(i) \/ SseClose(i)
      PROVE  Held'
  BY <1>9 DEF SseSend, SseClose
<1>10. CASE Start \/ StopClear \/ StopShutdown
  BY <1>10 DEF Start, StopClear, StopShutdown
<1>11. CASE UNCHANGED vars
  BY <1>11 DEF vars
<1>12. QED
  BY <1>3, <1>4, <1>5, <1>6, <1>7, <1>8, <1>9, <1>10, <1>11 DEF Next, StreamStep

\* A stream that 1C was told of does not begin again.
LEMMA KnownStep == IInv /\ [Next]_vars => Known'
<1> SUFFICES ASSUME IInv, [Next]_vars PROVE Known'
  OBVIOUS
<1>1. pc \in [Streams -> Stages] /\ opened \subseteq Streams
  BY DEF IInv, Typed
<1>2. Known
  BY DEF IInv
<1> USE <1>1, <1>2 DEF Known, Stages
<1>3. ASSUME NEW k \in Streams, NEW i \in NamedIds, AcceptNamed(k, i)
      PROVE  Known'
  BY <1>3 DEF AcceptNamed
<1>4. ASSUME NEW k \in Streams, AcceptNumbered(k)
      PROVE  Known'
  BY <1>4 DEF AcceptNumbered
<1>5. ASSUME NEW k \in Streams, Register(k) \/ SendEndpoint(k) \/ Deliver(k)
      PROVE  Known'
  BY <1>5 DEF Register, SendEndpoint, Deliver
<1>6. ASSUME NEW k \in Streams, OpenEvent(k)
      PROVE  Known'
  BY <1>6 DEF OpenEvent
<1>7. ASSUME NEW k \in Streams, StreamEnds(k) \/ ClientLeaves(k)
      PROVE  Known'
  BY <1>7 DEF StreamEnds, ClientLeaves
<1>8. ASSUME NEW i \in Ids, SseSend(i) \/ SseClose(i)
      PROVE  Known'
  BY <1>8 DEF SseSend, SseClose
<1>9. CASE Start \/ StopClear \/ StopShutdown
  BY <1>9 DEF Start, StopClear, StopShutdown
<1>10. CASE UNCHANGED vars
  BY <1>10 DEF vars
<1>11. QED
  BY <1>3, <1>4, <1>5, <1>6, <1>7, <1>8, <1>9, <1>10 DEF Next, StreamStep

\* 1C does not forget an id, and a stream that has begun keeps its own.
LEMMA ElsewhereStays ==
    ASSUME IInv, [Next]_vars, NEW k \in Streams, pc[k] # "idle", Elsewhere(k)
    PROVE  Elsewhere(k)'
<1>1. opened \subseteq opened'
  BY DEF Next, StreamStep, vars, AcceptNamed, AcceptNumbered, Register, SendEndpoint, OpenEvent,
         Deliver, StreamEnds, ClientLeaves, SseSend, SseClose, Start, StopClear, StopShutdown
<1>2. /\ pc \in [Streams -> Stages] /\ sid \in [Streams -> Ids \cup {0}]
      /\ opened \subseteq Streams
  BY DEF IInv, Typed
<1>3. ASSUME NEW j \in Streams, pc[j] # "idle"
      PROVE  sid'[j] = sid[j]
  BY <1>2, <1>3
  DEF Next, StreamStep, vars, AcceptNamed, AcceptNumbered, Register, SendEndpoint, OpenEvent,
      Deliver, StreamEnds, ClientLeaves, SseSend, SseClose, Start, StopClear, StopShutdown
<1>4. \A j \in opened : j \in Streams /\ pc[j] # "idle"
  BY <1>2 DEF IInv, Known
<1>5. QED
  BY <1>1, <1>3, <1>4 DEF Elsewhere

\* What a step that leaves the streams' contents alone has to keep.
LEMMA FirstKept ==
    ASSUME IInv, [Next]_vars, NEW q \in Streams, Items(q)' = Items(q),
           \/ pc'[q] = pc[q]
           \/ pc[q] = "idle" /\ pc'[q] = "accepted"
           \/ pc[q] = "accepted" /\ pc'[q] = "registered"
           \/ pc[q] = "announced" /\ pc'[q] = "streaming"
           \/ pc[q] = "streaming" /\ pc'[q] = "ended"
    PROVE  FirstOf(q)'
<1>1. FirstOf(q) /\ Len(Items(q)) \in Nat
  BY ItemsTyped DEF IInv, First
<1>2. Len(Items(q)) # 0 /\ Elsewhere(q) => Elsewhere(q)'
  BY <1>1, ElsewhereStays DEF FirstOf
<1>3. QED
  BY <1>1, <1>2 DEF FirstOf

\* The endpoint is in every stream once, and first unless 1C has the id from elsewhere.
LEMMA FirstStep == IInv /\ [Next]_vars => First'
<1> SUFFICES ASSUME IInv, [Next]_vars, NEW q \in Streams PROVE FirstOf(q)'
  BY DEF First
<1>1. /\ pc \in [Streams -> Stages] /\ FirstOf(q) /\ Len(Items(q)) \in Nat
  BY ItemsTyped DEF IInv, Typed, First
<1>2. UNCHANGED <<queue, seen>> => Items(q)' = Items(q)
  BY DEF Items
<1>3. ASSUME NEW k \in Streams,
             \/ \E i \in NamedIds : AcceptNamed(k, i)
             \/ AcceptNumbered(k) \/ Register(k) \/ OpenEvent(k) \/ StreamEnds(k)
      PROVE  FirstOf(q)'
  <2>1. Items(q)' = Items(q)
    BY <1>2, <1>3 DEF AcceptNamed, AcceptNumbered, Register, OpenEvent, StreamEnds
  <2>2. \/ pc'[q] = pc[q]
        \/ pc[q] = "idle" /\ pc'[q] = "accepted"
        \/ pc[q] = "accepted" /\ pc'[q] = "registered"
        \/ pc[q] = "announced" /\ pc'[q] = "streaming"
        \/ pc[q] = "streaming" /\ pc'[q] = "ended"
    BY <1>1, <1>3 DEF AcceptNamed, AcceptNumbered, Register, OpenEvent, StreamEnds
  <2>3. QED
    BY <2>1, <2>2, FirstKept
<1>4. ASSUME NEW k \in Streams, SendEndpoint(k)
      PROVE  FirstOf(q)'
  <2>1. Gain(k, Endpoint)
    BY <1>4, EndpointGains
  <2>2. pc[k] = "registered" /\ pc' = [pc EXCEPT ![k] = "announced"]
    BY <1>4 DEF SendEndpoint
  <2>3. CASE q = k
    <3>1. /\ Len(Items(q)') = Len(Items(q)) + 1
          /\ Items(q)'[Len(Items(q)) + 1] = Endpoint
          /\ \A n \in 1..Len(Items(q)) : Items(q)'[n] = Items(q)[n]
      BY <2>1, <2>3, <1>4, EndpointGains, ItemsTyped, AppendProperties DEF Gain, IInv
    <3>2. \A n \in 1..Len(Items(q)) : Items(q)'[n] # Endpoint
      BY <1>1, <2>2, <2>3, <3>1 DEF FirstOf
    <3>3. \A n \in 1..Len(Items(q)') : n \in 1..Len(Items(q)) \/ n = Len(Items(q)) + 1
      BY <1>1, <3>1
    <3>4. Len(Items(q)) + 1 \in 1..Len(Items(q)') /\ pc'[q] = "announced"
      BY <1>1, <2>2, <2>3, <3>1
    <3>5. Items(q)'[1] = Endpoint \/ Elsewhere(q)'
      <4>1. CASE Len(Items(q)) = 0
        BY <3>1, <4>1
      <4>2. CASE Len(Items(q)) # 0
        <5>1. Items(q)'[1] = Items(q)[1]
          BY <1>1, <3>1, <4>2
        <5>2. Elsewhere(q) => Elsewhere(q)'
          BY <2>2, <2>3, ElsewhereStays
        <5>3. QED
          BY <1>1, <4>2, <5>1, <5>2 DEF FirstOf
      <4>3. QED
        BY <4>1, <4>2
    <3>6. QED
      BY <3>1, <3>2, <3>3, <3>4, <3>5 DEF FirstOf
  <2>4. CASE q # k
    BY <1>1, <2>1, <2>2, <2>4, FirstKept DEF Gain
  <2>5. QED
    BY <2>3, <2>4
<1>5. ASSUME NEW k \in Streams, Deliver(k)
      PROVE  FirstOf(q)'
  BY <1>5, DeliverLoses, FirstKept DEF Deliver
<1>6. ASSUME NEW k \in Streams, ClientLeaves(k)
      PROVE  FirstOf(q)'
  <2>1. pc' = [pc EXCEPT ![k] = "left"] /\ pc[k] # "idle"
    BY <1>6 DEF ClientLeaves
  <2>2. Lose /\ \A j \in Streams \ {k} : Items(j)' = Items(j)
    BY <1>6, LeaveLoses
  <2>3. CASE q = k
    <3>1. /\ Len(Items(q)') \in 0..Len(Items(q))
          /\ \A n \in 1..Len(Items(q)') : n \in 1..Len(Items(q)) /\ Items(q)'[n] = Items(q)[n]
      BY <1>1, <2>2 DEF Lose
    <3>2. Len(Items(q)') # 0 => 1 \in 1..Len(Items(q)') /\ Len(Items(q)) # 0
      BY <1>1, <3>1
    <3>3. Elsewhere(q) => Elsewhere(q)'
      BY <2>1, <2>3, ElsewhereStays
    <3>4. pc'[q] = "left"
      BY <1>1, <2>1, <2>3
    <3>5. QED
      BY <1>1, <3>1, <3>2, <3>3, <3>4 DEF FirstOf
  <2>4. CASE q # k
    BY <1>1, <2>1, <2>2, <2>4, FirstKept
  <2>5. QED
    BY <2>3, <2>4
<1>7. ASSUME NEW i \in Ids, SseSend(i)
      PROVE  FirstOf(q)'
  <2>1. PICK k \in Streams : k = sessions[i]
    BY <1>7, SendGains
  <2>2. Gain(k, sent + 1) /\ sent + 1 \in Events /\ pc' = pc /\ sid' = sid /\ opened' = opened
    BY <1>7, <2>1, SendGains DEF SseSend
  <2>3. CASE q = k
    <3>1. /\ Len(Items(q)') = Len(Items(q)) + 1
          /\ Items(q)'[Len(Items(q)) + 1] = sent + 1
          /\ \A n \in 1..Len(Items(q)) : Items(q)'[n] = Items(q)[n]
      BY <2>2, <2>3, ItemsTyped, AppendProperties DEF Gain, IInv
    <3>2. sid[q] = i /\ pc[q] \in {"registered", "announced", "streaming"}
      BY <1>7, <2>1, <2>3 DEF SseSend, IInv, Held
    <3>3. pc[q] = "streaming" \/ Elsewhere(q)
      <4>1. i \in Agreed \/ \E j \in opened : sid[j] = i
        BY <1>7 DEF SseSend, KnownIds
      <4>2. q \in opened => pc[q] = "streaming"
        BY <3>2 DEF IInv, Known
      <4>3. QED
        BY <3>2, <4>1, <4>2 DEF Elsewhere
    <3>4. sent + 1 # Endpoint
      BY ConstantsAssumption DEF ConstantsAssumption, IInv, Typed, Events
    <3>5. \A n \in 1..Len(Items(q)') :
             \/ n \in 1..Len(Items(q)) /\ Items(q)'[n] = Items(q)[n]
             \/ n = Len(Items(q)) + 1 /\ Items(q)'[n] # Endpoint
      BY <1>1, <3>1, <3>4
    <3>6. \A n \in 1..Len(Items(q)) : n \in 1..Len(Items(q)')
      BY <1>1, <3>1
    <3>7. Elsewhere(q)' = Elsewhere(q) /\ pc'[q] = pc[q]
      BY <2>2 DEF Elsewhere
    <3>8. Items(q)'[1] = Endpoint \/ Elsewhere(q)
      <4>1. CASE Len(Items(q)) # 0
        <5>1. 1 \in 1..Len(Items(q))
          BY <1>1, <4>1
        <5>2. QED
          BY <1>1, <3>1, <4>1, <5>1 DEF FirstOf
      <4>2. CASE Len(Items(q)) = 0
        BY <1>1, <3>3, <4>2 DEF FirstOf
      <4>3. QED
        BY <4>1, <4>2
    <3>9. QED
      BY <1>1, <3>2, <3>5, <3>6, <3>7, <3>8 DEF FirstOf
  <2>4. CASE q # k
    BY <1>1, <2>2, <2>4, FirstKept DEF Gain
  <2>5. QED
    BY <2>3, <2>4
<1>8. CASE (\E i \in Ids : SseClose(i)) \/ Start \/ StopClear \/ StopShutdown \/ UNCHANGED vars
  <2>1. Items(q)' = Items(q) /\ pc' = pc
    BY <1>2, <1>8 DEF SseClose, Start, StopClear, StopShutdown, vars
  <2>2. QED
    BY <2>1, FirstKept
<1>9. QED
  BY <1>3, <1>4, <1>5, <1>6, <1>7, <1>8 DEF Next, StreamStep

-----------------------------------------------------------------------------
(* The invariant and what follows from it.                                 *)

THEOREM Invariance == Spec => []IInv
<1>1. Init => IInv
  <2> SUFFICES ASSUME Init PROVE IInv
    OBVIOUS
  <2>1. Cardinality(Streams) \in Nat /\ Cardinality({}) = 0
    BY ConstantsAssumption, FS_CardinalityType, FS_EmptySet DEF ConstantsAssumption
  <2>2. Typed
    BY <2>1, ConstantsAssumption DEF ConstantsAssumption, Init, Typed, FirstId, Stages, Events
  <2>3. CounterOK
    <3>1. Counted = {}
      BY DEF Init, Counted
    <3>2. QED
      BY <2>1, <3>1 DEF CounterOK, Init, FirstId
  <2>4. Numbered
    BY DEF Init, Numbered, NumberOf, FirstId
  <2>5. Held /\ Known
    BY DEF Init, Held, Known
  <2>6. ASSUME NEW k \in Streams
        PROVE  Len(Items(k)) = 0
    <3>1. Items(k) = <<>> \o <<>>
      BY DEF Init, Items
    <3>2. QED
      BY <3>1
  <2>7. First
    BY <2>6 DEF Init, First, FirstOf
  <2>8. Ordered
    BY <2>6 DEF Ordered, OrderOf
  <2>9. QED
    BY <2>2, <2>3, <2>4, <2>5, <2>7, <2>8 DEF IInv
<1>2. IInv /\ [Next]_vars => IInv'
  BY TypedStep, NumberedStep, HeldStep, KnownStep, FirstStep, OrderedStep DEF IInv
<1>3. QED
  BY <1>1, <1>2, PTL DEF Spec

\* Ids never outgrow the number of streams, and a client is sent nothing but its
\* endpoint and 1C's events.
THEOREM TypeCorrect == Spec => []TypeOK
<1>1. IInv => TypeOK
  <2> SUFFICES ASSUME IInv PROVE TypeOK
    OBVIOUS
  <2>1. ASSUME NEW k \in Streams
        PROVE  Range(queue[k]) \cup Range(seen[k]) \subseteq Events
    <3>1. queue[k] \in Seq(Events) /\ seen[k] \in Seq(Events)
      BY DEF IInv, Typed
    <3>2. /\ DOMAIN queue[k] = 1..Len(queue[k]) /\ DOMAIN seen[k] = 1..Len(seen[k])
          /\ \A n \in 1..Len(queue[k]) : queue[k][n] \in Events
          /\ \A n \in 1..Len(seen[k]) : seen[k][n] \in Events
      BY <3>1, LenProperties, ElementOfSeq
    <3>3. QED
      BY <3>2 DEF Range
  <2>2. QED
    BY <2>1 DEF IInv, Typed, TypeOK, Events, Stages
<1>2. QED
  BY <1>1, Invariance, PTL

\* Whoever uses its session id, a stream carries its endpoint once, and ahead of all
\* that 1C sends unless 1C has the id by agreement or from another stream.
THEOREM EndpointIsFirst == Spec => []EndpointFirst
<1>1. IInv => EndpointFirst
  <2> SUFFICES ASSUME IInv, NEW k \in Streams
               PROVE  /\ pc[k] \in {"announced", "streaming", "ended"} => Endpoints(k) # {}
                      /\ \A m, n \in Endpoints(k) : m = n
                      /\ Items(k) # <<>> /\ 1 \notin Endpoints(k) => KnownBefore(k)
    BY DEF EndpointFirst
  <2>1. FirstOf(k) /\ Items(k) \in Seq(Events) /\ Len(Items(k)) \in Nat
    BY ItemsTyped DEF IInv, First
  <2>2. DOMAIN Items(k) = 1..Len(Items(k))
    BY <2>1, LenProperties
  <2>3. Items(k) # <<>> => Len(Items(k)) # 0 /\ 1 \in 1..Len(Items(k))
    BY <2>1, EmptySeq
  <2>4. Len(Items(k)) # 0 /\ Elsewhere(k) => KnownBefore(k)
    <3>1. Len(Items(k)) # 0 => sid[k] # 0
      BY <2>1 DEF FirstOf, IInv, Numbered, NumberOf
    <3>2. \A j \in opened \ {k} : sid[j] = sid[k] /\ sid[k] # 0 => named[j] \/ named[k]
      BY DEF IInv, Typed, Numbered, NumberOf
    <3>3. QED
      BY <3>1, <3>2 DEF Elsewhere, KnownBefore
  <2>5. QED
    BY <2>1, <2>2, <2>3, <2>4 DEF FirstOf, Endpoints
<1>2. QED
  BY <1>1, Invariance, PTL

\* However sessions are reused, an event goes to one client, once, in order.
THEOREM EventsOnce == Spec => []EachEventOnce
<1>1. IInv => EachEventOnce
  <2> SUFFICES ASSUME IInv, NEW k \in Streams
               PROVE  /\ \A m, n \in DOMAIN Items(k) :
                            m < n /\ Items(k)[n] # Endpoint => Items(k)[m] < Items(k)[n]
                      /\ \A j \in Streams \ {k} :
                            Range(Items(k)) \cap Range(Items(j)) \subseteq {Endpoint}
    BY DEF EachEventOnce
  <2>1. \A j \in Streams : DOMAIN Items(j) = 1..Len(Items(j))
    <3>1. \A j \in Streams : Items(j) \in Seq(Events)
      BY ItemsTyped DEF IInv
    <3>2. QED
      BY <3>1, LenProperties
  <2>2. OrderOf(k)
    BY DEF IInv, Ordered
  <2>3. ASSUME NEW j \in Streams \ {k}
        PROVE  Range(Items(k)) \cap Range(Items(j)) \subseteq {Endpoint}
    BY <2>1, <2>2 DEF OrderOf, Range
  <2>4. QED
    BY <2>1, <2>2, <2>3 DEF OrderOf
<1>2. QED
  BY <1>1, Invariance, PTL

\* A stream is pushed out of its session only where a client asked for the id.
THEOREM NamesCollide == Spec => OnlyNamesCollide
<1> DEFINE Pushed(i) == sessions[i] # NoStream /\ sessions'[i] \notin {NoStream, sessions[i]}
           Fair(i) == Pushed(i) => named[sessions[i]] \/ named[sessions'[i]]
<1>1. IInv /\ [Next]_vars => \A i \in Ids : Fair(i)
  <2> SUFFICES ASSUME IInv, [Next]_vars, NEW i \in Ids PROVE Fair(i)
    OBVIOUS
  <2>1. sessions \in [Ids -> Streams \cup {NoStream}]
    BY DEF IInv, Typed
  <2>2. ASSUME NEW k \in Streams, Register(k)
        PROVE  Fair(i)
    <3>1. sessions' = [sessions EXCEPT ![sid[k]] = k]
      BY <2>2 DEF Register
    <3>2. CASE i # sid[k]
      BY <2>1, <3>1, <3>2
    <3>3. CASE i = sid[k] /\ sessions[i] # NoStream
      <4>1. sid[sessions[i]] = i /\ sessions[i] \in Streams /\ sessions'[i] = k
        BY <2>1, <3>1, <3>3 DEF IInv, Held
      <4>2. sid[k] # 0
        BY <2>2 DEF Register, IInv, Numbered, NumberOf
      <4>3. sessions[i] # k => named[sessions[i]] \/ named[k]
        BY <3>3, <4>1, <4>2 DEF IInv, Numbered, NumberOf
      <4>4. QED
        BY <4>1, <4>3
    <3>4. QED
      BY <3>2, <3>3
  <2>3. CASE UNCHANGED sessions
    BY <2>3
  <2>4. ASSUME NEW j \in Ids, SseClose(j)
        PROVE  Fair(i)
    BY <2>1, <2>4 DEF SseClose
  <2>5. CASE StopClear
    BY <2>5 DEF StopClear
  <2> HIDE DEF Fair
  <2>6. QED
    BY <2>2, <2>3, <2>4, <2>5
    DEF Next, StreamStep, vars, AcceptNamed, AcceptNumbered, SendEndpoint, OpenEvent, Deliver,
        StreamEnds, ClientLeaves, SseSend, Start, StopShutdown
<1>2. QED
  BY <1>1, Invariance, PTL DEF Spec, OnlyNamesCollide
=============================================================================
