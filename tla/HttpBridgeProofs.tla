--------------------------- MODULE HttpBridgeProofs ---------------------------
(***************************************************************************)
(* Safety of the HTTP request bridge for any number of requests, answers   *)
(* and restarts.  It differs from the MCP bridge where the proof is        *)
(* delicate: every instance of the server has a map of its own, and a      *)
(* handler can be dropped at an await with its entry still in a map.       *)
(***************************************************************************)
EXTENDS HttpBridge, FiniteSetTheorems, TLAPS

Stages == {"idle", "accepted", "numbered", "inserted", "waiting", "removing", "done", "left"}

\* Requests that have a number.
Counted == {r \in Requests : rid[r] # 0}

\* The counter is as many numbers ahead as it has handed out, so that there are
\* never more ids than requests.
CounterOK == nextId = Cardinality(Counted) + 1

\* A server that was started has an instance.
Started == server # "down" => gen \in 1..MaxGen

\* A handler has an instance from Accept on and a number from TakeId on.
NumberOf(r) ==
    /\ pc[r] \in {"idle", "accepted"} => rid[r] = 0
    /\ pc[r] \in {"numbered", "inserted", "waiting", "removing", "done"} => rid[r] # 0
    /\ pc[r] # "idle" => born[r] \in 1..gen
    /\ rid[r] < nextId
    /\ \A q \in Requests : rid[r] # 0 /\ rid[q] = rid[r] => q = r
Numbered == \A r \in Requests : NumberOf(r)

\* An entry is in the map of its handler's instance, under its number; its handler
\* has stored it and neither removed it nor received an answer.  It may be gone.
EntryOf(w, g, i) ==
    /\ rid[w] = i
    /\ born[w] = g
    /\ pc[w] \in {"inserted", "waiting", "removing", "left"}
    /\ chan[w] \in {"open", "dropped"}
    /\ got[w] = NoAnswer
Mapped ==
    \A g \in 1..MaxGen, i \in Ids :
        waiters[g][i] # NoRequest => EntryOf(waiters[g][i], g, i)

\* The channel, the map and the accepted answer.
ChannelOf(r) ==
    /\ pc[r] \in {"idle", "accepted", "numbered"} => chan[r] = "none"
    /\ pc[r] \in {"inserted", "waiting"} => chan[r] \in {"open", "sent", "closed"}
    /\ pc[r] \in {"done", "left"} => chan[r] \in {"closed", "dropped"}
    /\ chan[r] = "open" => waiters[born[r]][rid[r]] = r
    /\ chan[r] \in {"none", "open", "closed"} => got[r] = NoAnswer
    /\ chan[r] = "sent" => got[r] # NoAnswer
    /\ got[r] # NoAnswer => r \in emitted /\ \E a \in Answers : got[r] = <<r, a>>
Channels == \A r \in Requests : ChannelOf(r)

\* 1C hears of a request only once its sender is stored, and never of one that is
\* refused; the outcome is fixed on leaving the wait.
OutcomeOf(r) ==
    /\ r \in emitted => rid[r] # 0 /\ pc[r] \in {"waiting", "removing", "done", "left"}
    /\ pc[r] \in {"idle", "accepted", "numbered", "inserted", "waiting"} => outcome[r] = "none"
    /\ pc[r] = "removing" => outcome[r] \in {"refused", "timeout"}
    /\ pc[r] = "done" => outcome[r] # "none"
    /\ outcome[r] = "reply" => got[r] # NoAnswer
    /\ outcome[r] = "refused" => r \notin emitted
    /\ outcome[r] = "closed" => got[r] = NoAnswer /\ chan[r] = "closed"
Outcomes == \A r \in Requests : OutcomeOf(r)

IInv == TypeOK /\ Started /\ CounterOK /\ Numbered /\ Mapped /\ Channels /\ Outcomes

USE DEF serverVars, callVars, Advance, CloseIfOpen

\* One cell of a table of tables is written: the rest is as before.
LEMMA OneCell ==
    ASSUME NEW G, NEW I, NEW V, NEW f \in [G -> [I -> V]], NEW g \in G, NEW i \in I, NEW v \in V
    PROVE  /\ [f EXCEPT ![g][i] = v] \in [G -> [I -> V]]
           /\ \A h \in G, j \in I :
                 [f EXCEPT ![g][i] = v][h][j] = IF h = g /\ j = i THEN v ELSE f[h][j]
<1> DEFINE row == [f[g] EXCEPT ![i] = v]
           new == [f EXCEPT ![g] = row]
<1>1. row \in [I -> V] /\ \A j \in I : row[j] = IF j = i THEN v ELSE f[g][j]
  OBVIOUS
<1>2. [f EXCEPT ![g][i] = v] = new
  OBVIOUS
<1> HIDE DEF row
<1>3. new \in [G -> [I -> V]] /\ \A h \in G : new[h] = IF h = g THEN row ELSE f[h]
  BY <1>1
<1> HIDE DEF new
<1>4. QED
  BY <1>1, <1>2, <1>3

-----------------------------------------------------------------------------
(* Numbers.                                                                *)

LEMMA CountBound == TypeOK => /\ IsFiniteSet(Counted)
                              /\ Cardinality(Counted) \in 0..Cardinality(Requests)
                              /\ Cardinality(Requests) \in Nat
<1> SUFFICES ASSUME TypeOK
             PROVE  /\ IsFiniteSet(Counted)
                    /\ Cardinality(Counted) \in 0..Cardinality(Requests)
                    /\ Cardinality(Requests) \in Nat
  OBVIOUS
<1>1. IsFiniteSet(Requests) /\ Counted \subseteq Requests
  BY ConstantsAssumption DEF ConstantsAssumption, Counted
<1>2. IsFiniteSet(Counted) /\ Cardinality(Counted) <= Cardinality(Requests)
  BY <1>1, FS_Subset
<1>3. Cardinality(Counted) \in Nat /\ Cardinality(Requests) \in Nat
  BY <1>1, <1>2, FS_CardinalityType
<1>4. QED
  BY <1>2, <1>3

\* A request that takes a number is one more of those that have one, and before
\* that there was one without.
LEMMA TakeCounts ==
    ASSUME TypeOK, CounterOK, Numbered, NEW r \in Requests, TakeId(r)
    PROVE  /\ nextId \in 1..Cardinality(Requests)
           /\ nextId' = nextId + 1
           /\ rid' = [rid EXCEPT ![r] = nextId]
           /\ CounterOK'
<1>1. /\ IsFiniteSet(Counted) /\ IsFiniteSet(Requests)
      /\ Cardinality(Counted) \in Nat /\ Cardinality(Requests) \in Nat
  BY CountBound, ConstantsAssumption DEF ConstantsAssumption
<1>2. nextId' = nextId + 1 /\ rid' = [rid EXCEPT ![r] = nextId] /\ nextId \in Nat /\ nextId # 0
  BY DEF TakeId, TypeOK
<1>3. r \notin Counted
  BY DEF TakeId, Numbered, NumberOf, Counted
<1>4. Counted' = Counted \cup {r}
  BY <1>2 DEF Counted, TypeOK
<1>5. Cardinality(Counted \cup {r}) = Cardinality(Counted) + 1 /\ IsFiniteSet(Counted \cup {r})
  BY <1>1, <1>3, FS_AddElement
<1>6. CounterOK'
  BY <1>1, <1>2, <1>4, <1>5 DEF CounterOK
<1>7. Counted \cup {r} \subseteq Requests
  BY DEF Counted
<1>8. Cardinality(Counted \cup {r}) <= Cardinality(Requests)
  BY <1>1, <1>7, FS_Subset
<1>9. nextId \in 1..Cardinality(Requests)
  BY <1>1, <1>2, <1>5, <1>8 DEF CounterOK
<1>10. QED
  BY <1>2, <1>6, <1>9

\* Steps that hand out no number.
LEMMA CounterKept == CounterOK /\ UNCHANGED <<rid, nextId>> => CounterOK'
  BY DEF CounterOK, Counted

-----------------------------------------------------------------------------
(* The maps.                                                               *)

Tables == [1..MaxGen -> [Ids -> Requests \cup {NoRequest}]]
ChannelStates == {"none", "open", "sent", "closed", "dropped"}

\* A handler that has a number, and an event, point into a map.
LEMMA Place ==
    ASSUME IInv, NEW r \in Requests, rid[r] # 0
    PROVE  rid[r] \in Ids /\ born[r] \in 1..MaxGen /\ gen \in 1..MaxGen
<1>1. rid[r] \in 0..Cardinality(Requests) /\ Cardinality(Requests) \in Nat
  BY CountBound DEF IInv, TypeOK
<1>2. pc[r] # "idle"
  BY DEF IInv, Numbered, NumberOf
<1>3. born[r] \in 1..gen /\ gen \in 0..MaxGen /\ MaxGen \in Nat
  BY <1>2, ConstantsAssumption DEF ConstantsAssumption, IInv, Numbered, NumberOf, TypeOK
<1>4. QED
  BY <1>1, <1>3 DEF Ids

LEMMA InsertWrites ==
    ASSUME IInv, NEW r \in Requests, Insert(r)
    PROVE  /\ waiters' \in Tables
           /\ \A g \in 1..MaxGen, i \in Ids :
                 waiters'[g][i] = IF g = born[r] /\ i = rid[r] THEN r ELSE waiters[g][i]
  BY Place, OneCell DEF Insert, IInv, TypeOK, Numbered, NumberOf, Tables

LEMMA RemoveWrites ==
    ASSUME IInv, NEW r \in Requests, Remove(r)
    PROVE  /\ waiters' \in Tables
           /\ \A g \in 1..MaxGen, i \in Ids :
                 waiters'[g][i] = IF g = born[r] /\ i = rid[r] THEN NoRequest ELSE waiters[g][i]
  BY Place, OneCell DEF Remove, IInv, TypeOK, Numbered, NumberOf, Tables

LEMMA SendWrites ==
    ASSUME IInv, NEW r \in Requests, NEW a \in Answers, SendResponse(r, a)
    PROVE  /\ waiters' \in Tables
           /\ \A g \in 1..MaxGen, i \in Ids :
                 waiters'[g][i] = IF g = gen /\ i = rid[r] THEN NoRequest ELSE waiters[g][i]
<1>1. rid[r] # 0
  BY DEF SendResponse, IInv, Outcomes, OutcomeOf
<1>2. waiters' = [waiters EXCEPT ![gen][rid[r]] = NoRequest] /\ waiters \in Tables
  BY DEF SendResponse, IInv, TypeOK, Tables
<1>3. rid[r] \in Ids /\ gen \in 1..MaxGen
  BY <1>1, Place
<1>4. QED
  BY <1>2, <1>3, OneCell DEF Tables

\* The event that 1C answers is the one of the handler whose sender it uses.
LEMMA SendFindsItsOwn ==
    ASSUME IInv, NEW r \in Requests, NEW a \in Answers, SendResponse(r, a)
    PROVE  /\ waiters[gen][rid[r]] = r /\ born[r] = gen
           /\ chan[r] = "open" => chan' = [chan EXCEPT ![r] = "sent"]
                                   /\ got' = [got EXCEPT ![r] = <<r, a>>]
           /\ chan[r] # "open" => UNCHANGED <<chan, got>>
<1> DEFINE w == waiters[gen][rid[r]]
<1>1. rid[r] # 0 /\ w # NoRequest
  BY DEF SendResponse, IInv, Outcomes, OutcomeOf
<1>2. rid[r] \in Ids /\ gen \in 1..MaxGen
  BY <1>1, Place
<1>3. w \in Requests
  <2>1. waiters \in [1..MaxGen -> [Ids -> Requests \cup {NoRequest}]]
    BY DEF IInv, TypeOK
  <2>2. QED
    BY <1>1, <1>2, <2>1
<1>4. rid[w] = rid[r] /\ born[w] = gen
  BY <1>1, <1>2 DEF IInv, Mapped, EntryOf
<1>5. w = r
  BY <1>1, <1>3, <1>4 DEF IInv, Numbered, NumberOf
<1>6. QED
  BY <1>4, <1>5 DEF SendResponse

-----------------------------------------------------------------------------
(* One step.                                                               *)

LEMMA TypeStep == IInv /\ [Next]_vars => TypeOK' /\ Started'
<1> SUFFICES ASSUME IInv, [Next]_vars PROVE TypeOK' /\ Started'
  OBVIOUS
<1> USE ConstantsAssumption DEF ConstantsAssumption, IInv, TypeOK, Started, Ids
<1>1. ASSUME NEW r \in Requests, TakeId(r)
      PROVE  TypeOK' /\ Started'
  <2>1. /\ nextId \in 1..Cardinality(Requests) /\ nextId' = nextId + 1
        /\ rid' = [rid EXCEPT ![r] = nextId] /\ Cardinality(Requests) \in Nat
    BY <1>1, TakeCounts, CountBound
  <2>2. nextId' \in 1..(Cardinality(Requests) + 1) /\ nextId \in 0..Cardinality(Requests)
    BY <2>1
  <2>3. QED
    BY <1>1, <2>1, <2>2 DEF TakeId
<1>2. ASSUME NEW r \in Requests, Accept(r)
      PROVE  TypeOK' /\ Started'
  BY <1>2 DEF Accept
<1>3. ASSUME NEW r \in Requests, Insert(r) \/ Remove(r)
      PROVE  TypeOK' /\ Started'
  <2>1. waiters' \in Tables
    BY <1>3, InsertWrites, RemoveWrites
  <2>2. chan \in [Requests -> ChannelStates] /\ pc \in [Requests -> Stages]
    BY DEF ChannelStates, Stages
  <2> HIDE DEF IInv, TypeOK, Started
  <2>3. CASE Insert(r)
    <3>1. chan' \in [Requests -> ChannelStates] /\ pc' \in [Requests -> Stages]
      BY <2>2, <2>3 DEF Insert, ChannelStates, Stages
    <3>2. QED
      BY <2>1, <2>3, <3>1 DEF Insert, IInv, TypeOK, Started, Stages, ChannelStates, Tables
  <2>4. CASE Remove(r)
    <3>1. chan' \in [Requests -> ChannelStates] /\ pc' \in [Requests -> Stages]
      BY <2>2, <2>4 DEF Remove, ChannelStates, Stages
    <3>2. QED
      BY <2>1, <2>4, <3>1 DEF Remove, IInv, TypeOK, Started, Stages, ChannelStates, Tables
  <2>5. QED
    BY <1>3, <2>3, <2>4
<1>4. ASSUME NEW r \in Requests, Emit(r) \/ EmitFails(r)
      PROVE  TypeOK' /\ Started'
  BY <1>4 DEF Emit, EmitFails
<1>5. ASSUME NEW r \in Requests, ReceiveReply(r) \/ ReceiveClosed(r) \/ TimerElapses(r)
      PROVE  TypeOK' /\ Started'
  BY <1>5 DEF ReceiveReply, ReceiveClosed, TimerElapses
<1>6. ASSUME NEW r \in Requests, Timeout(r) \/ ClientLeaves(r)
      PROVE  TypeOK' /\ Started'
  BY <1>6 DEF Timeout, FailTimeout, ClientLeaves
<1>7. ASSUME NEW r \in Requests, NEW a \in Answers, SendResponse(r, a)
       PROVE  TypeOK' /\ Started'
  <2>1. waiters' \in Tables
    BY <1>7, SendWrites
  <2>2. <<r, a>> \in Replies
    BY DEF Replies
  <2>3. /\ chan' \in [Requests -> {"none", "open", "sent", "closed", "dropped"}]
        /\ got' \in [Requests -> Replies \cup {NoAnswer}]
    <3>1. /\ chan \in [Requests -> {"none", "open", "sent", "closed", "dropped"}]
          /\ got \in [Requests -> Replies \cup {NoAnswer}]
      OBVIOUS
    <3>2. \/ chan' = [chan EXCEPT ![r] = "sent"] /\ got' = [got EXCEPT ![r] = <<r, a>>]
          \/ chan' = chan /\ got' = got
      BY <1>7, SendFindsItsOwn
    <3> HIDE DEF IInv, TypeOK
    <3>3. QED
      BY <2>2, <3>1, <3>2
  <2>4. UNCHANGED <<serverVars, callVars, pc, emitted, elapsed, outcome>>
    BY <1>7 DEF SendResponse
  <2>5. QED
    BY <2>1, <2>3, <2>4 DEF Tables
<1>8. CASE Start
  BY <1>8 DEF Start
<1>9. CASE StopClear
  BY <1>9 DEF StopClear
<1>10. CASE StopShutdown
  BY <1>10 DEF StopShutdown
<1>11. CASE UNCHANGED vars
  BY <1>11 DEF vars
<1>12. QED
  BY <1>1, <1>2, <1>3, <1>4, <1>5, <1>6, <1>7, <1>8, <1>9, <1>10, <1>11 DEF Next, HandlerStep

\* Numbers are fresh and unshared.
LEMMA NumberedStep == IInv /\ [Next]_vars => Numbered' /\ CounterOK'
<1> SUFFICES ASSUME IInv, [Next]_vars PROVE Numbered' /\ CounterOK'
  OBVIOUS
<1>1. /\ pc \in [Requests -> Stages] /\ rid \in [Requests -> Nat] /\ nextId \in Nat /\ gen \in Nat
      /\ born \in [Requests -> Nat]
  <2>1. Cardinality(Requests) \in Nat /\ MaxGen \in Nat
    BY CountBound, ConstantsAssumption DEF ConstantsAssumption, IInv
  <2>2. QED
    BY <2>1 DEF IInv, TypeOK, Stages
<1>2. Numbered /\ CounterOK /\ (server # "down" => gen # 0)
  BY <1>1 DEF IInv, Started
<1>3. UNCHANGED <<rid, nextId>> => CounterOK'
  BY <1>2, CounterKept
<1> USE <1>1, <1>2 DEF Numbered, NumberOf, Stages
<1>4. ASSUME NEW r \in Requests, Accept(r)
      PROVE  Numbered' /\ CounterOK'
  BY <1>3, <1>4 DEF Accept
<1>5. ASSUME NEW r \in Requests, TakeId(r)
      PROVE  Numbered' /\ CounterOK'
  <2>1. CounterOK' /\ nextId \in 1..Cardinality(Requests)
    BY <1>5, TakeCounts DEF IInv
  <2>2. Numbered'
    BY <1>5, <2>1 DEF TakeId
  <2>3. QED
    BY <2>1, <2>2
<1>6. ASSUME NEW r \in Requests, Insert(r) \/ Emit(r) \/ EmitFails(r)
      PROVE  Numbered' /\ CounterOK'
  BY <1>3, <1>6 DEF Insert, Emit, EmitFails
<1>7. ASSUME NEW r \in Requests, ReceiveReply(r) \/ ReceiveClosed(r) \/ TimerElapses(r)
      PROVE  Numbered' /\ CounterOK'
  BY <1>3, <1>7 DEF ReceiveReply, ReceiveClosed, TimerElapses
<1>8. ASSUME NEW r \in Requests, Timeout(r) \/ Remove(r) \/ ClientLeaves(r)
      PROVE  Numbered' /\ CounterOK'
  BY <1>3, <1>8 DEF Timeout, FailTimeout, Remove, ClientLeaves
<1>9. ASSUME NEW r \in Requests, NEW a \in Answers, SendResponse(r, a)
      PROVE  Numbered' /\ CounterOK'
  BY <1>3, <1>9 DEF SendResponse
<1>10. CASE Start
  BY <1>3, <1>10 DEF Start
<1>11. CASE StopClear \/ StopShutdown
  BY <1>3, <1>11 DEF StopClear, StopShutdown
<1>12. CASE UNCHANGED vars
  BY <1>3, <1>12 DEF vars
<1>13. QED
  BY <1>4, <1>5, <1>6, <1>7, <1>8, <1>9, <1>10, <1>11, <1>12 DEF Next, HandlerStep

\* The types of what an entry speaks of.
Shape ==
    /\ pc \in [Requests -> Stages] /\ rid \in [Requests -> Nat] /\ born \in [Requests -> Nat]
    /\ chan \in [Requests -> ChannelStates] /\ got \in [Requests -> Replies \cup {NoAnswer}]
    /\ waiters \in Tables
    /\ gen \in Nat

LEMMA Shaped == IInv => Shape
<1> SUFFICES ASSUME IInv PROVE Shape
  OBVIOUS
<1>1. Cardinality(Requests) \in Nat /\ MaxGen \in Nat
  BY CountBound, ConstantsAssumption DEF ConstantsAssumption, IInv
<1>2. QED
  BY <1>1 DEF IInv, TypeOK, Shape, Stages, ChannelStates, Tables

\* No entry is left for a handler that has removed its own, or been answered.
LEMMA MappedStep == IInv /\ [Next]_vars => Mapped'
<1> DEFINE Sound(g, i) == waiters[g][i] # NoRequest => EntryOf(waiters[g][i], g, i)
<1> SUFFICES ASSUME IInv, [Next]_vars, NEW g \in 1..MaxGen, NEW i \in Ids
             PROVE  Sound(g, i)'
  BY DEF Mapped
<1>1. Shape /\ Sound(g, i) /\ (waiters[g][i] \in Requests \/ waiters[g][i] = NoRequest)
  <2>1. Sound(g, i)
    BY DEF IInv, Mapped
  <2>2. Shape
    BY Shaped
  <2>3. waiters[g][i] \in Requests \cup {NoRequest}
    <3>1. waiters \in [1..MaxGen -> [Ids -> Requests \cup {NoRequest}]]
      BY <2>2 DEF Shape, Tables
    <3>2. waiters[g] \in [Ids -> Requests \cup {NoRequest}]
      BY <3>1
    <3> HIDE DEF Sound
    <3>3. QED
      BY <3>2
  <2>4. QED
    BY <2>1, <2>2, <2>3
<1> USE <1>1 DEF Shape, EntryOf, Stages
<1>2. ASSUME NEW r \in Requests, Accept(r) \/ TakeId(r)
      PROVE  Sound(g, i)'
  BY <1>2 DEF Accept, TakeId
<1>3. ASSUME NEW r \in Requests, Insert(r)
      PROVE  Sound(g, i)'
  \* There was no entry under its number, or it would belong to this handler.
  <2>1. /\ rid[r] \in Ids /\ born[r] \in 1..MaxGen
        /\ waiters'[g][i] = IF g = born[r] /\ i = rid[r] THEN r ELSE waiters[g][i]
    <3>1. pc[r] = "numbered"
      BY <1>3 DEF Insert
    <3>2. rid[r] \in Ids /\ born[r] \in 1..MaxGen
      BY <3>1, Place DEF IInv, Numbered, NumberOf
    <3>3. waiters'[g][i] = IF g = born[r] /\ i = rid[r] THEN r ELSE waiters[g][i]
      BY <1>3, InsertWrites
    <3>4. QED
      BY <3>2, <3>3
  <2>2. /\ pc[r] = "numbered" /\ pc' = [pc EXCEPT ![r] = "inserted"]
        /\ UNCHANGED <<rid, born, got>> /\ chan'[r] = "open"
    BY <1>3 DEF Insert
  <2>3. got[r] = NoAnswer
    BY <2>2 DEF IInv, Channels, ChannelOf
  <2>4. \A q \in Requests : chan[q] = "dropped" => chan'[q] = "dropped" \/ q = r
    BY <1>3 DEF Insert
  <2>5. \A q \in Requests : q # r /\ q # waiters[born[r]][rid[r]] => chan'[q] = chan[q]
    BY <1>3 DEF Insert
  <2>6. CASE g = born[r] /\ i = rid[r]
    BY <2>1, <2>2, <2>3, <2>6
  <2>7. CASE ~(g = born[r] /\ i = rid[r]) /\ waiters[g][i] # NoRequest
    <3>1. waiters[g][i] # waiters[born[r]][rid[r]]
      BY <2>1, <2>7 DEF IInv, Mapped
    <3>2. QED
      BY <2>1, <2>2, <2>5, <2>7, <3>1
  <2>8. QED
    BY <2>1, <2>6, <2>7
<1>4. ASSUME NEW r \in Requests, Emit(r) \/ EmitFails(r)
      PROVE  Sound(g, i)'
  BY <1>4 DEF Emit, EmitFails
<1>5. ASSUME NEW r \in Requests, ReceiveReply(r) \/ ReceiveClosed(r) \/ TimerElapses(r)
      PROVE  Sound(g, i)'
  BY <1>5 DEF ReceiveReply, ReceiveClosed, TimerElapses
<1>6. ASSUME NEW r \in Requests, Timeout(r) \/ ClientLeaves(r)
      PROVE  Sound(g, i)'
  BY <1>6 DEF Timeout, FailTimeout, ClientLeaves, ChannelStates
<1>7. ASSUME NEW r \in Requests, Remove(r)
      PROVE  Sound(g, i)'
  <2>1. waiters'[g][i] = IF g = born[r] /\ i = rid[r] THEN NoRequest ELSE waiters[g][i]
    BY <1>7, RemoveWrites
  <2>2. QED
    BY <1>7, <2>1 DEF Remove
<1>8. ASSUME NEW r \in Requests, NEW a \in Answers, SendResponse(r, a)
      PROVE  Sound(g, i)'
  <2>1. waiters'[g][i] = IF g = gen /\ i = rid[r] THEN NoRequest ELSE waiters[g][i]
    BY <1>8, SendWrites
  <2>2. /\ born[r] = gen
        /\ \A q \in Requests \ {r} : chan'[q] = chan[q] /\ got'[q] = got[q]
    BY <1>8, SendFindsItsOwn
  <2>3. UNCHANGED <<pc, rid, born>>
    BY <1>8 DEF SendResponse
  <2>4. QED
    BY <2>1, <2>2, <2>3
<1>9. CASE StopClear
  <2>1. waiters' = [waiters EXCEPT ![gen] = [n \in Ids |-> NoRequest]]
    BY <1>9 DEF StopClear
  <2>2. CASE g = gen
    BY <2>1, <2>2 DEF Tables
  <2>3. CASE g # gen
    <3>1. waiters'[g][i] = waiters[g][i]
      BY <2>1, <2>3 DEF Tables
    <3>2. waiters[g][i] # NoRequest => waiters[g][i] \notin {waiters[gen][n] : n \in Ids}
      <4>1. gen \in 1..MaxGen
        BY <1>9 DEF StopClear, IInv, Started
      <4>2. QED
        BY <2>3, <4>1 DEF IInv, Mapped
    <3>3. \A q \in Requests : q \notin {waiters[gen][n] : n \in Ids} => chan'[q] = chan[q]
      BY <1>9 DEF StopClear
    <3>4. UNCHANGED <<pc, rid, born, got>>
      BY <1>9 DEF StopClear
    <3>5. QED
      BY <3>1, <3>2, <3>3, <3>4
  <2>4. QED
    BY <2>2, <2>3
<1>10. CASE Start \/ StopShutdown
  BY <1>10 DEF Start, StopShutdown
<1>11. CASE UNCHANGED vars
  BY <1>11 DEF vars
<1>12. QED
  BY <1>2, <1>3, <1>4, <1>5, <1>6, <1>7, <1>8, <1>9, <1>10, <1>11 DEF Next, HandlerStep

\* A channel that is open belongs to a handler with a number.
LEMMA OpenHasPlace ==
    ASSUME IInv, NEW q \in Requests, chan[q] = "open"
    PROVE  /\ rid[q] # 0 /\ rid[q] \in Ids /\ born[q] \in 1..MaxGen
           /\ waiters[born[q]][rid[q]] = q
<1>1. ChannelOf(q) /\ NumberOf(q) /\ pc[q] \in Stages
  BY Shaped DEF IInv, Channels, Numbered, Shape
<1>2. rid[q] # 0 /\ waiters[born[q]][rid[q]] = q
  BY <1>1 DEF ChannelOf, NumberOf, Stages
<1>3. QED
  BY <1>2, Place

\* The channel of a request follows its handler and its entry.
LEMMA ChannelStep == IInv /\ [Next]_vars => Channels'
<1> SUFFICES ASSUME IInv, [Next]_vars, NEW q \in Requests
             PROVE  ChannelOf(q)'
  BY DEF Channels
<1>1. Shape /\ ChannelOf(q)
  BY Shaped DEF IInv, Channels
<1>2. chan[q] = "open" => /\ rid[q] # 0 /\ rid[q] \in Ids /\ born[q] \in 1..MaxGen
                          /\ waiters[born[q]][rid[q]] = q
  BY OpenHasPlace
<1> USE <1>1, <1>2 DEF Shape, ChannelOf, Stages, ChannelStates
<1>3. ASSUME NEW r \in Requests, Accept(r)
      PROVE  ChannelOf(q)'
  BY <1>3 DEF Accept
<1>4. ASSUME NEW r \in Requests, TakeId(r)
      PROVE  ChannelOf(q)'
  BY <1>4 DEF TakeId
<1>5. ASSUME NEW r \in Requests, Insert(r)
      PROVE  ChannelOf(q)'
  <2>1. /\ rid[r] \in Ids /\ born[r] \in 1..MaxGen
        /\ \A g \in 1..MaxGen, i \in Ids :
              waiters'[g][i] = IF g = born[r] /\ i = rid[r] THEN r ELSE waiters[g][i]
    BY <1>5, Place, InsertWrites DEF Insert, IInv, Numbered, NumberOf
  <2>2. /\ pc[r] = "numbered" /\ pc' = [pc EXCEPT ![r] = "inserted"]
        /\ UNCHANGED <<rid, born, got, emitted>>
    BY <1>5 DEF Insert
  <2>3. chan'[q] = IF q = r THEN "open"
                   ELSE IF q = waiters[born[r]][rid[r]] /\ chan[q] = "open" THEN "closed"
                   ELSE chan[q]
    BY <1>5 DEF Insert
  <2>4. CASE q = r
    <3>1. waiters'[born'[q]][rid'[q]] = q
      BY <2>1, <2>2, <2>4
    <3>2. pc'[q] = "inserted" /\ chan'[q] = "open" /\ got'[q] = NoAnswer
      BY <2>2, <2>3, <2>4
    <3>3. QED
      BY <3>1, <3>2
  <2>5. CASE q # r /\ chan'[q] = "open"
    <3>1. chan[q] = "open" /\ q # waiters[born[r]][rid[r]]
      BY <2>3, <2>5
    <3>2. waiters'[born[q]][rid[q]] = q
      BY <2>1, <3>1
    <3>3. QED
      BY <2>2, <2>5, <3>1, <3>2
  <2>6. CASE q # r /\ chan'[q] # "open"
    BY <2>2, <2>3, <2>6
  <2>7. QED
    BY <2>4, <2>5, <2>6
<1>6. ASSUME NEW r \in Requests, Emit(r) \/ EmitFails(r)
      PROVE  ChannelOf(q)'
  BY <1>6 DEF Emit, EmitFails
<1>7. ASSUME NEW r \in Requests, ReceiveReply(r)
      PROVE  ChannelOf(q)'
  BY <1>7 DEF ReceiveReply
<1>8. ASSUME NEW r \in Requests, ReceiveClosed(r) \/ TimerElapses(r)
      PROVE  ChannelOf(q)'
  BY <1>8 DEF ReceiveClosed, TimerElapses
<1>9. ASSUME NEW r \in Requests, Timeout(r)
      PROVE  ChannelOf(q)'
  BY <1>9 DEF Timeout, FailTimeout
<1>10. ASSUME NEW r \in Requests, Remove(r)
      PROVE  ChannelOf(q)'
  <2>1. \A g \in 1..MaxGen, i \in Ids :
            waiters'[g][i] = IF g = born[r] /\ i = rid[r] THEN NoRequest ELSE waiters[g][i]
    BY <1>10, RemoveWrites
  <2>2. /\ pc[r] = "removing" /\ pc' = [pc EXCEPT ![r] = "done"]
        /\ chan' = [chan EXCEPT ![r] = "dropped"] /\ UNCHANGED <<rid, born, got, emitted>>
    BY <1>10 DEF Remove
  <2>3. chan'[q] = "open" => waiters'[born[q]][rid[q]] = q
    <3>1. chan'[q] = "open" => q # r /\ chan[q] = "open"
      BY <2>2
    <3>2. q # r /\ chan[q] = "open" => rid[q] # rid[r]
      BY DEF IInv, Numbered, NumberOf
    <3>3. QED
      BY <2>1, <3>1, <3>2
  <2>4. QED
    BY <2>2, <2>3
<1>11. ASSUME NEW r \in Requests, ClientLeaves(r)
      PROVE  ChannelOf(q)'
  BY <1>11 DEF ClientLeaves
<1>12. ASSUME NEW r \in Requests, NEW a \in Answers, SendResponse(r, a)
      PROVE  ChannelOf(q)'
  <2>1. \A g \in 1..MaxGen, i \in Ids :
            waiters'[g][i] = IF g = gen /\ i = rid[r] THEN NoRequest ELSE waiters[g][i]
    BY <1>12, SendWrites
  <2>2. /\ chan[r] = "open" => chan' = [chan EXCEPT ![r] = "sent"]
                               /\ got' = [got EXCEPT ![r] = <<r, a>>]
        /\ chan[r] # "open" => UNCHANGED <<chan, got>>
    BY <1>12, SendFindsItsOwn
  <2>3. r \in emitted /\ UNCHANGED <<pc, rid, born, emitted>>
    BY <1>12 DEF SendResponse
  <2>4. CASE q = r /\ chan[r] = "open"
    <3>1. chan'[q] = "sent" /\ got'[q] = <<r, a>> /\ got'[q] # NoAnswer
      BY <2>2, <2>4, ConstantsAssumption DEF ConstantsAssumption
    <3>2. QED
      BY <2>3, <2>4, <3>1
  <2>5. CASE q = r /\ chan[r] # "open"
    BY <2>2, <2>3, <2>5
  <2>6. CASE q # r
    <3>1. chan'[q] = chan[q] /\ got'[q] = got[q]
      BY <2>2, <2>6
    <3>2. chan[q] = "open" => rid[q] # rid[r]
      BY <2>6 DEF IInv, Numbered, NumberOf
    <3>3. chan[q] = "open" => waiters'[born[q]][rid[q]] = q
      BY <2>1, <3>2
    <3>4. QED
      BY <2>3, <3>1, <3>3
  <2>7. QED
    BY <2>4, <2>5, <2>6
<1>13. CASE StopClear
  <2>1. gen \in 1..MaxGen
    BY <1>13 DEF StopClear, IInv, Started
  <2>2. waiters' = [waiters EXCEPT ![gen] = [n \in Ids |-> NoRequest]]
    BY <1>13 DEF StopClear
  <2>3. chan'[q] = IF q \in {waiters[gen][n] : n \in Ids} /\ chan[q] = "open" THEN "closed"
                   ELSE chan[q]
    BY <1>13 DEF StopClear
  <2>4. chan'[q] = "open" => chan[q] = "open" /\ born[q] # gen
    BY <2>3
  <2>5. chan'[q] = "open" => waiters'[born[q]][rid[q]] = q
    BY <2>1, <2>2, <2>4 DEF Tables
  <2>6. UNCHANGED <<pc, rid, born, got, emitted>>
    BY <1>13 DEF StopClear
  <2>7. QED
    BY <2>3, <2>5, <2>6
<1>14. CASE Start \/ StopShutdown
  BY <1>14 DEF Start, StopShutdown
<1>15. CASE UNCHANGED vars
  BY <1>15 DEF vars
<1>16. QED
  BY <1>3, <1>4, <1>5, <1>6, <1>7, <1>8, <1>9, <1>10, <1>11, <1>12, <1>13, <1>14, <1>15
     DEF Next, HandlerStep

\* An outcome is chosen once, and no answer comes after an error.
LEMMA OutcomeStep == IInv /\ [Next]_vars => Outcomes'
<1> SUFFICES ASSUME IInv, [Next]_vars, NEW q \in Requests
             PROVE  OutcomeOf(q)'
  BY DEF Outcomes
<1>1. Shape /\ ChannelOf(q) /\ OutcomeOf(q) /\ NumberOf(q)
  BY Shaped DEF IInv, Channels, Outcomes, Numbered
<1>2. outcome \in [Requests -> {"none", "reply", "refused", "closed", "timeout"}]
  BY DEF IInv, TypeOK
<1> USE <1>1, <1>2 DEF Shape, ChannelOf, OutcomeOf, NumberOf, Stages, ChannelStates
<1>3. ASSUME NEW r \in Requests, Accept(r)
      PROVE  OutcomeOf(q)'
  BY <1>3 DEF Accept
<1>4. ASSUME NEW r \in Requests, TakeId(r)
      PROVE  OutcomeOf(q)'
  BY <1>4 DEF TakeId
<1>5. ASSUME NEW r \in Requests, Insert(r)
      PROVE  OutcomeOf(q)'
  <2>1. outcome[q] = "closed" => q # r /\ chan'[q] = "closed"
    BY <1>5 DEF Insert
  <2>2. /\ pc[r] = "numbered" /\ pc' = [pc EXCEPT ![r] = "inserted"]
        /\ UNCHANGED <<rid, got, emitted, outcome>>
    BY <1>5 DEF Insert
  <2>3. QED
    BY <2>1, <2>2
<1>6. ASSUME NEW r \in Requests, Emit(r)
      PROVE  OutcomeOf(q)'
  BY <1>6 DEF Emit
<1>7. ASSUME NEW r \in Requests, EmitFails(r)
      PROVE  OutcomeOf(q)'
  BY <1>7 DEF EmitFails
<1>8. ASSUME NEW r \in Requests, ReceiveReply(r)
      PROVE  OutcomeOf(q)'
  BY <1>8 DEF ReceiveReply
<1>9. ASSUME NEW r \in Requests, ReceiveClosed(r) \/ TimerElapses(r)
      PROVE  OutcomeOf(q)'
  BY <1>9 DEF ReceiveClosed, TimerElapses
<1>10. ASSUME NEW r \in Requests, Timeout(r)
      PROVE  OutcomeOf(q)'
  BY <1>10 DEF Timeout, FailTimeout
<1>11. ASSUME NEW r \in Requests, Remove(r)
      PROVE  OutcomeOf(q)'
  BY <1>11 DEF Remove
<1>12. ASSUME NEW r \in Requests, ClientLeaves(r)
      PROVE  OutcomeOf(q)'
  BY <1>12 DEF ClientLeaves
<1>13. ASSUME NEW r \in Requests, NEW a \in Answers, SendResponse(r, a)
      PROVE  OutcomeOf(q)'
  <2>1. UNCHANGED <<pc, rid, emitted, outcome>>
    BY <1>13 DEF SendResponse
  <2>2. /\ chan[r] = "open" => chan' = [chan EXCEPT ![r] = "sent"]
                               /\ got' = [got EXCEPT ![r] = <<r, a>>]
        /\ chan[r] # "open" => UNCHANGED <<chan, got>>
    BY <1>13, SendFindsItsOwn
  <2>3. <<r, a>> # NoAnswer
    BY ConstantsAssumption DEF ConstantsAssumption
  <2>4. QED
    BY <2>1, <2>2, <2>3
<1>14. CASE StopClear
  <2>1. UNCHANGED <<pc, rid, emitted, outcome, got>>
    BY <1>14 DEF StopClear
  <2>2. outcome[q] = "closed" => chan'[q] = "closed"
    BY <1>14 DEF StopClear
  <2>3. QED
    BY <2>1, <2>2
<1>15. CASE Start \/ StopShutdown
  BY <1>15 DEF Start, StopShutdown
<1>16. CASE UNCHANGED vars
  BY <1>16 DEF vars
<1>17. QED
  BY <1>3, <1>4, <1>5, <1>6, <1>7, <1>8, <1>9, <1>10, <1>11, <1>12, <1>13, <1>14, <1>15, <1>16
     DEF Next, HandlerStep

-----------------------------------------------------------------------------
(* The invariant and what follows from it.                                 *)

THEOREM Invariance == Spec => []IInv
<1>1. Init => IInv
  <2> SUFFICES ASSUME Init PROVE IInv
    OBVIOUS
  <2>1. TypeOK /\ Started
    BY FS_CardinalityType, ConstantsAssumption
    DEF ConstantsAssumption, Init, TypeOK, FirstId, Started
  <2>2. CounterOK
    <3>1. Counted = {}
      BY DEF Init, Counted
    <3>2. QED
      BY <3>1, FS_EmptySet DEF CounterOK, Init, FirstId
  <2>3. Numbered
    BY DEF Init, Numbered, NumberOf, FirstId
  <2>4. Mapped
    BY DEF Init, Mapped
  <2>5. Channels
    BY DEF Init, Channels, ChannelOf
  <2>6. Outcomes
    BY DEF Init, Outcomes, OutcomeOf
  <2>7. QED
    BY <2>1, <2>2, <2>3, <2>4, <2>5, <2>6 DEF IInv
<1>2. IInv /\ [Next]_vars => IInv'
  BY TypeStep, NumberedStep, MappedStep, ChannelStep, OutcomeStep DEF IInv
<1>3. QED
  BY <1>1, <1>2, PTL DEF Spec

\* Ids never outgrow the number of requests, and every variable keeps its type.
THEOREM TypeCorrect == Spec => []TypeOK
<1>1. IInv => TypeOK
  BY DEF IInv
<1>2. QED
  BY <1>1, Invariance, PTL

\* A client gets the answer that 1C gave to the event of its own request, for any
\* number of requests, answers and restarts.
THEOREM CorrelatedAlways == Spec => []Correlated
<1>1. IInv => Correlated
  BY DEF IInv, Correlated, Outcomes, OutcomeOf, Channels, ChannelOf
<1>2. QED
  BY <1>1, Invariance, PTL

\* A handler that returns leaves no entry in the map of any instance, and a request
\* that was answered has none either.
THEOREM NoLeakAlways == Spec => []NoLeak
<1>1. IInv => NoLeak
  <2> SUFFICES ASSUME IInv, NEW g \in 1..MaxGen, NEW i \in Ids, waiters[g][i] # NoRequest
               PROVE  pc[waiters[g][i]] # "done" /\ got[waiters[g][i]] = NoAnswer
    BY DEF NoLeak, Entries
  <2>1. EntryOf(waiters[g][i], g, i)
    BY DEF IInv, Mapped
  <2>2. QED
    BY <2>1 DEF EntryOf
<1>2. QED
  BY <1>1, Invariance, PTL

-----------------------------------------------------------------------------
(* The bridge implements RequestReply.  A handler moves its request from one *)
(* phase to the next when it accepts it, returns or is dropped.              *)

LEMMA Quiet ==
  ASSUME got' = got,
         \A q \in Requests : Phase(q)' = Phase(q) /\ Result(q)' = Result(q)
  PROVE  UNCHANGED Abstract!absVars
BY DEF Abstract!absVars

\* Accepting a request opens it.
LEMMA OpenMaps ==
  ASSUME IInv, NEW r \in Requests, Accept(r)
  PROVE  Abstract!Next
<1>1. pc \in [Requests -> Stages]
  BY Shaped DEF Shape
<1>2. Phase(r) = "new" /\ got' = got
  BY DEF Accept, Phase
<1>3. \A q \in Requests : Phase(q)' = IF q = r THEN "open" ELSE Phase(q)
  BY <1>1 DEF Accept, Phase
<1>4. \A q \in Requests : Result(q)' = Result(q)
  BY <1>1 DEF Accept, Result
<1>5. Abstract!Open(r)
  BY <1>2, <1>3, <1>4 DEF Abstract!Open
<1>6. QED
  BY <1>5 DEF Abstract!Next

\* An answer for a channel that is open is given to the request whose event it is;
\* one for a receiver that is gone is invisible.
LEMMA GiveMaps ==
  ASSUME IInv, NEW r \in Requests, NEW a \in Answers, SendResponse(r, a)
  PROVE  [Abstract!Next]_(Abstract!absVars)
<1>1. \A q \in Requests : Phase(q)' = Phase(q) /\ Result(q)' = Result(q)
  BY DEF SendResponse, Phase, Result
<1>2. CASE chan[r] = "open"
  <2>1. got' = [got EXCEPT ![r] = <<r, a>>] /\ got[r] = NoAnswer
    BY <1>2, SendFindsItsOwn DEF IInv, Channels, ChannelOf
  <2>2. Phase(r) = "open" /\ <<r, a>> \in Replies
    BY <1>2 DEF Phase, Replies, IInv, Channels, ChannelOf
  <2>3. Abstract!Give(r, <<r, a>>)
    BY <1>1, <2>1, <2>2 DEF Abstract!Give
  <2>4. QED
    BY <2>2, <2>3 DEF Abstract!Next
<1>3. CASE chan[r] # "open"
  <2>1. got' = got
    BY <1>3, SendFindsItsOwn
  <2>2. QED
    BY <1>1, <2>1, Quiet
<1>4. QED
  BY <1>2, <1>3

\* A request ends with what its handler returns; if the handler is dropped, 1C
\* cannot tell it from a timeout.
LEMMA EndMaps ==
  ASSUME IInv, NEW r \in Requests, NEW last \in Stages, NEW how,
         pc[r] \notin {"idle", "done", "left"}, last \in {"done", "left"},
         pc' = [pc EXCEPT ![r] = last], got' = got,
         \A q \in Requests \ {r} : outcome'[q] = outcome[q],
         how = IF last = "left" THEN "timeout" ELSE outcome'[r],
         \/ how = "timeout"
         \/ how = "reply" /\ got[r] # NoAnswer
         \/ how \in {"refused", "closed"} /\ got[r] = NoAnswer
  PROVE  Abstract!Next
<1>1. pc \in [Requests -> Stages]
  BY Shaped DEF Shape
<1>2. Phase(r) = "open"
  BY DEF Phase
<1>3. \A q \in Requests : Phase(q)' = IF q = r THEN "ended" ELSE Phase(q)
  BY <1>1 DEF Phase
<1>4. \A q \in Requests : Result(q)' = IF q = r THEN how ELSE Result(q)
  BY <1>1 DEF Result
<1>5. Abstract!End(r, how)
  BY <1>2, <1>3, <1>4 DEF Abstract!End
<1>6. \/ Abstract!EndWithAnswer(r)
      \/ Abstract!EndWithError(r)
      \/ Abstract!EndWithTimeout(r)
  BY <1>5 DEF Abstract!EndWithAnswer, Abstract!EndWithError, Abstract!EndWithTimeout
<1>7. QED
  BY <1>6 DEF Abstract!Next

\* One accepted answer per request, the first; it or an error ends the request, and
\* a 500 or 503 says that no answer was accepted.
THEOREM Refinement == Spec => ImplementsRequestReply
<1>1. Init => Abstract!Init
  BY DEF Init, Abstract!Init, Phase, Result
<1>2. IInv /\ [Next]_vars => [Abstract!Next]_(Abstract!absVars)
  <2> SUFFICES ASSUME IInv, [Next]_vars PROVE [Abstract!Next]_(Abstract!absVars)
    OBVIOUS
  <2> DEFINE Unseen == got' = got /\ \A q \in Requests : Phase(q)' = Phase(q) /\ Result(q)' = Result(q)
  <2>1. Shape /\ outcome \in [Requests -> {"none", "reply", "refused", "closed", "timeout"}]
    BY Shaped DEF IInv, TypeOK
  <2>2. Unseen => [Abstract!Next]_(Abstract!absVars)
    BY Quiet
  <2> USE <2>1 DEF Shape, Phase, Result
  <2>3. ASSUME NEW r \in Requests, Accept(r)
        PROVE  Abstract!Next
    BY <2>3, OpenMaps
  <2>4. ASSUME NEW r \in Requests, TakeId(r) \/ Insert(r)
        PROVE  Unseen
    BY <2>4 DEF TakeId, Insert
  <2>5. ASSUME NEW r \in Requests, Emit(r) \/ EmitFails(r)
        PROVE  Unseen
    BY <2>5 DEF Emit, EmitFails
  <2>6. ASSUME NEW r \in Requests, Timeout(r) \/ TimerElapses(r)
        PROVE  Unseen
    BY <2>6 DEF Timeout, FailTimeout, TimerElapses
  <2>7. ASSUME NEW r \in Requests, NEW a \in Answers, SendResponse(r, a)
        PROVE  [Abstract!Next]_(Abstract!absVars)
    BY <2>7, GiveMaps
  <2>8. ASSUME NEW r \in Requests, ReceiveReply(r)
        PROVE  Abstract!Next
    <3>1. got[r] # NoAnswer
      BY <2>8 DEF ReceiveReply, IInv, Channels, ChannelOf
    <3>2. QED
      BY <2>8, <3>1, EndMaps DEF ReceiveReply, Stages
  <2>9. ASSUME NEW r \in Requests, ReceiveClosed(r)
        PROVE  Abstract!Next
    <3>1. got[r] = NoAnswer
      BY <2>9 DEF ReceiveClosed, IInv, Channels, ChannelOf
    <3>2. QED
      BY <2>9, <3>1, EndMaps DEF ReceiveClosed, Stages
  <2>10. ASSUME NEW r \in Requests, Remove(r)
         PROVE  Abstract!Next
    <3>1. /\ outcome[r] \in {"refused", "timeout"}
          /\ outcome[r] = "refused" => got[r] = NoAnswer
      BY <2>10 DEF Remove, IInv, Outcomes, OutcomeOf, Channels, ChannelOf
    <3>2. QED
      BY <2>10, <3>1, EndMaps DEF Remove, Stages
  <2>11. ASSUME NEW r \in Requests, ClientLeaves(r)
         PROVE  Abstract!Next
    BY <2>11, EndMaps DEF ClientLeaves, Stages
  <2>12. CASE Start \/ StopClear \/ StopShutdown
    <3>1. Unseen
      BY <2>12 DEF Start, StopClear, StopShutdown
    <3>2. QED
      BY <2>2, <3>1
  <2>13. CASE UNCHANGED vars
    <3>1. Unseen
      BY <2>13 DEF vars
    <3>2. QED
      BY <2>2, <3>1
  <2> HIDE DEF Unseen
  <2>14. QED
    BY <2>2, <2>3, <2>4, <2>5, <2>6, <2>7, <2>8, <2>9, <2>10, <2>11, <2>12, <2>13
    DEF Next, HandlerStep
<1>3. QED
  BY <1>1, <1>2, Invariance, PTL DEF Spec, ImplementsRequestReply, Abstract!Spec
=============================================================================
