--------------------------- MODULE McpBridgeProofs ---------------------------
(***************************************************************************)
(* Safety of the MCP request bridge for any number of calls, tokens,       *)
(* answers, numbers and restarts.  The properties are not inductive by     *)
(* themselves: that an answer reaches the right handler rests on what the  *)
(* response map, the channels and the numbers say of each other, which     *)
(* IInv states.                                                            *)
(***************************************************************************)
EXTENDS McpBridge, TLAPS

\* A call has a number from TakeId on; numbers in use are below the counter and
\* belong to one call each, over all server instances.
Numbered ==
    \A r \in Requests :
        /\ rid[r] = 0 <=> pc[r] \in {"idle", "accepted"}
        /\ rid[r] < nextId
        /\ \A q \in Requests : rid[r] # 0 /\ rid[q] = rid[r] => q = r

\* An entry of the map stands under its handler's number, and the handler has
\* stored it and not removed it yet.
MappedAt(i) ==
    waiters[i] # NoRequest =>
        /\ rid[waiters[i]] = i
        /\ pc[waiters[i]] \in {"inserted", "registered", "waiting", "removing"}
        /\ chan[waiters[i]] \in {"open", "dropped"}
Mapped == \A i \in Ids : MappedAt(i)

\* What the channel says of the map, and of the answer.
ChannelOf(r) ==
    /\ pc[r] \in {"idle", "accepted", "numbered"} => chan[r] = "none"
    /\ pc[r] \in {"inserted", "registered", "waiting"} =>
          chan[r] \in {"open", "sent", "closed"}
    /\ pc[r] = "unregistering" => chan[r] # "open"
    /\ pc[r] = "done" => chan[r] = "dropped"
    /\ chan[r] = "open" => waiters[rid[r]] = r
Channels == \A r \in Requests : ChannelOf(r)

\* What a channel carries is the accepted answer to its handler's number.
AnswerOf(r) ==
    /\ chan[r] \in {"none", "open", "closed"} => got[r] = NoReply
    /\ chan[r] = "sent" => got[r] # NoReply
    /\ got[r] # NoReply =>
          /\ got[r] = <<rid[r], acked[rid[r]]>>
          /\ acked[rid[r]] \in Bodies
          /\ rid[r] \in emitted
Answers == \A r \in Requests : AnswerOf(r)

\* 1C knows the number of a call only after the sender is stored.
Announced ==
    /\ \A i \in emitted : i < nextId
    /\ \A r \in Requests :
          /\ pc[r] \in {"numbered", "inserted", "registered"} => rid[r] \notin emitted
          /\ outcome[r] = "refused" => rid[r] \notin emitted

\* The outcome is fixed on leaving the wait and agrees with the channel.
OutcomeOf(r) ==
    /\ outcome[r] = "none" <=> pc[r] \notin {"removing", "unregistering", "done"}
    /\ outcome[r] = "reply" => got[r] # NoReply /\ pc[r] # "removing"
    /\ outcome[r] = "refused" => got[r] = NoReply
    /\ outcome[r] = "closed" => got[r] = NoReply /\ chan[r] \in {"closed", "dropped"}
OutcomesAgree == \A r \in Requests : OutcomeOf(r)

Resets ==
    \A r \in resets : pc[r] \in {"registered", "waiting", "removing", "unregistering"}

\* The types of what a handler owns, all that the steps below need of TypeOK.
Shape ==
    /\ waiters \in [Ids -> Requests \cup {NoRequest}]
    /\ acked \in [Ids -> Bodies \cup {NoBody}]
    /\ pc \in [Requests -> Stages]
    /\ rid \in [Requests -> 0..MaxId]
    /\ chan \in [Requests -> {"none", "open", "sent", "closed", "dropped"}]
    /\ got \in [Requests -> Replies \cup {NoReply}]
    /\ outcome \in [Requests -> Outcomes]
    /\ resets \in SUBSET Requests
    /\ nextId \in 1..(MaxId + 1)

IInv == /\ TypeOK /\ Numbered /\ Mapped /\ Channels /\ Answers /\ Announced
        /\ OutcomesAgree /\ Resets

\* One step keeps every variable in its type.
LEMMA TypeStep == TypeOK /\ Numbered /\ [Next]_vars => TypeOK'
<1> SUFFICES ASSUME TypeOK /\ Numbered, [Next]_vars PROVE TypeOK'
  OBVIOUS
<1> USE ConstantsAssumption DEF ConstantsAssumption, TypeOK, Ids,
      addinVars, mapVars, eventVars, callVars, waitVars, handlerVars
<1>1. QED
  <2>1. ASSUME NEW r \in Requests, NEW t \in Tokens \cup {NoToken}, Accept(r, t)
         PROVE  TypeOK'
    BY <2>1 DEF Accept, Advance, Stages, Outcomes, Errors, Replies
  <2>2. ASSUME NEW r \in Requests, TakeId(r)
         PROVE  TypeOK'
    <3>1. nextId \in 1..MaxId /\ nextId' = nextId + 1
      BY <2>2 DEF TakeId
    <3>2. nextId' \in 1..(MaxId + 1) /\ nextId \in 0..MaxId
      BY <3>1
    <3>3. QED
      BY <2>2, <3>1, <3>2 DEF TakeId, Advance, Stages, Outcomes, Errors, Replies
  <2>3. ASSUME NEW r \in Requests, InsertWaiter(r)
         PROVE  TypeOK'
    BY <2>3 DEF InsertWaiter, Advance, Stages, Outcomes, Errors, Replies
  <2>4. ASSUME NEW r \in Requests, RegisterReset(r)
         PROVE  TypeOK'
    BY <2>4 DEF RegisterReset, Advance, Stages, Outcomes, Errors, Replies
  <2>5. ASSUME NEW r \in Requests, Emit(r)
         PROVE  TypeOK'
    <3>1. rid[r] # 0
      BY <2>5 DEF Emit, Advance, Numbered
    <3>2. rid[r] \in 1..MaxId
      BY <3>1
    <3>3. emitted' \in SUBSET (1..MaxId)
      BY <2>5, <3>2 DEF Emit
    <3>4. QED
      BY <2>5, <3>3 DEF Emit, Advance, Stages, Outcomes, Errors, Replies
  <2>6. ASSUME NEW r \in Requests, EmitFails(r)
         PROVE  TypeOK'
    BY <2>6 DEF EmitFails, Advance, Stages, Outcomes, Errors, Replies
  <2>7. ASSUME NEW r \in Requests, ReceiveReply(r)
         PROVE  TypeOK'
    BY <2>7 DEF ReceiveReply, Advance, Stages, Outcomes, Errors, Replies
  <2>8. ASSUME NEW r \in Requests, ReceiveClosed(r)
         PROVE  TypeOK'
    BY <2>8 DEF ReceiveClosed, FailClosed, Advance, Stages, Outcomes, Errors, Replies
  <2>9. ASSUME NEW r \in Requests, ReceiveReset(r)
         PROVE  TypeOK'
    BY <2>9 DEF ReceiveReset, Stages, Outcomes, Errors, Replies
  <2>10. ASSUME NEW r \in Requests, Timeout(r)
         PROVE  TypeOK'
    BY <2>10 DEF Timeout, FailTimeout, Advance, Stages, Outcomes, Errors, Replies
  <2>11. ASSUME NEW r \in Requests, RemoveWaiter(r)
         PROVE  TypeOK'
    BY <2>11 DEF RemoveWaiter, CloseSenders, Advance, Stages, Outcomes, Errors, Replies
  <2>12. ASSUME NEW r \in Requests, Unregister(r)
         PROVE  TypeOK'
    BY <2>12 DEF Unregister, Advance, Stages, Outcomes, Errors, Replies
  <2>13. ASSUME NEW r \in Requests, TimerElapses(r)
         PROVE  TypeOK'
    BY <2>13 DEF TimerElapses, Stages, Outcomes, Errors, Replies
  <2>14. ASSUME TakeTaskId
         PROVE  TypeOK'
    <3>1. nextId \in 1..MaxId /\ nextId' = nextId + 1
      BY <2>14 DEF TakeTaskId
    <3>2. nextId' \in 1..(MaxId + 1)
      BY <3>1
    <3>3. QED
      BY <2>14, <3>2 DEF TakeTaskId, Stages, Outcomes, Errors, Replies
  <2>15. ASSUME Start
         PROVE  TypeOK'
    <3>1. gen' \in 0..MaxGen
      BY <2>15 DEF Start
    <3>2. QED
      BY <2>15, <3>1 DEF Start, Stages, Outcomes, Errors, Replies
  <2>16. ASSUME StopClear
         PROVE  TypeOK'
    BY <2>16 DEF StopClear, CloseSenders, Stages, Outcomes, Errors, Replies
  <2>17. ASSUME StopShutdown
         PROVE  TypeOK'
    BY <2>17 DEF StopShutdown, Stages, Outcomes, Errors, Replies
  <2>18. ASSUME NEW i \in Ids, NEW b \in Bodies, SendResponse(i, b)
         PROVE  TypeOK'
    <3>1. waiters[i] \in Requests /\ <<i, b>> \in Replies
      BY <2>18 DEF SendResponse, Replies
    <3>2. CASE chan[waiters[i]] = "open"
      <4>1. chan' = [chan EXCEPT ![waiters[i]] = "sent"]
        BY <2>18, <3>2 DEF SendResponse
      <4>2. got' = [got EXCEPT ![waiters[i]] = <<i, b>>]
        BY <2>18, <3>2 DEF SendResponse
      <4>3. acked' = [acked EXCEPT ![i] = b]
        BY <2>18, <3>2 DEF SendResponse
      <4>4. waiters' \in [Ids -> Requests \cup {NoRequest}]
        BY <2>18 DEF SendResponse
      <4>5. got' \in [Requests -> Replies \cup {NoReply}]
        BY <3>1, <4>2
      <4>6. QED
        BY <2>18, <3>1, <4>1, <4>3, <4>4, <4>5 DEF SendResponse
    <3>3. CASE chan[waiters[i]] # "open"
      BY <2>18, <3>3 DEF SendResponse
    <3>4. QED
      BY <3>2, <3>3
  <2>19. ASSUME NEW t \in Tokens, NotifyProgress(t)
         PROVE  TypeOK'
    BY <2>19 DEF NotifyProgress, Stages, Outcomes, Errors, Replies
  <2>20. CASE UNCHANGED vars
    BY <2>20 DEF vars
  <2>21. QED
    BY <2>1, <2>2, <2>3, <2>4, <2>5, <2>6, <2>7, <2>8, <2>9, <2>10, <2>11, <2>12, <2>13, <2>14, <2>15, <2>16, <2>17, <2>18, <2>19, <2>20
    DEF Next, HandlerStep

\* One step keeps numbers fresh and unshared.
LEMMA NumberedStep == TypeOK /\ Numbered /\ [Next]_vars => Numbered'
<1> SUFFICES ASSUME TypeOK /\ Numbered, [Next]_vars PROVE Numbered'
  OBVIOUS
<1> USE ConstantsAssumption DEF ConstantsAssumption, TypeOK, Ids,
      addinVars, mapVars, eventVars, callVars, waitVars, handlerVars, Numbered
<1>1. QED
  <2>1. ASSUME NEW r \in Requests, NEW t \in Tokens \cup {NoToken}, Accept(r, t)
         PROVE  Numbered'
    BY <2>1 DEF Accept, Advance
  <2>2. ASSUME NEW r \in Requests, TakeId(r)
         PROVE  Numbered'
    BY <2>2 DEF TakeId, Advance
  <2>3. ASSUME NEW r \in Requests, InsertWaiter(r)
         PROVE  Numbered'
    BY <2>3 DEF InsertWaiter, Advance
  <2>4. ASSUME NEW r \in Requests, RegisterReset(r)
         PROVE  Numbered'
    BY <2>4 DEF RegisterReset, Advance
  <2>5. ASSUME NEW r \in Requests, Emit(r)
         PROVE  Numbered'
    BY <2>5 DEF Emit, Advance
  <2>6. ASSUME NEW r \in Requests, EmitFails(r)
         PROVE  Numbered'
    BY <2>6 DEF EmitFails, Advance
  <2>7. ASSUME NEW r \in Requests, ReceiveReply(r)
         PROVE  Numbered'
    BY <2>7 DEF ReceiveReply, Advance
  <2>8. ASSUME NEW r \in Requests, ReceiveClosed(r)
         PROVE  Numbered'
    BY <2>8 DEF ReceiveClosed, FailClosed, Advance
  <2>9. ASSUME NEW r \in Requests, ReceiveReset(r)
         PROVE  Numbered'
    BY <2>9 DEF ReceiveReset
  <2>10. ASSUME NEW r \in Requests, Timeout(r)
         PROVE  Numbered'
    BY <2>10 DEF Timeout, FailTimeout, Advance
  <2>11. ASSUME NEW r \in Requests, RemoveWaiter(r)
         PROVE  Numbered'
    BY <2>11 DEF RemoveWaiter, CloseSenders, Advance
  <2>12. ASSUME NEW r \in Requests, Unregister(r)
         PROVE  Numbered'
    BY <2>12 DEF Unregister, Advance
  <2>13. ASSUME NEW r \in Requests, TimerElapses(r)
         PROVE  Numbered'
    BY <2>13 DEF TimerElapses
  <2>14. ASSUME TakeTaskId
         PROVE  Numbered'
    BY <2>14 DEF TakeTaskId
  <2>15. ASSUME Start
         PROVE  Numbered'
    BY <2>15 DEF Start
  <2>16. ASSUME StopClear
         PROVE  Numbered'
    BY <2>16 DEF StopClear, CloseSenders
  <2>17. ASSUME StopShutdown
         PROVE  Numbered'
    BY <2>17 DEF StopShutdown
  <2>18. ASSUME NEW i \in Ids, NEW b \in Bodies, SendResponse(i, b)
         PROVE  Numbered'
    BY <2>18 DEF SendResponse
  <2>19. ASSUME NEW t \in Tokens, NotifyProgress(t)
         PROVE  Numbered'
    BY <2>19 DEF NotifyProgress
  <2>20. CASE UNCHANGED vars
    BY <2>20 DEF vars
  <2>21. QED
    BY <2>1, <2>2, <2>3, <2>4, <2>5, <2>6, <2>7, <2>8, <2>9, <2>10, <2>11, <2>12, <2>13, <2>14, <2>15, <2>16, <2>17, <2>18, <2>19, <2>20
    DEF Next, HandlerStep

\* One step keeps the map sound: no entry for a handler that is past removing it.
LEMMA MappedStep == IInv /\ [Next]_vars => Mapped'
<1> SUFFICES ASSUME IInv, [Next]_vars, NEW j \in Ids PROVE MappedAt(j)'
  BY DEF Mapped
<1>1. Shape
  BY DEF IInv, TypeOK, Shape
<1> USE ConstantsAssumption, <1>1 DEF ConstantsAssumption, Shape, Ids, addinVars,
                              mapVars, eventVars, callVars, waitVars,
                                   handlerVars, IInv, Numbered, Mapped, MappedAt, Channels, ChannelOf
<1>2. QED
  <2>1. ASSUME NEW r \in Requests, NEW t \in Tokens \cup {NoToken}, Accept(r, t)
         PROVE  MappedAt(j)'
    BY <2>1 DEF Accept, Advance
  <2>2. ASSUME NEW r \in Requests, TakeId(r)
         PROVE  MappedAt(j)'
    BY <2>2 DEF TakeId, Advance
  <2>3. ASSUME NEW r \in Requests, InsertWaiter(r)
         PROVE  MappedAt(j)'
    <3>1. rid[r] \in Ids
      <4>1. rid[r] # 0
        BY <2>3 DEF InsertWaiter, Advance
      <4>2. QED
        BY <4>1
    <3>2. CASE j = rid[r]
      BY <2>3, <3>1, <3>2 DEF InsertWaiter, Advance
    <3>3. CASE j # rid[r] /\ waiters[j] # NoRequest
      <4>1. waiters[j] \in Requests /\ waiters[j] # r /\ waiters[j] # waiters[rid[r]]
        BY <3>1, <3>3
      <4>2. /\ waiters'[j] = waiters[j] /\ rid' = rid
            /\ pc'[waiters[j]] = pc[waiters[j]]
            /\ chan'[waiters[j]] = chan[waiters[j]]
        BY <2>3, <3>3, <4>1 DEF InsertWaiter, Advance
      <4>3. QED
        BY <4>1, <4>2
    <3>4. CASE j # rid[r] /\ waiters[j] = NoRequest
      BY <2>3, <3>1, <3>4 DEF InsertWaiter, Advance
    <3>5. QED
      BY <3>2, <3>3, <3>4
  <2>4. ASSUME NEW r \in Requests, RegisterReset(r)
         PROVE  MappedAt(j)'
    BY <2>4 DEF RegisterReset, Advance
  <2>5. ASSUME NEW r \in Requests, Emit(r)
         PROVE  MappedAt(j)'
    BY <2>5 DEF Emit, Advance
  <2>6. ASSUME NEW r \in Requests, EmitFails(r)
         PROVE  MappedAt(j)'
    BY <2>6 DEF EmitFails, Advance
  <2>7. ASSUME NEW r \in Requests, ReceiveReply(r)
         PROVE  MappedAt(j)'
    BY <2>7 DEF ReceiveReply, Advance
  <2>8. ASSUME NEW r \in Requests, ReceiveClosed(r)
         PROVE  MappedAt(j)'
    BY <2>8 DEF ReceiveClosed, FailClosed, Advance
  <2>9. ASSUME NEW r \in Requests, ReceiveReset(r)
         PROVE  MappedAt(j)'
    BY <2>9 DEF ReceiveReset
  <2>10. ASSUME NEW r \in Requests, Timeout(r)
         PROVE  MappedAt(j)'
    BY <2>10 DEF Timeout, FailTimeout, Advance
  <2>11. ASSUME NEW r \in Requests, RemoveWaiter(r)
         PROVE  MappedAt(j)'
    <3>1. rid[r] \in Ids
      BY <2>11 DEF RemoveWaiter, CloseSenders, Advance
    <3>2. CASE j = rid[r]
      BY <2>11, <3>1, <3>2 DEF RemoveWaiter, CloseSenders, Advance
    <3>3. CASE j # rid[r] /\ waiters[j] # NoRequest
      <4>1. waiters[j] \in Requests /\ waiters[j] # r /\ waiters[j] # waiters[rid[r]]
        BY <3>1, <3>3
      <4>2. /\ waiters'[j] = waiters[j] /\ rid' = rid
            /\ pc'[waiters[j]] = pc[waiters[j]]
            /\ chan'[waiters[j]] = chan[waiters[j]]
        BY <2>11, <3>3, <4>1 DEF RemoveWaiter, CloseSenders, Advance
      <4>3. QED
        BY <4>1, <4>2
    <3>4. CASE j # rid[r] /\ waiters[j] = NoRequest
      BY <2>11, <3>1, <3>4 DEF RemoveWaiter, CloseSenders, Advance
    <3>5. QED
      BY <3>2, <3>3, <3>4
  <2>12. ASSUME NEW r \in Requests, Unregister(r)
         PROVE  MappedAt(j)'
    BY <2>12 DEF Unregister, Advance
  <2>13. ASSUME NEW r \in Requests, TimerElapses(r)
         PROVE  MappedAt(j)'
    BY <2>13 DEF TimerElapses
  <2>14. ASSUME TakeTaskId
         PROVE  MappedAt(j)'
    BY <2>14 DEF TakeTaskId
  <2>15. ASSUME Start
         PROVE  MappedAt(j)'
    BY <2>15 DEF Start
  <2>16. ASSUME StopClear
         PROVE  MappedAt(j)'
    BY <2>16 DEF StopClear, CloseSenders
  <2>17. ASSUME StopShutdown
         PROVE  MappedAt(j)'
    BY <2>17 DEF StopShutdown
  <2>18. ASSUME NEW i \in Ids, NEW b \in Bodies, SendResponse(i, b)
         PROVE  MappedAt(j)'
    <3>1. CASE j = i
      BY <2>18, <3>1 DEF SendResponse
    <3>2. CASE j # i /\ waiters[j] # NoRequest
      <4>1. waiters[j] \in Requests /\ waiters[j] # waiters[i]
        BY <2>18, <3>2 DEF SendResponse
      <4>2. /\ waiters'[j] = waiters[j] /\ rid' = rid /\ pc' = pc
            /\ chan'[waiters[j]] = chan[waiters[j]]
        BY <2>18, <3>2, <4>1 DEF SendResponse
      <4>3. QED
        BY <4>1, <4>2
    <3>3. CASE j # i /\ waiters[j] = NoRequest
      BY <2>18, <3>3 DEF SendResponse
    <3>4. QED
      BY <3>1, <3>2, <3>3
  <2>19. ASSUME NEW t \in Tokens, NotifyProgress(t)
         PROVE  MappedAt(j)'
    BY <2>19 DEF NotifyProgress
  <2>20. CASE UNCHANGED vars
    BY <2>20 DEF vars
  <2>21. QED
    BY <2>1, <2>2, <2>3, <2>4, <2>5, <2>6, <2>7, <2>8, <2>9, <2>10, <2>11, <2>12, <2>13, <2>14, <2>15, <2>16, <2>17, <2>18, <2>19, <2>20
    DEF Next, HandlerStep

\* One step keeps channels and map in agreement.
LEMMA ChannelsStep == IInv /\ [Next]_vars => Channels'
<1> SUFFICES ASSUME IInv, [Next]_vars, NEW q \in Requests PROVE ChannelOf(q)'
  BY DEF Channels
<1>1. Shape
  BY DEF IInv, TypeOK, Shape
<1> USE ConstantsAssumption, <1>1 DEF ConstantsAssumption, Shape, Ids, addinVars,
                              mapVars, eventVars, callVars, waitVars,
                                   handlerVars, IInv, Numbered, Mapped, MappedAt, Channels, ChannelOf
<1>2. QED
  <2>1. ASSUME NEW r \in Requests, NEW t \in Tokens \cup {NoToken}, Accept(r, t)
         PROVE  ChannelOf(q)'
    BY <2>1 DEF Accept, Advance
  <2>2. ASSUME NEW r \in Requests, TakeId(r)
         PROVE  ChannelOf(q)'
    BY <2>2 DEF TakeId, Advance
  <2>3. ASSUME NEW r \in Requests, InsertWaiter(r)
         PROVE  ChannelOf(q)'
    BY <2>3 DEF InsertWaiter, Advance
  <2>4. ASSUME NEW r \in Requests, RegisterReset(r)
         PROVE  ChannelOf(q)'
    BY <2>4 DEF RegisterReset, Advance
  <2>5. ASSUME NEW r \in Requests, Emit(r)
         PROVE  ChannelOf(q)'
    BY <2>5 DEF Emit, Advance
  <2>6. ASSUME NEW r \in Requests, EmitFails(r)
         PROVE  ChannelOf(q)'
    BY <2>6 DEF EmitFails, Advance
  <2>7. ASSUME NEW r \in Requests, ReceiveReply(r)
         PROVE  ChannelOf(q)'
    BY <2>7 DEF ReceiveReply, Advance
  <2>8. ASSUME NEW r \in Requests, ReceiveClosed(r)
         PROVE  ChannelOf(q)'
    BY <2>8 DEF ReceiveClosed, FailClosed, Advance
  <2>9. ASSUME NEW r \in Requests, ReceiveReset(r)
         PROVE  ChannelOf(q)'
    BY <2>9 DEF ReceiveReset
  <2>10. ASSUME NEW r \in Requests, Timeout(r)
         PROVE  ChannelOf(q)'
    BY <2>10 DEF Timeout, FailTimeout, Advance
  <2>11. ASSUME NEW r \in Requests, RemoveWaiter(r)
         PROVE  ChannelOf(q)'
    BY <2>11 DEF RemoveWaiter, CloseSenders, Advance
  <2>12. ASSUME NEW r \in Requests, Unregister(r)
         PROVE  ChannelOf(q)'
    BY <2>12 DEF Unregister, Advance
  <2>13. ASSUME NEW r \in Requests, TimerElapses(r)
         PROVE  ChannelOf(q)'
    BY <2>13 DEF TimerElapses
  <2>14. ASSUME TakeTaskId
         PROVE  ChannelOf(q)'
    BY <2>14 DEF TakeTaskId
  <2>15. ASSUME Start
         PROVE  ChannelOf(q)'
    BY <2>15 DEF Start
  <2>16. ASSUME StopClear
         PROVE  ChannelOf(q)'
    BY <2>16 DEF StopClear, CloseSenders
  <2>17. ASSUME StopShutdown
         PROVE  ChannelOf(q)'
    BY <2>17 DEF StopShutdown
  <2>18. ASSUME NEW i \in Ids, NEW b \in Bodies, SendResponse(i, b)
         PROVE  ChannelOf(q)'
    BY <2>18 DEF SendResponse
  <2>19. ASSUME NEW t \in Tokens, NotifyProgress(t)
         PROVE  ChannelOf(q)'
    BY <2>19 DEF NotifyProgress
  <2>20. CASE UNCHANGED vars
    BY <2>20 DEF vars
  <2>21. QED
    BY <2>1, <2>2, <2>3, <2>4, <2>5, <2>6, <2>7, <2>8, <2>9, <2>10, <2>11, <2>12, <2>13, <2>14, <2>15, <2>16, <2>17, <2>18, <2>19, <2>20
    DEF Next, HandlerStep

\* One step keeps channels and answers in agreement.
LEMMA AnswersStep == IInv /\ [Next]_vars => Answers'
<1> SUFFICES ASSUME IInv, [Next]_vars, NEW q \in Requests PROVE AnswerOf(q)'
  BY DEF Answers
<1>1. Shape
  BY DEF IInv, TypeOK, Shape
<1> USE ConstantsAssumption, <1>1 DEF ConstantsAssumption, Shape, Ids, addinVars,
                              mapVars, eventVars, callVars, waitVars,
                                   handlerVars, IInv, Numbered, Mapped, MappedAt, Channels, ChannelOf, Answers, AnswerOf
<1>2. QED
  <2>1. ASSUME NEW r \in Requests, NEW t \in Tokens \cup {NoToken}, Accept(r, t)
         PROVE  AnswerOf(q)'
    BY <2>1 DEF Accept, Advance
  <2>2. ASSUME NEW r \in Requests, TakeId(r)
         PROVE  AnswerOf(q)'
    BY <2>2 DEF TakeId, Advance
  <2>3. ASSUME NEW r \in Requests, InsertWaiter(r)
         PROVE  AnswerOf(q)'
    BY <2>3 DEF InsertWaiter, Advance
  <2>4. ASSUME NEW r \in Requests, RegisterReset(r)
         PROVE  AnswerOf(q)'
    BY <2>4 DEF RegisterReset, Advance
  <2>5. ASSUME NEW r \in Requests, Emit(r)
         PROVE  AnswerOf(q)'
    BY <2>5 DEF Emit, Advance
  <2>6. ASSUME NEW r \in Requests, EmitFails(r)
         PROVE  AnswerOf(q)'
    BY <2>6 DEF EmitFails, Advance
  <2>7. ASSUME NEW r \in Requests, ReceiveReply(r)
         PROVE  AnswerOf(q)'
    BY <2>7 DEF ReceiveReply, Advance
  <2>8. ASSUME NEW r \in Requests, ReceiveClosed(r)
         PROVE  AnswerOf(q)'
    BY <2>8 DEF ReceiveClosed, FailClosed, Advance
  <2>9. ASSUME NEW r \in Requests, ReceiveReset(r)
         PROVE  AnswerOf(q)'
    BY <2>9 DEF ReceiveReset
  <2>10. ASSUME NEW r \in Requests, Timeout(r)
         PROVE  AnswerOf(q)'
    BY <2>10 DEF Timeout, FailTimeout, Advance
  <2>11. ASSUME NEW r \in Requests, RemoveWaiter(r)
         PROVE  AnswerOf(q)'
    BY <2>11 DEF RemoveWaiter, CloseSenders, Advance
  <2>12. ASSUME NEW r \in Requests, Unregister(r)
         PROVE  AnswerOf(q)'
    BY <2>12 DEF Unregister, Advance
  <2>13. ASSUME NEW r \in Requests, TimerElapses(r)
         PROVE  AnswerOf(q)'
    BY <2>13 DEF TimerElapses
  <2>14. ASSUME TakeTaskId
         PROVE  AnswerOf(q)'
    BY <2>14 DEF TakeTaskId
  <2>15. ASSUME Start
         PROVE  AnswerOf(q)'
    BY <2>15 DEF Start
  <2>16. ASSUME StopClear
         PROVE  AnswerOf(q)'
    BY <2>16 DEF StopClear, CloseSenders
  <2>17. ASSUME StopShutdown
         PROVE  AnswerOf(q)'
    BY <2>17 DEF StopShutdown
  <2>18. ASSUME NEW i \in Ids, NEW b \in Bodies, SendResponse(i, b)
         PROVE  AnswerOf(q)'
    <3>1. /\ waiters[i] \in Requests /\ rid[waiters[i]] = i
          /\ rid' = rid /\ i \in emitted /\ emitted' = emitted
      BY <2>18 DEF SendResponse
    <3>2. CASE chan[waiters[i]] = "open"
      <4>1. /\ chan' = [chan EXCEPT ![waiters[i]] = "sent"]
            /\ got' = [got EXCEPT ![waiters[i]] = <<i, b>>]
            /\ acked' = [acked EXCEPT ![i] = b]
        BY <2>18, <3>2 DEF SendResponse
      <4>2. CASE q = waiters[i]
        <5>1. <<i, b>> # NoReply
          BY <2>18
        <5>2. chan'[q] = "sent" /\ got'[q] = <<i, b>> /\ acked'[i] = b
          BY <3>1, <4>1, <4>2
        <5>3. QED
          BY <3>1, <4>2, <5>1, <5>2
      <4>3. CASE q # waiters[i]
        <5>1. chan'[q] = chan[q] /\ got'[q] = got[q]
          BY <4>1, <4>3
        <5>2. CASE got[q] = NoReply
          BY <5>1, <5>2
        <5>3. CASE got[q] # NoReply
          <6>1. rid[q] # i /\ rid[q] \in Ids
            BY <2>18, <3>1, <4>3, <5>3
          <6>2. acked'[rid[q]] = acked[rid[q]]
            BY <4>1, <6>1
          <6>3. QED
            BY <3>1, <5>1, <5>3, <6>2
        <5>4. QED
          BY <5>2, <5>3
      <4>4. QED
        BY <4>2, <4>3
    <3>3. CASE chan[waiters[i]] # "open"
      BY <2>18, <3>3 DEF SendResponse
    <3>4. QED
      BY <3>2, <3>3
  <2>19. ASSUME NEW t \in Tokens, NotifyProgress(t)
         PROVE  AnswerOf(q)'
    BY <2>19 DEF NotifyProgress
  <2>20. CASE UNCHANGED vars
    BY <2>20 DEF vars
  <2>21. QED
    BY <2>1, <2>2, <2>3, <2>4, <2>5, <2>6, <2>7, <2>8, <2>9, <2>10, <2>11, <2>12, <2>13, <2>14, <2>15, <2>16, <2>17, <2>18, <2>19, <2>20
    DEF Next, HandlerStep

\* One step never announces a number whose sender is not stored.
LEMMA AnnouncedStep == IInv /\ [Next]_vars => Announced'
<1> SUFFICES ASSUME IInv, [Next]_vars PROVE Announced'
  OBVIOUS
<1> USE ConstantsAssumption DEF ConstantsAssumption, TypeOK, Ids,
      addinVars, mapVars, eventVars, callVars, waitVars, handlerVars, IInv, Numbered, Announced, OutcomesAgree, OutcomeOf
<1>1. QED
  <2>1. ASSUME NEW r \in Requests, NEW t \in Tokens \cup {NoToken}, Accept(r, t)
         PROVE  Announced'
    BY <2>1 DEF Accept, Advance
  <2>2. ASSUME NEW r \in Requests, TakeId(r)
         PROVE  Announced'
    BY <2>2 DEF TakeId, Advance
  <2>3. ASSUME NEW r \in Requests, InsertWaiter(r)
         PROVE  Announced'
    BY <2>3 DEF InsertWaiter, Advance
  <2>4. ASSUME NEW r \in Requests, RegisterReset(r)
         PROVE  Announced'
    BY <2>4 DEF RegisterReset, Advance
  <2>5. ASSUME NEW r \in Requests, Emit(r)
         PROVE  Announced'
    BY <2>5 DEF Emit, Advance
  <2>6. ASSUME NEW r \in Requests, EmitFails(r)
         PROVE  Announced'
    BY <2>6 DEF EmitFails, Advance
  <2>7. ASSUME NEW r \in Requests, ReceiveReply(r)
         PROVE  Announced'
    BY <2>7 DEF ReceiveReply, Advance
  <2>8. ASSUME NEW r \in Requests, ReceiveClosed(r)
         PROVE  Announced'
    BY <2>8 DEF ReceiveClosed, FailClosed, Advance
  <2>9. ASSUME NEW r \in Requests, ReceiveReset(r)
         PROVE  Announced'
    BY <2>9 DEF ReceiveReset
  <2>10. ASSUME NEW r \in Requests, Timeout(r)
         PROVE  Announced'
    BY <2>10 DEF Timeout, FailTimeout, Advance
  <2>11. ASSUME NEW r \in Requests, RemoveWaiter(r)
         PROVE  Announced'
    BY <2>11 DEF RemoveWaiter, CloseSenders, Advance
  <2>12. ASSUME NEW r \in Requests, Unregister(r)
         PROVE  Announced'
    BY <2>12 DEF Unregister, Advance
  <2>13. ASSUME NEW r \in Requests, TimerElapses(r)
         PROVE  Announced'
    BY <2>13 DEF TimerElapses
  <2>14. ASSUME TakeTaskId
         PROVE  Announced'
    BY <2>14 DEF TakeTaskId
  <2>15. ASSUME Start
         PROVE  Announced'
    BY <2>15 DEF Start
  <2>16. ASSUME StopClear
         PROVE  Announced'
    BY <2>16 DEF StopClear, CloseSenders
  <2>17. ASSUME StopShutdown
         PROVE  Announced'
    BY <2>17 DEF StopShutdown
  <2>18. ASSUME NEW i \in Ids, NEW b \in Bodies, SendResponse(i, b)
         PROVE  Announced'
    BY <2>18 DEF SendResponse
  <2>19. ASSUME NEW t \in Tokens, NotifyProgress(t)
         PROVE  Announced'
    BY <2>19 DEF NotifyProgress
  <2>20. CASE UNCHANGED vars
    BY <2>20 DEF vars
  <2>21. QED
    BY <2>1, <2>2, <2>3, <2>4, <2>5, <2>6, <2>7, <2>8, <2>9, <2>10, <2>11, <2>12, <2>13, <2>14, <2>15, <2>16, <2>17, <2>18, <2>19, <2>20
    DEF Next, HandlerStep

\* One step keeps outcomes and channels in agreement.
LEMMA OutcomesStep == IInv /\ [Next]_vars => OutcomesAgree'
<1> SUFFICES ASSUME IInv, [Next]_vars, NEW q \in Requests PROVE OutcomeOf(q)'
  BY DEF OutcomesAgree
<1>1. Shape
  BY DEF IInv, TypeOK, Shape
<1> USE ConstantsAssumption, <1>1 DEF ConstantsAssumption, Shape, Ids, addinVars,
                              mapVars, eventVars, callVars, waitVars,
                                   handlerVars, IInv, Numbered, Mapped, MappedAt, Channels, ChannelOf, Answers, AnswerOf, Announced, OutcomesAgree, OutcomeOf
<1>2. QED
  <2>1. ASSUME NEW r \in Requests, NEW t \in Tokens \cup {NoToken}, Accept(r, t)
         PROVE  OutcomeOf(q)'
    BY <2>1 DEF Accept, Advance
  <2>2. ASSUME NEW r \in Requests, TakeId(r)
         PROVE  OutcomeOf(q)'
    BY <2>2 DEF TakeId, Advance
  <2>3. ASSUME NEW r \in Requests, InsertWaiter(r)
         PROVE  OutcomeOf(q)'
    BY <2>3 DEF InsertWaiter, Advance
  <2>4. ASSUME NEW r \in Requests, RegisterReset(r)
         PROVE  OutcomeOf(q)'
    BY <2>4 DEF RegisterReset, Advance
  <2>5. ASSUME NEW r \in Requests, Emit(r)
         PROVE  OutcomeOf(q)'
    BY <2>5 DEF Emit, Advance
  <2>6. ASSUME NEW r \in Requests, EmitFails(r)
         PROVE  OutcomeOf(q)'
    BY <2>6 DEF EmitFails, Advance
  <2>7. ASSUME NEW r \in Requests, ReceiveReply(r)
         PROVE  OutcomeOf(q)'
    BY <2>7 DEF ReceiveReply, Advance
  <2>8. ASSUME NEW r \in Requests, ReceiveClosed(r)
         PROVE  OutcomeOf(q)'
    BY <2>8 DEF ReceiveClosed, FailClosed, Advance
  <2>9. ASSUME NEW r \in Requests, ReceiveReset(r)
         PROVE  OutcomeOf(q)'
    BY <2>9 DEF ReceiveReset
  <2>10. ASSUME NEW r \in Requests, Timeout(r)
         PROVE  OutcomeOf(q)'
    BY <2>10 DEF Timeout, FailTimeout, Advance
  <2>11. ASSUME NEW r \in Requests, RemoveWaiter(r)
         PROVE  OutcomeOf(q)'
    BY <2>11 DEF RemoveWaiter, CloseSenders, Advance
  <2>12. ASSUME NEW r \in Requests, Unregister(r)
         PROVE  OutcomeOf(q)'
    BY <2>12 DEF Unregister, Advance
  <2>13. ASSUME NEW r \in Requests, TimerElapses(r)
         PROVE  OutcomeOf(q)'
    BY <2>13 DEF TimerElapses
  <2>14. ASSUME TakeTaskId
         PROVE  OutcomeOf(q)'
    BY <2>14 DEF TakeTaskId
  <2>15. ASSUME Start
         PROVE  OutcomeOf(q)'
    BY <2>15 DEF Start
  <2>16. ASSUME StopClear
         PROVE  OutcomeOf(q)'
    BY <2>16 DEF StopClear, CloseSenders
  <2>17. ASSUME StopShutdown
         PROVE  OutcomeOf(q)'
    BY <2>17 DEF StopShutdown
  <2>18. ASSUME NEW i \in Ids, NEW b \in Bodies, SendResponse(i, b)
         PROVE  OutcomeOf(q)'
    BY <2>18 DEF SendResponse
  <2>19. ASSUME NEW t \in Tokens, NotifyProgress(t)
         PROVE  OutcomeOf(q)'
    BY <2>19 DEF NotifyProgress
  <2>20. CASE UNCHANGED vars
    BY <2>20 DEF vars
  <2>21. QED
    BY <2>1, <2>2, <2>3, <2>4, <2>5, <2>6, <2>7, <2>8, <2>9, <2>10, <2>11, <2>12, <2>13, <2>14, <2>15, <2>16, <2>17, <2>18, <2>19, <2>20
    DEF Next, HandlerStep

\* One step keeps registrations within running handlers.
LEMMA ResetsStep == IInv /\ [Next]_vars => Resets'
<1> SUFFICES ASSUME IInv, [Next]_vars PROVE Resets'
  OBVIOUS
<1> USE ConstantsAssumption DEF ConstantsAssumption, TypeOK, Ids,
      addinVars, mapVars, eventVars, callVars, waitVars, handlerVars, IInv, Resets
<1>1. QED
  <2>1. ASSUME NEW r \in Requests, NEW t \in Tokens \cup {NoToken}, Accept(r, t)
         PROVE  Resets'
    BY <2>1 DEF Accept, Advance
  <2>2. ASSUME NEW r \in Requests, TakeId(r)
         PROVE  Resets'
    BY <2>2 DEF TakeId, Advance
  <2>3. ASSUME NEW r \in Requests, InsertWaiter(r)
         PROVE  Resets'
    BY <2>3 DEF InsertWaiter, Advance
  <2>4. ASSUME NEW r \in Requests, RegisterReset(r)
         PROVE  Resets'
    BY <2>4 DEF RegisterReset, Advance
  <2>5. ASSUME NEW r \in Requests, Emit(r)
         PROVE  Resets'
    BY <2>5 DEF Emit, Advance
  <2>6. ASSUME NEW r \in Requests, EmitFails(r)
         PROVE  Resets'
    BY <2>6 DEF EmitFails, Advance
  <2>7. ASSUME NEW r \in Requests, ReceiveReply(r)
         PROVE  Resets'
    BY <2>7 DEF ReceiveReply, Advance
  <2>8. ASSUME NEW r \in Requests, ReceiveClosed(r)
         PROVE  Resets'
    BY <2>8 DEF ReceiveClosed, FailClosed, Advance
  <2>9. ASSUME NEW r \in Requests, ReceiveReset(r)
         PROVE  Resets'
    BY <2>9 DEF ReceiveReset
  <2>10. ASSUME NEW r \in Requests, Timeout(r)
         PROVE  Resets'
    BY <2>10 DEF Timeout, FailTimeout, Advance
  <2>11. ASSUME NEW r \in Requests, RemoveWaiter(r)
         PROVE  Resets'
    BY <2>11 DEF RemoveWaiter, CloseSenders, Advance
  <2>12. ASSUME NEW r \in Requests, Unregister(r)
         PROVE  Resets'
    BY <2>12 DEF Unregister, Advance
  <2>13. ASSUME NEW r \in Requests, TimerElapses(r)
         PROVE  Resets'
    BY <2>13 DEF TimerElapses
  <2>14. ASSUME TakeTaskId
         PROVE  Resets'
    BY <2>14 DEF TakeTaskId
  <2>15. ASSUME Start
         PROVE  Resets'
    BY <2>15 DEF Start
  <2>16. ASSUME StopClear
         PROVE  Resets'
    BY <2>16 DEF StopClear, CloseSenders
  <2>17. ASSUME StopShutdown
         PROVE  Resets'
    BY <2>17 DEF StopShutdown
  <2>18. ASSUME NEW i \in Ids, NEW b \in Bodies, SendResponse(i, b)
         PROVE  Resets'
    BY <2>18 DEF SendResponse
  <2>19. ASSUME NEW t \in Tokens, NotifyProgress(t)
         PROVE  Resets'
    BY <2>19 DEF NotifyProgress
  <2>20. CASE UNCHANGED vars
    BY <2>20 DEF vars
  <2>21. QED
    BY <2>1, <2>2, <2>3, <2>4, <2>5, <2>6, <2>7, <2>8, <2>9, <2>10, <2>11, <2>12, <2>13, <2>14, <2>15, <2>16, <2>17, <2>18, <2>19, <2>20
    DEF Next, HandlerStep

\* The invariant from which the safety properties below follow.
THEOREM Invariance == Spec => []IInv
<1>1. Init => IInv
  BY ConstantsAssumption DEF ConstantsAssumption, Init, IInv, TypeOK, Ids, Stages,
     Outcomes, FirstId, Numbered, Mapped, MappedAt, Channels, ChannelOf, Answers,
     AnswerOf, Announced, OutcomesAgree, OutcomeOf, Resets
<1>2. IInv /\ [Next]_vars => IInv'
  BY TypeStep, NumberedStep, MappedStep, ChannelsStep, AnswersStep, AnnouncedStep,
     OutcomesStep, ResetsStep DEF IInv
<1>3. QED
  BY <1>1, <1>2, PTL DEF Spec

\* Every variable keeps its type: in particular the channel, map and outcome
\* values stay what the code's types allow, and the counter stays in bounds.
THEOREM TypeCorrect == Spec => []TypeOK
<1>1. IInv => TypeOK
  BY DEF IInv
<1>2. QED
  BY <1>1, Invariance, PTL

\* A call that returns an answer returns the one 1C successfully gave for its
\* own number, for any number of calls, answers and restarts.
THEOREM CorrelatedAlways == Spec => []Correlated
<1>1. IInv => Correlated
  BY DEF IInv, Correlated, OutcomesAgree, OutcomeOf, Answers, AnswerOf
<1>2. QED
  BY <1>1, Invariance, PTL

\* A handler that has returned left no entry in either map.
THEOREM NoLeakAlways == Spec => []NoLeak
<1>1. IInv => NoLeak
  BY ConstantsAssumption
  DEF ConstantsAssumption, IInv, NoLeak, Mapped, MappedAt, Resets
<1>2. QED
  BY <1>1, Invariance, PTL

\* Whenever 1C can see a call's event and the call still waits for an answer,
\* 1C's answer finds the sender.
THEOREM ReachableAlways == Spec => []Reachable
<1>1. IInv => Reachable
  <2> SUFFICES ASSUME IInv, NEW r \in Requests, rid[r] \in emitted,
                      pc[r] \notin {"removing", "unregistering", "done"},
                      chan[r] \notin {"sent", "closed"}
               PROVE  waiters[rid[r]] = r
    BY DEF Reachable
  <2>1. pc[r] \in {"inserted", "registered", "waiting"}
    BY DEF IInv, TypeOK, Stages, Numbered, Announced, Ids
  <2>2. QED
    BY <2>1 DEF IInv, Channels, ChannelOf
<1>2. QED
  BY <1>1, Invariance, PTL

-----------------------------------------------------------------------------
(* The bridge implements RequestReply: most steps are invisible to it.      *)

LEMMA Quiet ==
  ASSUME got' = got,
         \A q \in Requests : Phase(q)' = Phase(q) /\ Result(q)' = Result(q)
  PROVE  UNCHANGED Abstract!absVars
BY DEF Abstract!absVars

\* Accepting a call opens it.
LEMMA OpenMaps ==
  ASSUME IInv, NEW r \in Requests, NEW t \in Tokens \cup {NoToken}, Accept(r, t)
  PROVE  Abstract!Next
<1>1. Phase(r) = "new" /\ got' = got
  BY DEF Accept, Advance, Phase, waitVars
<1>2. \A q \in Requests : Phase(q)' = IF q = r THEN "open" ELSE Phase(q)
  BY DEF Accept, Advance, Phase, IInv, TypeOK
<1>3. \A q \in Requests : Result(q)' = Result(q)
  BY DEF Accept, Advance, Result, IInv, TypeOK
<1>4. Abstract!Open(r)
  BY <1>1, <1>2, <1>3 DEF Abstract!Open
<1>5. QED
  BY <1>4 DEF Abstract!Next

\* An accepted answer is given to the call that owns the number; an answer to a
\* receiver that is gone is invisible.
LEMMA GiveMaps ==
  ASSUME IInv, NEW i \in Ids, NEW b \in Bodies, SendResponse(i, b)
  PROVE  [Abstract!Next]_(Abstract!absVars)
<1> DEFINE r == waiters[i]
<1>1. r \in Requests /\ pc[r] \in {"inserted", "registered", "waiting", "removing"}
  BY DEF SendResponse, IInv, TypeOK, Mapped, MappedAt
<1>2. \A q \in Requests : Phase(q)' = Phase(q) /\ Result(q)' = Result(q)
  BY DEF SendResponse, Phase, Result
<1>3. CASE chan[r] = "open"
  <2>1. got' = [got EXCEPT ![r] = <<i, b>>] /\ got[r] = NoReply
    BY <1>1, <1>3 DEF SendResponse, IInv, Answers, AnswerOf
  <2>2. Phase(r) = "open" /\ <<i, b>> \in Replies
    BY <1>1 DEF Phase, Replies
  <2>3. Abstract!Give(r, <<i, b>>)
    BY <1>1, <1>2, <2>1, <2>2 DEF Abstract!Give
  <2>4. QED
    BY <1>1, <2>2, <2>3 DEF Abstract!Next
<1>4. CASE chan[r] # "open"
  <2>1. got' = got
    BY <1>4 DEF SendResponse
  <2>2. QED
    BY <1>2, <2>1, Quiet
<1>5. QED
  BY <1>3, <1>4

\* A handler that returns ends its call, with an error only as RequestReply
\* allows it.
LEMMA EndMaps ==
  ASSUME IInv, NEW r \in Requests, Unregister(r)
  PROVE  Abstract!Next
<1>1. Phase(r) = "open" /\ got' = got
  BY DEF Unregister, Advance, Phase
<1>2. \A q \in Requests : Phase(q)' = IF q = r THEN "ended" ELSE Phase(q)
  BY DEF Unregister, Advance, Phase, IInv, TypeOK
<1>3. \A q \in Requests : Result(q)' = IF q = r THEN outcome[r] ELSE Result(q)
  BY DEF Unregister, Advance, Result, IInv, TypeOK
<1>4. Abstract!End(r, outcome[r])
  BY <1>1, <1>2, <1>3 DEF Abstract!End
<1>5. outcome[r] \in {"reply", "refused", "closed", "timeout"}
  BY DEF Unregister, Advance, IInv, TypeOK, Outcomes, Errors, OutcomesAgree, OutcomeOf
<1>6. outcome[r] = "reply" => Abstract!EndWithAnswer(r)
  BY <1>4 DEF Abstract!EndWithAnswer, IInv, OutcomesAgree, OutcomeOf
<1>7. outcome[r] \in {"refused", "closed"} => Abstract!EndWithError(r)
  BY <1>4 DEF Abstract!EndWithError, IInv, OutcomesAgree, OutcomeOf
<1>8. outcome[r] = "timeout" => Abstract!EndWithTimeout(r)
  BY <1>4 DEF Abstract!EndWithTimeout
<1>9. QED
  BY <1>5, <1>6, <1>7, <1>8 DEF Abstract!Next

\* One accepted answer per call, the first; it or an error ends the call, and an
\* error other than the timeout says that no answer was accepted.
THEOREM Refinement == Spec => ImplementsRequestReply
<1>1. Init => Abstract!Init
  BY DEF Init, Abstract!Init, Phase, Result
<1>2. IInv /\ [Next]_vars => [Abstract!Next]_(Abstract!absVars)
  <2> SUFFICES ASSUME IInv, [Next]_vars PROVE [Abstract!Next]_(Abstract!absVars)
    OBVIOUS
  <2> USE DEF IInv, TypeOK, Phase, Result, addinVars, mapVars, eventVars, callVars, waitVars, handlerVars
  <2>1. ASSUME NEW r \in Requests, NEW t \in Tokens \cup {NoToken}, Accept(r, t)
         PROVE  [Abstract!Next]_(Abstract!absVars)
    BY <2>1, OpenMaps
  <2>2. ASSUME NEW r \in Requests, TakeId(r)
         PROVE  [Abstract!Next]_(Abstract!absVars)
    <3>1. got' = got /\ \A q \in Requests : Phase(q)' = Phase(q) /\ Result(q)' = Result(q)
      BY <2>2 DEF TakeId, Advance
    <3>2. QED
      BY <3>1, Quiet
  <2>3. ASSUME NEW r \in Requests, InsertWaiter(r)
         PROVE  [Abstract!Next]_(Abstract!absVars)
    <3>1. got' = got /\ \A q \in Requests : Phase(q)' = Phase(q) /\ Result(q)' = Result(q)
      BY <2>3 DEF InsertWaiter, Advance
    <3>2. QED
      BY <3>1, Quiet
  <2>4. ASSUME NEW r \in Requests, RegisterReset(r)
         PROVE  [Abstract!Next]_(Abstract!absVars)
    <3>1. got' = got /\ \A q \in Requests : Phase(q)' = Phase(q) /\ Result(q)' = Result(q)
      BY <2>4 DEF RegisterReset, Advance
    <3>2. QED
      BY <3>1, Quiet
  <2>5. ASSUME NEW r \in Requests, Emit(r)
         PROVE  [Abstract!Next]_(Abstract!absVars)
    <3>1. got' = got /\ \A q \in Requests : Phase(q)' = Phase(q) /\ Result(q)' = Result(q)
      BY <2>5 DEF Emit, Advance
    <3>2. QED
      BY <3>1, Quiet
  <2>6. ASSUME NEW r \in Requests, EmitFails(r)
         PROVE  [Abstract!Next]_(Abstract!absVars)
    <3>1. got' = got /\ \A q \in Requests : Phase(q)' = Phase(q) /\ Result(q)' = Result(q)
      BY <2>6 DEF EmitFails, Advance
    <3>2. QED
      BY <3>1, Quiet
  <2>7. ASSUME NEW r \in Requests, ReceiveReply(r)
         PROVE  [Abstract!Next]_(Abstract!absVars)
    <3>1. got' = got /\ \A q \in Requests : Phase(q)' = Phase(q) /\ Result(q)' = Result(q)
      BY <2>7 DEF ReceiveReply, Advance
    <3>2. QED
      BY <3>1, Quiet
  <2>8. ASSUME NEW r \in Requests, ReceiveClosed(r)
         PROVE  [Abstract!Next]_(Abstract!absVars)
    <3>1. got' = got /\ \A q \in Requests : Phase(q)' = Phase(q) /\ Result(q)' = Result(q)
      BY <2>8 DEF ReceiveClosed, FailClosed, Advance
    <3>2. QED
      BY <3>1, Quiet
  <2>9. ASSUME NEW r \in Requests, ReceiveReset(r)
         PROVE  [Abstract!Next]_(Abstract!absVars)
    <3>1. got' = got /\ \A q \in Requests : Phase(q)' = Phase(q) /\ Result(q)' = Result(q)
      BY <2>9 DEF ReceiveReset
    <3>2. QED
      BY <3>1, Quiet
  <2>10. ASSUME NEW r \in Requests, Timeout(r)
         PROVE  [Abstract!Next]_(Abstract!absVars)
    <3>1. got' = got /\ \A q \in Requests : Phase(q)' = Phase(q) /\ Result(q)' = Result(q)
      BY <2>10 DEF Timeout, FailTimeout, Advance
    <3>2. QED
      BY <3>1, Quiet
  <2>11. ASSUME NEW r \in Requests, RemoveWaiter(r)
         PROVE  [Abstract!Next]_(Abstract!absVars)
    <3>1. got' = got /\ \A q \in Requests : Phase(q)' = Phase(q) /\ Result(q)' = Result(q)
      BY <2>11 DEF RemoveWaiter, CloseSenders, Advance
    <3>2. QED
      BY <3>1, Quiet
  <2>12. ASSUME NEW r \in Requests, Unregister(r)
         PROVE  [Abstract!Next]_(Abstract!absVars)
    BY <2>12, EndMaps
  <2>13. ASSUME NEW r \in Requests, TimerElapses(r)
         PROVE  [Abstract!Next]_(Abstract!absVars)
    <3>1. got' = got /\ \A q \in Requests : Phase(q)' = Phase(q) /\ Result(q)' = Result(q)
      BY <2>13 DEF TimerElapses
    <3>2. QED
      BY <3>1, Quiet
  <2>14. ASSUME TakeTaskId
         PROVE  [Abstract!Next]_(Abstract!absVars)
    <3>1. got' = got /\ \A q \in Requests : Phase(q)' = Phase(q) /\ Result(q)' = Result(q)
      BY <2>14 DEF TakeTaskId
    <3>2. QED
      BY <3>1, Quiet
  <2>15. ASSUME Start
         PROVE  [Abstract!Next]_(Abstract!absVars)
    <3>1. got' = got /\ \A q \in Requests : Phase(q)' = Phase(q) /\ Result(q)' = Result(q)
      BY <2>15 DEF Start
    <3>2. QED
      BY <3>1, Quiet
  <2>16. ASSUME StopClear
         PROVE  [Abstract!Next]_(Abstract!absVars)
    <3>1. got' = got /\ \A q \in Requests : Phase(q)' = Phase(q) /\ Result(q)' = Result(q)
      BY <2>16 DEF StopClear, CloseSenders
    <3>2. QED
      BY <3>1, Quiet
  <2>17. ASSUME StopShutdown
         PROVE  [Abstract!Next]_(Abstract!absVars)
    <3>1. got' = got /\ \A q \in Requests : Phase(q)' = Phase(q) /\ Result(q)' = Result(q)
      BY <2>17 DEF StopShutdown
    <3>2. QED
      BY <3>1, Quiet
  <2>18. ASSUME NEW i \in Ids, NEW b \in Bodies, SendResponse(i, b)
         PROVE  [Abstract!Next]_(Abstract!absVars)
    BY <2>18, GiveMaps
  <2>19. ASSUME NEW t \in Tokens, NotifyProgress(t)
         PROVE  [Abstract!Next]_(Abstract!absVars)
    <3>1. got' = got /\ \A q \in Requests : Phase(q)' = Phase(q) /\ Result(q)' = Result(q)
      BY <2>19 DEF NotifyProgress
    <3>2. QED
      BY <3>1, Quiet
  <2>20. CASE UNCHANGED vars
    <3>1. got' = got /\ \A q \in Requests : Phase(q)' = Phase(q) /\ Result(q)' = Result(q)
      BY <2>20 DEF vars
    <3>2. QED
      BY <3>1, Quiet
  <2>21. QED
    BY <2>1, <2>2, <2>3, <2>4, <2>5, <2>6, <2>7, <2>8, <2>9, <2>10, <2>11, <2>12, <2>13, <2>14, <2>15, <2>16, <2>17, <2>18, <2>19, <2>20
    DEF Next, HandlerStep
<1>3. QED
  BY <1>1, <1>2, Invariance, PTL DEF Spec, ImplementsRequestReply, Abstract!Spec
=============================================================================
