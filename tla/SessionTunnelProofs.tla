------------------------- MODULE SessionTunnelProofs -------------------------
(***************************************************************************)
(* Proofs about SessionTunnel for any number of runs, messages, frames and *)
(* failures: the types, which runs are dropped, what a dropped run may     *)
(* still tell 1C, what 1C was told last, and when a run gives up.          *)
(*                                                                         *)
(* Each of these is inductive with a strengthening of its own.  A run's    *)
(* steps are instances of four operators (Goto, End, Accepted, Refused) or *)
(* change a few variables of the run, so most leaves only expand these.    *)
(***************************************************************************)
EXTENDS SessionTunnel, SequenceTheorems, TLAPS

Stages == Suspended \cup Running \cup {"none", "ended"}

-----------------------------------------------------------------------------
(* Types.                                                                  *)

\* TypeOK, but for the bound of attempt, which AttemptsCounted gives.
Typed ==
    /\ caller \in {"idle", "stop", "restart", "start"}
    /\ handle \in 0..MaxRuns
    /\ caller \in {"stop", "restart"} => handle # 0
    /\ runs \in 0..MaxRuns
    /\ cancelled \in SUBSET Runs
    /\ aborted \in SUBSET Runs
    /\ pc \in [Runs -> Stages]
    /\ limit \in Limits
    /\ attempt \in [Runs -> Nat]
    /\ failures \in [Runs -> 0..MaxFailures]
    /\ inbox \in [Runs -> 0..MaxIn]
    /\ broken \in [Runs -> BOOLEAN]
    /\ accepted \in [Runs -> 0..MaxOut]
    /\ flying \in [Runs -> 0..MaxOut]
    /\ quiet \in [Runs -> BOOLEAN]
    /\ refused \in [Runs -> 0..(MaxAttempts - 1)]
    /\ outq \in [Runs -> Seq(1..MaxOut)]
    /\ tried \in [Runs -> Seq(0..MaxOut)]
    /\ told \in [Runs -> States \cup {"none"}]
    /\ missed \in [Runs -> BOOLEAN]
    /\ stale \in [Runs -> Nat]
    /\ zombie \in BOOLEAN

USE DEF callerVars, linkVars, outVars, tryVars, hostVars, viewVars, Advance

LEMMA Bounds ==
    /\ MaxRuns \in Nat /\ MaxOut \in Nat /\ MaxIn \in Nat /\ MaxFailures \in Nat
    /\ Limits \subseteq Nat
BY ConstantsAssumption DEF ConstantsAssumption

LEMMA TypedInit == Init => Typed
<1>1. 0 \in 0..MaxRuns /\ 0 \in 0..MaxFailures /\ 0 \in 0..MaxIn /\ 0 \in 0..MaxOut
      /\ 0 \in 0..(MaxAttempts - 1)
  BY Bounds DEF MaxAttempts
<1>2. <<>> \in Seq(1..MaxOut) /\ <<>> \in Seq(0..MaxOut)
  OBVIOUS
<1>3. ASSUME Init
      PROVE  Typed
  <2>1. /\ caller \in {"idle", "stop", "restart", "start"} /\ caller \notin {"stop", "restart"}
        /\ handle \in 0..MaxRuns /\ runs \in 0..MaxRuns
        /\ cancelled \in SUBSET Runs /\ aborted \in SUBSET Runs
        /\ pc \in [Runs -> Stages] /\ limit \in Limits
    BY <1>1, <1>3 DEF Init, Stages
  <2>2. /\ attempt \in [Runs -> Nat] /\ failures \in [Runs -> 0..MaxFailures]
        /\ inbox \in [Runs -> 0..MaxIn] /\ broken \in [Runs -> BOOLEAN]
        /\ accepted \in [Runs -> 0..MaxOut] /\ flying \in [Runs -> 0..MaxOut]
        /\ outq \in [Runs -> Seq(1..MaxOut)] /\ tried \in [Runs -> Seq(0..MaxOut)]
    BY <1>1, <1>2, <1>3 DEF Init
  <2>3. /\ quiet \in [Runs -> BOOLEAN] /\ refused \in [Runs -> 0..(MaxAttempts - 1)]
        /\ told \in [Runs -> States \cup {"none"}] /\ missed \in [Runs -> BOOLEAN]
        /\ stale \in [Runs -> Nat] /\ zombie \in BOOLEAN
    BY <1>1, <1>3 DEF Init
  <2>4. QED
    BY <2>1, <2>2, <2>3 DEF Typed
<1>4. QED
  BY <1>3

\* A move of the task that changes nothing else keeps the types.
LEMMA GotoTyped ==
    ASSUME Typed, NEW g \in Runs, NEW from, NEW to \in Stages, Goto(g, from, to)
    PROVE  Typed'
BY DEF Typed, Goto

LEMMA EndTyped ==
    ASSUME Typed, NEW g \in Runs, End(g)
    PROVE  Typed'
<1>1. 0 \in 0..MaxRuns /\ 0 \in 0..MaxFailures /\ 0 \in 0..MaxIn /\ 0 \in 0..MaxOut
      /\ 0 \in 0..(MaxAttempts - 1) /\ 0 \in Nat
  BY Bounds DEF MaxAttempts
<1>2. <<>> \in Seq(1..MaxOut) /\ <<>> \in Seq(0..MaxOut)
  OBVIOUS
<1>3. QED
  BY <1>1, <1>2 DEF Typed, End, Stages

LEMMA RaiseTyped ==
    ASSUME Typed, NEW g \in Runs, NEW from, NEW to \in Stages,
           NEW tell \in States \cup {"none"}, Raise(g, from, to, tell)
    PROVE  Typed'
<1>1. CASE Accepted(g, from, to, tell)
  BY <1>1, SMTT(30) DEF Typed, Accepted, CallPlatform, MaxAttempts
<1>2. CASE Refused(g, from, to)
  <2>1. quiet' \in [Runs -> BOOLEAN]
    BY <1>2 DEF Typed, Refused, CallPlatform
  <2>2. CASE refused[g] + 1 < MaxAttempts
    <3>1. refused' = [refused EXCEPT ![g] = refused[g] + 1]
      BY <1>2, <2>2 DEF Refused
    <3>2. refused[g] \in 0..(MaxAttempts - 1)
      BY DEF Typed
    <3>3. refused[g] + 1 \in 0..(MaxAttempts - 1)
      BY <2>2, <3>2 DEF MaxAttempts
    <3>4. refused' \in [Runs -> 0..(MaxAttempts - 1)]
      BY <3>1, <3>3 DEF Typed
    <3>5. QED
      BY <1>2, <2>1, <2>2, <3>4 DEF Typed, Refused
  <2>3. CASE ~(refused[g] + 1 < MaxAttempts)
    <3>1. /\ refused' = [refused EXCEPT ![g] = 0]
          /\ pc' = [pc EXCEPT ![g] = to]
          /\ missed' = [missed EXCEPT ![g] = from # "dispatch" \/ @]
      BY <1>2, <2>3 DEF Refused
    <3>2. refused' \in [Runs -> 0..(MaxAttempts - 1)]
      BY <3>1 DEF Typed, MaxAttempts
    <3>3. pc' \in [Runs -> Stages] /\ missed' \in [Runs -> BOOLEAN]
      BY <3>1 DEF Typed
    <3>4. QED
      BY <1>2, <2>1, <2>3, <3>2, <3>3 DEF Typed, Refused
  <2>4. QED
    BY <2>2, <2>3
<1>3. QED
  BY <1>1, <1>2 DEF Raise

LEMMA TypedStep ==
    ASSUME Typed, [Next]_vars
    PROVE  Typed'
<1>1. CASE UNCHANGED vars
  BY <1>1 DEF Typed, vars
<1>2. CASE BeginStop
  <2>1. handle \in Runs
    BY <1>2, Bounds DEF Typed, BeginStop, Runs
  <2>2. QED
    BY <1>2, <2>1 DEF Typed, BeginStop
<1>3. CASE BeginStart
  <2>1. handle # 0 => handle \in Runs
    BY Bounds DEF Typed, Runs
  <2>2. QED
    BY <1>3, <2>1 DEF Typed, BeginStart
<1>4. CASE FinishDrop
  <2>1. handle \in Runs
    BY <1>4, Bounds DEF Typed, FinishDrop, Runs
  <2>2. aborted' \in SUBSET Runs /\ handle' \in 0..MaxRuns
    BY <1>4, <2>1, Bounds DEF Typed, FinishDrop
  <2>3. QED
    BY <1>4, <2>2 DEF Typed, FinishDrop
<1>5. CASE Spawn
  <2>1. runs + 1 \in Runs /\ runs + 1 \in 0..MaxRuns
    BY <1>5, Bounds DEF Typed, Spawn, Runs
  <2>2. pc' \in [Runs -> Stages]
    BY <1>5, <2>1 DEF Typed, Spawn, Stages, Suspended
  <2>3. QED
    BY <1>5, <2>1, <2>2 DEF Typed, Spawn
<1>6. CASE StartFails
  BY <1>6 DEF Typed, StartFails
<1>7. CASE Send
  <2>1. handle \in Runs
    BY <1>7, Bounds DEF Typed, Send, Runs
  <2>2. accepted[handle] \in 0..MaxOut /\ accepted[handle] < MaxOut
    BY <1>7, <2>1 DEF Typed, Send
  <2>3. handle \in Runs /\ accepted[handle] + 1 \in 1..MaxOut
    BY <2>1, <2>2, Bounds
  <2>4. accepted' \in [Runs -> 0..MaxOut]
    BY <1>7, <2>3, Bounds, SMTT(30) DEF Typed, Send
  <2>5. Append(outq[handle], accepted'[handle]) \in Seq(1..MaxOut)
    BY <1>7, <2>3 DEF Typed, Send
  <2>6. outq' \in [Runs -> Seq(1..MaxOut)]
    BY <1>7, <2>3, <2>5 DEF Typed, Send
  <2>7. QED
    BY <1>7, <2>4, <2>6 DEF Typed, Send
<1>8. ASSUME NEW g \in Runs, TaskStep(g)
      PROVE  Typed'
  <2>1. CASE LoopTop(g)
    <3>1. attempt' \in [Runs -> Nat] /\ pc' \in [Runs -> Stages]
      BY <2>1 DEF Typed, LoopTop, Stages, Running
    <3>2. QED
      BY <2>1, <3>1 DEF Typed, LoopTop
  <2>2. CASE LoopCancelled(g) \/ Return(g) \/ Killed(g)
    BY <2>2, EndTyped DEF LoopCancelled, Return, Killed
  <2>3. CASE Retry(g) \/ PollConnect(g)
    BY <2>3, EndTyped, GotoTyped DEF Retry, PollConnect, Unless, Stages, Running
  <2>4. CASE AfterFailure(g) \/ ConnectPends(g) \/ PollToken(g) \/ LinkEnds(g)
             \/ NothingIncoming(g) \/ NothingOutgoing(g)
    BY <2>4, GotoTyped
       DEF AfterFailure, ConnectPends, PollToken, LinkEnds, NothingIncoming, NothingOutgoing,
           Stages, Running, Suspended
  <2>5. CASE SayConnecting(g) \/ SayConnected(g) \/ SayDisconnected(g) \/ SayFailed(g)
             \/ SayGiveUp(g) \/ SayAbandoned(g)
    BY <2>5, RaiseTyped
       DEF SayConnecting, SayConnected, SayDisconnected, SayFailed, SayGiveUp, SayAbandoned,
           Stages, Running, Suspended, States
  <2>6. CASE Dispatch(g)
    <3>1. told[g] \in States \cup {"none"}
      BY DEF Typed
    <3>2. QED
      BY <2>6, <3>1, RaiseTyped DEF Dispatch, Stages, Suspended
  <2>7. CASE TakeIncoming(g)
    <3>1. inbox' \in [Runs -> 0..MaxIn] /\ pc' \in [Runs -> Stages]
      BY <2>7, Bounds, SMTT(30) DEF Typed, TakeIncoming, Stages, Running
    <3>2. QED
      BY <2>7, <3>1 DEF Typed, TakeIncoming
  <2>8. CASE TakeOutgoing(g)
    <3>1. outq[g] \in Seq(1..MaxOut) /\ outq[g] # <<>>
      BY <2>8 DEF Typed, TakeOutgoing
    <3>2. Head(outq[g]) \in 1..MaxOut /\ Tail(outq[g]) \in Seq(1..MaxOut)
      BY <3>1, HeadTailProperties
    <3>3. /\ outq' \in [Runs -> Seq(1..MaxOut)]
          /\ flying' \in [Runs -> 0..MaxOut]
          /\ pc' \in [Runs -> Stages]
      BY <2>8, <3>2, SMTT(30) DEF Typed, TakeOutgoing, Stages, Suspended
    <3>4. QED
      BY <2>8, <3>3 DEF Typed, TakeOutgoing
  <2>9. CASE Rest(g)
    BY <2>9 DEF Typed, Rest
  <2>10. QED
    BY <1>8, <2>1, <2>2, <2>3, <2>4, <2>5, <2>6, <2>7, <2>8, <2>9 DEF TaskStep
<1>9. ASSUME NEW g \in Runs, NetworkStep(g)
      PROVE  Typed'
  <2>1. CASE Connected(g)
    <3>1. /\ attempt' \in [Runs -> Nat]
          /\ failures' \in [Runs -> 0..MaxFailures]
          /\ inbox' \in [Runs -> 0..MaxIn]
          /\ pc' \in [Runs -> Stages]
      BY <2>1, Bounds DEF Typed, Connected, Stages, Running
    <3>2. QED
      BY <2>1, <3>1 DEF Typed, Connected
  <2>2. CASE ConnectFails(g)
    <3>1. failures' \in [Runs -> 0..MaxFailures] /\ pc' \in [Runs -> Stages]
      BY <2>2, Bounds, SMTT(30) DEF Typed, ConnectFails, Stages, Running
    <3>2. QED
      BY <2>2, <3>1 DEF Typed, ConnectFails
  <2>3. CASE Sent(g) \/ SendFails(g)
    <3>1. Append(tried[g], flying[g]) \in Seq(0..MaxOut)
      BY DEF Typed
    <3>2. tried' \in [Runs -> Seq(0..MaxOut)]
      BY <2>3, <3>1, ZenonT(60) DEF Typed, Sent, SendFails
    <3>3. flying' \in [Runs -> 0..MaxOut]
      <4>1. flying' = [flying EXCEPT ![g] = 0] /\ 0 \in 0..MaxOut
        BY <2>3, Bounds DEF Sent, SendFails
      <4>2. QED
        BY <4>1 DEF Typed
    <3>4. pc' \in [Runs -> Stages]
      BY <2>3, ZenonT(60) DEF Typed, Sent, SendFails, Stages, Suspended, Running
    <3>5. CASE Sent(g)
      BY <3>2, <3>3, <3>4, <3>5, SMTT(30) DEF Typed, Sent
    <3>6. CASE SendFails(g)
      BY <3>2, <3>3, <3>4, <3>6, SMTT(30) DEF Typed, SendFails
    <3>7. QED
      BY <2>3, <3>5, <3>6
  <2>4. CASE Close(g)
    BY <2>4, EndTyped DEF Close
  <2>5. CASE FrameArrives(g)
    <3>1. inbox' \in [Runs -> 0..MaxIn]
      BY <2>5, Bounds, SMTT(30) DEF Typed, FrameArrives
    <3>2. QED
      BY <2>5, <3>1 DEF Typed, FrameArrives
  <2>6. CASE LinkBreaks(g)
    BY <2>6 DEF Typed, LinkBreaks
  <2>7. QED
    BY <1>9, <2>1, <2>2, <2>3, <2>4, <2>5, <2>6 DEF NetworkStep
<1>10. QED
  BY <1>1, <1>2, <1>3, <1>4, <1>5, <1>6, <1>7, <1>8, <1>9 DEF Next

-----------------------------------------------------------------------------
(* Which runs are dropped.  Only the calls of 1C change this.              *)

Held ==
    /\ caller = "start" => handle = 0
    /\ caller \in {"stop", "restart"} => handle \in cancelled
    /\ aborted \subseteq cancelled
    /\ cancelled \subseteq 1..runs
    /\ handle <= runs
    /\ NoOrphan

LEMMA TasksLeaveCaller ==
    ASSUME NEW g \in Runs, TaskStep(g) \/ NetworkStep(g)
    PROVE  UNCHANGED callerVars /\ UNCHANGED limit
<1>1. CASE TaskStep(g)
  BY <1>1
     DEF TaskStep, LoopTop, LoopCancelled, Retry, AfterFailure, Return, Killed, SayConnecting,
         SayConnected, SayDisconnected, SayFailed, SayGiveUp, SayAbandoned, PollConnect,
         ConnectPends, PollToken, TakeIncoming, LinkEnds, NothingIncoming, Dispatch, TakeOutgoing,
         NothingOutgoing, Rest, Goto, End, Unless, Raise, Accepted, Refused
<1>2. CASE NetworkStep(g)
  BY <1>2
     DEF NetworkStep, Connected, ConnectFails, Sent, SendFails, Close, FrameArrives, LinkBreaks, End
<1>3. QED
  BY <1>1, <1>2

LEMMA HeldStep ==
    ASSUME Typed, Held, [Next]_vars
    PROVE  Held'
<1> USE Bounds DEF Held, NoOrphan
<1>1. CASE UNCHANGED vars
  BY <1>1 DEF vars
<1>2. CASE BeginStop
  BY <1>2 DEF Typed, BeginStop
<1>3. CASE BeginStart
  <2>1. CASE handle = 0
    BY <1>3, <2>1 DEF Typed, BeginStart
  <2>2. CASE handle # 0
    <3>1. handle \in 1..runs
      BY <2>2 DEF Typed
    <3>2. QED
      BY <1>3, <2>2, <3>1 DEF BeginStart
  <2>3. QED
    BY <2>1, <2>2
<1>4. CASE FinishDrop
  BY <1>4, SMTT(30) DEF Typed, FinishDrop
<1>5. CASE Spawn
  BY <1>5 DEF Typed, Spawn
<1>6. CASE StartFails \/ Send
  BY <1>6 DEF Typed, StartFails, Send
<1>7. ASSUME NEW g \in Runs, TaskStep(g) \/ NetworkStep(g)
      PROVE  Held'
  BY <1>7, TasksLeaveCaller
<1>8. QED
  BY <1>1, <1>2, <1>3, <1>4, <1>5, <1>6, <1>7 DEF Next

-----------------------------------------------------------------------------
(* One run: its counters, its last event, and what 1C was told.            *)

Trying == {"say_connecting", "connecting", "connect"}

\* attempt counts the failures in a row, and the attempt under way.
Counted(g) == attempt[g] = failures[g] + (IF pc[g] \in Trying THEN 1 ELSE 0)

\* The limit is reached only by a failure, and then the run goes no further.
WithinLimit(g) ==
    limit # 0 =>
        /\ failures[g] <= limit
        /\ pc[g] \notin {"say_failed", "failed", "say_give_up", "given_up"} =>
              failures[g] < limit
GivesUp(g) == pc[g] \in {"say_give_up", "given_up"} => limit # 0 /\ failures[g] = limit

\* After its last event a dropped run is where the token or the abort ends it.
LastEvent(g) ==
    stale[g] # 0 =>
        /\ stale[g] = 1
        /\ g \in aborted
        /\ pc[g] \in {"connecting", "pump", "closing", "backoff", "failed", "given_up",
                      "abandoned", "ended"}

\* The conjunct of ViewAgrees about one run.
View(g) ==
    ~missed[g] =>
        /\ pc[g] \in Pumping \cup {"closing"} => told[g] = "connected"
        /\ pc[g] \in {"connecting", "connect"} => told[g] = "connecting"
        /\ pc[g] \in {"backoff", "failed", "abandoned"} => told[g] = "disconnected"

\* A run that is not spawned yet has done nothing.
Unborn(g) == runs < g => pc[g] = "none"

RunOK(g) == Unborn(g) /\ Counted(g) /\ WithinLimit(g) /\ GivesUp(g) /\ LastEvent(g) /\ View(g)

IInv == Typed /\ Held /\ \A g \in Runs : RunOK(g)

LEMMA InitOK == Init => IInv
<1> SUFFICES ASSUME Init PROVE IInv
  OBVIOUS
<1>1. Typed
  BY TypedInit
<1>2. Held
  BY DEF Init, Held, NoOrphan
<1>3. ASSUME NEW g \in Runs
      PROVE  RunOK(g)
  <2>1. limit \in Nat
    BY Bounds DEF Init
  <2>2. QED
    BY <2>1 DEF Init, RunOK, Unborn, Counted, WithinLimit, GivesUp, LastEvent, View, Trying, Pumping
<1>4. QED
  BY <1>1, <1>2, <1>3 DEF IInv

\* A step of one run touches no other.
LEMMA OthersUntouched ==
    ASSUME Typed, NEW h \in Runs, TaskStep(h) \/ NetworkStep(h), NEW g \in Runs, g # h
    PROVE  /\ pc'[g] = pc[g] /\ attempt'[g] = attempt[g] /\ failures'[g] = failures[g]
           /\ told'[g] = told[g] /\ missed'[g] = missed[g] /\ stale'[g] = stale[g]
<1> USE DEF Typed
<1>1. CASE TaskStep(h)
  <2>1. CASE SayConnecting(h) \/ SayConnected(h) \/ SayDisconnected(h)
    BY <2>1, ZenonT(60) DEF SayConnecting, SayConnected, SayDisconnected, Raise, Accepted, Refused
  <2>2. CASE SayFailed(h) \/ SayGiveUp(h) \/ SayAbandoned(h) \/ Dispatch(h)
    BY <2>2, ZenonT(60) DEF SayFailed, SayGiveUp, SayAbandoned, Dispatch, Raise, Accepted, Refused
  <2>3. CASE LoopTop(h)
    BY <2>3 DEF LoopTop
  <2>4. CASE End(h)
    BY <2>4 DEF End
  <2>5. CASE LoopCancelled(h) \/ Return(h) \/ Killed(h)
    BY <2>4, <2>5 DEF LoopCancelled, Return, Killed
  <2>6. CASE Goto(h, "backoff", "top") \/ Goto(h, "connecting", "connect")
    BY <2>6 DEF Goto
  <2>7. CASE Retry(h) \/ PollConnect(h)
    BY <2>4, <2>6, <2>7 DEF Retry, PollConnect, Unless
  <2>8. CASE AfterFailure(h) \/ ConnectPends(h) \/ PollToken(h) \/ LinkEnds(h)
    BY <2>8 DEF AfterFailure, ConnectPends, PollToken, LinkEnds, Goto
  <2>9. CASE TakeIncoming(h) \/ NothingIncoming(h) \/ TakeOutgoing(h) \/ NothingOutgoing(h)
              \/ Rest(h)
    BY <2>9 DEF TakeIncoming, NothingIncoming, TakeOutgoing, NothingOutgoing, Rest, Goto
  <2>10. QED
    BY <1>1, <2>1, <2>2, <2>3, <2>5, <2>7, <2>8, <2>9 DEF TaskStep
<1>2. CASE NetworkStep(h)
  BY <1>2, ZenonT(60)
     DEF NetworkStep, Connected, ConnectFails, Sent, SendFails, Close, FrameArrives, LinkBreaks, End
<1>3. QED
  BY <1>1, <1>2

\* What raising an event does to its run: it is refused and tried again, refused
\* for the last time, or accepted.
Effect(g, from, to, tell) ==
    /\ pc[g] = from
    /\ attempt' = attempt /\ failures' = failures /\ runs' = runs
    /\ \/ /\ pc'[g] = from
          /\ told'[g] = told[g] /\ missed'[g] = missed[g] /\ stale'[g] = stale[g]
       \/ /\ pc'[g] = to
          /\ told'[g] = told[g] /\ stale'[g] = stale[g]
          /\ missed'[g] \/ (from = "dispatch" /\ ~missed[g])
       \/ /\ pc'[g] = to
          /\ told'[g] = tell
          /\ stale'[g] = IF g \in aborted THEN stale[g] + 1 ELSE stale[g]
          /\ from = "dispatch" => (missed'[g] <=> missed[g])
          /\ from # "dispatch" => ~missed'[g]

LEMMA Raised ==
    ASSUME Typed, NEW g \in Runs, NEW from, NEW to, NEW tell, Raise(g, from, to, tell)
    PROVE  Effect(g, from, to, tell)
<1>1. CASE Accepted(g, from, to, tell)
  BY <1>1 DEF Typed, Accepted, Effect
<1>2. CASE Refused(g, from, to)
  BY <1>2 DEF Typed, Refused, Effect
<1>3. QED
  BY <1>1, <1>2 DEF Raise

LEMMA OwnStep ==
    ASSUME IInv, NEW g \in Runs, TaskStep(g) \/ NetworkStep(g)
    PROVE  RunOK(g)'
<1>1. /\ pc[g] \in Stages /\ attempt[g] \in Nat /\ failures[g] \in Nat /\ stale[g] \in Nat
      /\ limit \in Nat /\ missed[g] \in BOOLEAN /\ aborted \subseteq cancelled /\ runs \in Nat /\ g \in Nat
  BY Bounds, SMTT(30) DEF IInv, Typed, Held, Runs
<1>2. Typed
  BY DEF IInv
<1>3. limit' = limit /\ aborted' = aborted /\ cancelled' = cancelled /\ runs' = runs
  BY TasksLeaveCaller
<1>4. Unborn(g) /\ Counted(g) /\ WithinLimit(g) /\ GivesUp(g) /\ LastEvent(g) /\ View(g)
  BY DEF IInv, RunOK
<1> USE <1>1, <1>3, <1>4
    DEF RunOK, Unborn, Counted, WithinLimit, GivesUp, LastEvent, View, Trying, Pumping, Suspended, Running
<1>5. ASSUME End(g), pc[g] # "none"
      PROVE  RunOK(g)'
  BY <1>5, SMTT(30) DEF IInv, Typed, End
<1>6. ASSUME TaskStep(g)
      PROVE  RunOK(g)'
  <2>1. CASE LoopTop(g)
    BY <2>1, SMTT(30) DEF IInv, Typed, LoopTop
  <2>2. CASE LoopCancelled(g) \/ Return(g) \/ Killed(g)
    BY <2>2, <1>5 DEF LoopCancelled, Return, Killed
  <2>3. CASE Retry(g) \/ PollConnect(g)
    BY <2>3, <1>5, SMTT(30) DEF IInv, Typed, Retry, PollConnect, Unless, Goto
  <2>4. CASE AfterFailure(g)
    BY <2>4 DEF IInv, Typed, AfterFailure, Goto
  <2>5. CASE ConnectPends(g) \/ PollToken(g)
    BY <2>5, SMTT(30) DEF IInv, Typed, ConnectPends, PollToken, Goto
  <2>6. CASE LinkEnds(g) \/ NothingIncoming(g) \/ NothingOutgoing(g)
    BY <2>6, SMTT(30) DEF IInv, Typed, LinkEnds, NothingIncoming, NothingOutgoing, Goto
  <2>7. CASE SayConnecting(g) \/ SayConnected(g) \/ SayDisconnected(g)
    <3>1. CASE SayConnecting(g)
      <4>1. Effect(g, "say_connecting", "connecting", "connecting")
        BY <3>1, <1>2, Raised DEF SayConnecting
      <4>2. stale[g] = 0
        BY <4>1 DEF Effect
      <4>3. LastEvent(g)'
        BY <4>1, <4>2 DEF Effect
      <4>4. QED
        BY <4>1, <4>3 DEF Effect
    <3>2. CASE SayConnected(g)
      <4>1. Effect(g, "say_connected", "pump", "connected")
        BY <3>2, <1>2, Raised DEF SayConnected
      <4>2. stale[g] = 0
        BY <4>1 DEF Effect
      <4>3. LastEvent(g)'
        BY <4>1, <4>2 DEF Effect
      <4>4. QED
        BY <4>1, <4>3 DEF Effect
    <3>3. CASE SayDisconnected(g)
      <4>1. Effect(g, "say_disconnected", "backoff", "disconnected")
        BY <3>3, <1>2, Raised DEF SayDisconnected
      <4>2. stale[g] = 0
        BY <4>1 DEF Effect
      <4>3. LastEvent(g)'
        BY <4>1, <4>2 DEF Effect
      <4>4. QED
        BY <4>1, <4>3 DEF Effect
    <3>4. QED
      BY <2>7, <3>1, <3>2, <3>3
  <2>8. CASE SayFailed(g) \/ SayGiveUp(g) \/ SayAbandoned(g)
    <3>1. CASE SayFailed(g)
      <4>1. Effect(g, "say_failed", "failed", "disconnected")
        BY <3>1, <1>2, Raised DEF SayFailed
      <4>2. stale[g] = 0
        BY <4>1 DEF Effect
      <4>3. LastEvent(g)'
        BY <4>1, <4>2 DEF Effect
      <4>4. QED
        BY <4>1, <4>3 DEF Effect
    <3>2. CASE SayGiveUp(g)
      <4>1. Effect(g, "say_give_up", "given_up", "give_up")
        BY <3>2, <1>2, Raised DEF SayGiveUp
      <4>2. stale[g] = 0
        BY <4>1 DEF Effect
      <4>3. LastEvent(g)'
        BY <4>1, <4>2 DEF Effect
      <4>4. QED
        BY <4>1, <4>3 DEF Effect
    <3>3. CASE SayAbandoned(g)
      <4>1. Effect(g, "say_abandoned", "abandoned", "disconnected")
        BY <3>3, <1>2, Raised DEF SayAbandoned
      <4>2. stale[g] = 0
        BY <4>1 DEF Effect
      <4>3. LastEvent(g)'
        BY <4>1, <4>2 DEF Effect
      <4>4. QED
        BY <4>1, <4>3 DEF Effect
    <3>4. QED
      BY <2>8, <3>1, <3>2, <3>3
  <2>9. CASE Dispatch(g)
    <3>1. Effect(g, "dispatch", "pump", told[g])
      BY <2>9, <1>2, Raised DEF Dispatch
    <3>2. QED
      BY <3>1 DEF Effect
  <2>10. CASE TakeIncoming(g) \/ TakeOutgoing(g) \/ Rest(g)
    BY <2>10, ZenonT(60) DEF IInv, Typed, TakeIncoming, TakeOutgoing, Rest
  <2>11. QED
    BY <1>6, <2>1, <2>2, <2>3, <2>4, <2>5, <2>6, <2>7, <2>8, <2>9, <2>10 DEF TaskStep
<1>7. ASSUME NetworkStep(g)
      PROVE  RunOK(g)'
  <2>1. CASE Connected(g)
    BY <2>1 DEF IInv, Typed, Connected
  <2>2. CASE ConnectFails(g)
    BY <2>2 DEF IInv, Typed, ConnectFails
  <2>3. CASE Sent(g) \/ SendFails(g)
    BY <2>3 DEF IInv, Typed, Sent, SendFails
  <2>4. CASE Close(g)
    BY <2>4, <1>5 DEF Close
  <2>5. CASE FrameArrives(g) \/ LinkBreaks(g)
    BY <2>5 DEF FrameArrives, LinkBreaks
  <2>6. QED
    BY <1>7, <2>1, <2>2, <2>3, <2>4, <2>5 DEF NetworkStep
<1>8. QED
  BY <1>6, <1>7

\* A call of 1C aborts runs, and spawns one that has not told anything.
LEMMA CallerStep ==
    ASSUME IInv, NEW g \in Runs,
           BeginStop \/ BeginStart \/ FinishDrop \/ Spawn \/ StartFails \/ Send
    PROVE  RunOK(g)'
<1>1. RunOK(g) /\ Typed /\ Held
  BY DEF IInv
<1> USE DEF RunOK, Unborn, Counted, WithinLimit, GivesUp, LastEvent, View, Trying, Pumping
<1>2. CASE BeginStop \/ BeginStart \/ FinishDrop \/ StartFails \/ Send
  BY <1>1, <1>2 DEF BeginStop, BeginStart, FinishDrop, StartFails, Send
<1>3. CASE Spawn
  <2>1. CASE g = runs + 1
    <3>1. g \notin aborted
      BY <1>1, <2>1 DEF Held, Typed
    <3>2. QED
      <4>1. /\ pc'[g] = "spawned" /\ stale[g] = 0
            /\ limit' = limit /\ failures' = failures /\ attempt' = attempt /\ stale' = stale
        BY <1>1, <1>3, <2>1, <3>1 DEF Spawn, Typed
      <4>2. pc[g] = "none"
        BY <1>1, <2>1, Bounds DEF Typed
      <4>3. QED
        BY <1>1, <1>3, <2>1, <4>1, <4>2, Bounds DEF Typed, Spawn
  <2>2. CASE g # runs + 1
    BY <1>1, <1>3, <2>2, Bounds DEF Spawn, Typed, Runs
  <2>3. QED
    BY <2>1, <2>2
<1>4. QED
  BY <1>2, <1>3

LEMMA StepOK ==
    ASSUME IInv, [Next]_vars
    PROVE  IInv'
<1>1. Typed' /\ Held'
  BY TypedStep, HeldStep DEF IInv
<1>2. ASSUME NEW g \in Runs
      PROVE  RunOK(g)'
  <2>1. RunOK(g) /\ Typed
    BY DEF IInv
  <2>2. CASE UNCHANGED vars
    BY <2>1, <2>2
       DEF vars, RunOK, Unborn, Counted, WithinLimit, GivesUp, LastEvent, View
  <2>3. CASE BeginStop \/ BeginStart \/ FinishDrop \/ Spawn \/ StartFails \/ Send
    BY <2>3, CallerStep
  <2>4. ASSUME NEW h \in Runs, TaskStep(h) \/ NetworkStep(h)
        PROVE  RunOK(g)'
    <3>1. CASE h = g
      BY <2>4, <3>1, OwnStep
    <3>2. CASE h # g
      <4>1. /\ pc'[g] = pc[g] /\ attempt'[g] = attempt[g] /\ failures'[g] = failures[g]
            /\ told'[g] = told[g] /\ missed'[g] = missed[g] /\ stale'[g] = stale[g]
        BY <2>1, <2>4, <3>2, OthersUntouched
      <4>2. limit' = limit /\ aborted' = aborted /\ runs' = runs
        BY <2>4, TasksLeaveCaller
      <4>3. QED
        BY <2>1, <4>1, <4>2 DEF RunOK, Unborn, Counted, WithinLimit, GivesUp, LastEvent, View
    <3>3. QED
      BY <3>1, <3>2
  <2>5. QED
    BY <2>2, <2>3, <2>4 DEF Next
<1>3. QED
  BY <1>1, <1>2 DEF IInv

LEMMA IInvHolds == Spec => []IInv
BY InitOK, StepOK, PTL DEF Spec

-----------------------------------------------------------------------------
(* Theorems.                                                               *)

\* The state of the component is well typed, and its counters are bounded: a run
\* that connects starts to count its attempts afresh.
THEOREM TypeCorrect == Spec => []TypeOK
<1>1. IInv => TypeOK
  <2> SUFFICES ASSUME IInv PROVE TypeOK
    OBVIOUS
  <2>1. Typed /\ \A g \in Runs : Counted(g)
    BY DEF IInv, RunOK
  <2>2. ASSUME NEW g \in Runs
        PROVE  attempt[g] \in 0..(MaxFailures + 1)
    <3>1. attempt[g] = failures[g] + (IF pc[g] \in Trying THEN 1 ELSE 0)
      BY <2>1 DEF Counted
    <3>2. failures[g] \in 0..MaxFailures /\ MaxFailures \in Nat
      BY <2>1, Bounds DEF Typed
    <3>3. QED
      BY <3>1, <3>2
  <2>3. attempt \in [Runs -> 0..(MaxFailures + 1)]
    BY <2>1, <2>2 DEF Typed
  <2>4. Typed
    BY DEF IInv
  <2>5. QED
    BY <2>3, <2>4, SMTT(30) DEF TypeOK, Typed, Stages
<1>2. QED
  BY <1>1, IInvHolds, PTL

\* Every run but the one the component holds has been aborted, whatever stops and
\* starts came, for any number of runs.
THEOREM NoRunIsOrphaned == Spec => []NoOrphan
<1>1. IInv => NoOrphan
  BY DEF IInv, Held
<1>2. QED
  BY <1>1, IInvHolds, PTL

\* A run raises at most one event after it was dropped.
THEOREM OneStaleEvent == Spec => []AtMostOneStale
<1>1. IInv => AtMostOneStale
  <2> SUFFICES ASSUME IInv, NEW g \in Runs PROVE stale[g] <= 1
    BY DEF AtMostOneStale
  <2>1. stale[g] # 0 => stale[g] = 1
    BY DEF IInv, RunOK, LastEvent
  <2>2. QED
    BY <2>1
<1>2. QED
  BY <1>1, IInvHolds, PTL

\* What 1C was last told of a connection is true.
THEOREM ViewIsTrue == Spec => []ViewAgrees
<1>1. IInv => ViewAgrees
  BY DEF IInv, RunOK, View, ViewAgrees
<1>2. QED
  BY <1>1, IInvHolds, PTL

\* A run gives up after exactly as many failures in a row as its policy allows.
THEOREM GivesUpAtLimit == Spec => []GiveUpOnlyAtLimit
<1>1. IInv => GiveUpOnlyAtLimit
  BY DEF IInv, RunOK, GivesUp, GiveUpOnlyAtLimit
<1>2. QED
  BY <1>1, IInvHolds, PTL

-----------------------------------------------------------------------------
(* The messages of a run.                                                  *)

\* The message in sink.send, as a number of messages.
Aloft(g) == IF pc[g] = "sending" THEN 1 ELSE 0

\* Wherever it is on its way, the n-th message that 1C sent is the n-th to leave,
\* and none is missing between the last that left and the last accepted: of k
\* messages those of t have left, a is in the air, and those of q wait.
Placed(k, a, t, q) ==
    /\ Len(t) + a + Len(q) = k
    /\ \A n \in 1..Len(t) : t[n] = n
    /\ \A n \in 1..Len(q) : q[n] = Len(t) + a + n

InTransit(g) ==
    /\ Placed(accepted[g], Aloft(g), tried[g], outq[g])
    /\ flying[g] = IF pc[g] = "sending" THEN Len(tried[g]) + 1 ELSE 0

LEMMA WiderSeq ==
    ASSUME NEW S, NEW T, S \subseteq T, NEW s \in Seq(S)
    PROVE  s \in Seq(T)
<1>1. Len(s) \in Nat /\ s \in [1..Len(s) -> S]
  BY LenProperties
<1>2. s \in [1..Len(s) -> T]
  BY <1>1
<1>3. Seq(T) = UNION {[1..n -> T] : n \in Nat}
  OBVIOUS
<1>4. QED
  BY <1>1, <1>2, <1>3, Zenon

LEMMA PlacedTake ==
    ASSUME NEW k \in Nat, NEW t \in Seq(Nat), NEW q \in Seq(Nat), q # <<>>, Placed(k, 0, t, q)
    PROVE  Placed(k, 1, t, Tail(q)) /\ Head(q) = Len(t) + 1
<1>1. PICK i \in Nat : i = Len(t)
  BY LenProperties
<1>2. PICK j \in Nat : j = Len(q)
  BY LenProperties
<1>3. /\ i + 0 + j = k
      /\ \A n \in 1..i : t[n] = n
      /\ \A n \in 1..j : q[n] = i + 0 + n
  BY <1>1, <1>2, Zenon DEF Placed
<1>4. j > 0
  BY <1>2
<1>5. Head(q) = q[1]
  OBVIOUS
<1>6. Head(q) = i + 1
  BY <1>3, <1>4, <1>5
<1>7. Len(Tail(q)) = j - 1 /\ \A n \in 1..(j - 1) : Tail(q)[n] = q[n + 1]
  BY <1>2, HeadTailProperties, Zenon
<1>8. \A n \in 1..(j - 1) : n + 1 \in 1..j /\ i + 0 + (n + 1) = i + 1 + n
  BY <1>4
<1>9. \A n \in 1..(j - 1) : Tail(q)[n] = i + 1 + n
  BY <1>3, <1>7, <1>8, Zenon
<1>10. i + 1 + (j - 1) = k
  BY <1>3
<1>11. QED
  BY <1>1, <1>3, <1>6, <1>7, <1>9, <1>10, Zenon DEF Placed

LEMMA PlacedLeft ==
    ASSUME NEW k \in Nat, NEW t \in Seq(Nat), NEW q \in Seq(Nat), Placed(k, 1, t, q)
    PROVE  Placed(k, 0, Append(t, Len(t) + 1), q)
<1>1. PICK i \in Nat : i = Len(t)
  BY LenProperties
<1>2. PICK j \in Nat : j = Len(q)
  BY LenProperties
<1>3. /\ i + 1 + j = k
      /\ \A n \in 1..i : t[n] = n
      /\ \A n \in 1..j : q[n] = i + 1 + n
  BY <1>1, <1>2, Zenon DEF Placed
<1> DEFINE u == Append(t, i + 1)
<1>4. i + 1 \in Nat
  OBVIOUS
<1>5. Len(u) = i + 1 /\ u[i + 1] = i + 1 /\ \A n \in 1..i : u[n] = t[n]
  BY <1>1, <1>4
<1> HIDE DEF u
<1>6. \A n \in 1..(i + 1) : n \in 1..i \/ n = i + 1
  OBVIOUS
<1>7. \A n \in 1..(i + 1) : u[n] = n
  BY <1>3, <1>5, <1>6, Zenon
<1>8. \A n \in 1..j : i + 1 + 0 + n = i + 1 + n
  OBVIOUS
<1>9. i + 1 + 0 + j = k
  BY <1>3
<1>10. \A n \in 1..j : q[n] = i + 1 + 0 + n
  BY <1>3, <1>8, Zenon
<1>11. Placed(k, 0, u, q)
  BY <1>2, <1>5, <1>7, <1>9, <1>10, Zenon DEF Placed
<1>12. QED
  BY <1>1, <1>11 DEF u

LEMMA PlacedSend ==
    ASSUME NEW k \in Nat, NEW a \in {0, 1}, NEW t \in Seq(Nat), NEW q \in Seq(Nat),
           Placed(k, a, t, q)
    PROVE  Placed(k + 1, a, t, Append(q, k + 1))
<1>1. PICK i \in Nat : i = Len(t)
  BY LenProperties
<1>2. PICK j \in Nat : j = Len(q)
  BY LenProperties
<1>3. /\ i + a + j = k
      /\ \A n \in 1..i : t[n] = n
      /\ \A n \in 1..j : q[n] = i + a + n
  BY <1>1, <1>2, Zenon DEF Placed
<1> DEFINE u == Append(q, k + 1)
<1>4. k + 1 \in Nat
  OBVIOUS
<1>5. Len(u) = j + 1 /\ u[j + 1] = k + 1 /\ \A n \in 1..j : u[n] = q[n]
  BY <1>2, <1>4
<1> HIDE DEF u
<1>6. /\ \A n \in 1..(j + 1) : n \in 1..j \/ n = j + 1
      /\ k + 1 = i + a + (j + 1)
  BY <1>3
<1>7. \A n \in 1..(j + 1) : u[n] = i + a + n
  BY <1>3, <1>5, <1>6, Zenon
<1>8. Placed(k + 1, a, t, u)
  BY <1>1, <1>3, <1>5, <1>6, <1>7, Zenon DEF Placed
<1>9. QED
  BY <1>8 DEF u

\* Steps of a task that touch no message.
Idle(g) ==
    /\ UNCHANGED outVars
    /\ \A h \in Runs : pc'[h] = "sending" <=> pc[h] = "sending"

LEMMA MovesAMessage ==
    ASSUME Typed, NEW g \in Runs, TaskStep(g) \/ NetworkStep(g)
    PROVE  End(g) \/ TakeOutgoing(g) \/ Sent(g) \/ SendFails(g) \/ Idle(g)
<1>1. ASSUME NEW from, NEW to, Goto(g, from, to), from # "sending", to # "sending"
      PROVE  Idle(g)
  BY <1>1 DEF Typed, Goto, Idle
<1>2. ASSUME NEW from, NEW to, NEW tell, Raise(g, from, to, tell),
             from # "sending", to # "sending"
      PROVE  Idle(g)
  <2>1. CASE Accepted(g, from, to, tell)
    BY <1>2, <2>1 DEF Typed, Accepted, Idle
  <2>2. CASE Refused(g, from, to)
    BY <1>2, <2>2 DEF Typed, Refused, Idle
  <2>3. QED
    BY <1>2, <2>1, <2>2 DEF Raise
<1>3. CASE TaskStep(g)
  <2>1. CASE LoopTop(g)
    BY <2>1 DEF Typed, LoopTop, Idle
  <2>2. CASE LoopCancelled(g) \/ Return(g) \/ Killed(g)
    BY <2>2 DEF LoopCancelled, Return, Killed
  <2>3. CASE Retry(g) \/ PollConnect(g)
    BY <1>1, <2>3 DEF Retry, PollConnect, Unless
  <2>4. CASE AfterFailure(g) \/ ConnectPends(g) \/ PollToken(g)
    BY <1>1, <2>4 DEF AfterFailure, ConnectPends, PollToken
  <2>5. CASE LinkEnds(g) \/ NothingIncoming(g) \/ NothingOutgoing(g)
    BY <1>1, <2>5 DEF LinkEnds, NothingIncoming, NothingOutgoing
  <2>6. CASE SayConnecting(g) \/ SayConnected(g) \/ SayDisconnected(g) \/ SayFailed(g)
    BY <1>2, <2>6 DEF SayConnecting, SayConnected, SayDisconnected, SayFailed
  <2>7. CASE SayGiveUp(g) \/ SayAbandoned(g) \/ Dispatch(g)
    BY <1>2, <2>7 DEF SayGiveUp, SayAbandoned, Dispatch
  <2>8. CASE TakeIncoming(g) \/ Rest(g)
    BY <2>8 DEF Typed, TakeIncoming, Rest, Idle
  <2>9. QED
    BY <1>3, <2>1, <2>2, <2>3, <2>4, <2>5, <2>6, <2>7, <2>8 DEF TaskStep
<1>4. CASE NetworkStep(g)
  <2>1. CASE Connected(g) \/ ConnectFails(g) \/ FrameArrives(g) \/ LinkBreaks(g)
    BY <2>1 DEF Typed, Connected, ConnectFails, FrameArrives, LinkBreaks, Idle
  <2>2. QED
    BY <1>4, <2>1 DEF NetworkStep, Close
<1>5. QED
  BY <1>3, <1>4

\* What a run's messages look like to it is a matter of its own variables.
LEMMA TransitKept ==
    ASSUME NEW g \in Runs, InTransit(g),
           tried'[g] = tried[g], outq'[g] = outq[g], flying'[g] = flying[g],
           accepted'[g] = accepted[g], pc'[g] = "sending" <=> pc[g] = "sending"
    PROVE  InTransit(g)'
BY DEF InTransit, Placed, Aloft

LEMMA TransitTypes ==
    ASSUME Typed, NEW g \in Runs
    PROVE  tried[g] \in Seq(Nat) /\ outq[g] \in Seq(Nat) /\ accepted[g] \in Nat
<1>1. /\ tried[g] \in Seq(0..MaxOut) /\ outq[g] \in Seq(1..MaxOut) /\ accepted[g] \in Nat
      /\ 0..MaxOut \subseteq Nat /\ 1..MaxOut \subseteq Nat
  BY Bounds DEF Typed
<1>2. QED
  BY <1>1, WiderSeq, Zenon

LEMMA TransitMoves ==
    ASSUME Typed, NEW g \in Runs, InTransit(g),
           End(g) \/ TakeOutgoing(g) \/ Sent(g) \/ SendFails(g)
    PROVE  InTransit(g)'
<1>1. CASE End(g)
  <2>1. /\ tried'[g] = <<>> /\ outq'[g] = <<>> /\ flying'[g] = 0 /\ accepted'[g] = 0
        /\ pc'[g] = "ended"
    BY <1>1 DEF Typed, End
  <2>2. QED
    BY <2>1 DEF InTransit, Placed, Aloft
<1>2. CASE TakeOutgoing(g)
  <2>1. /\ outq[g] # <<>> /\ pc[g] = "poll_out" /\ pc'[g] = "sending"
        /\ flying'[g] = Head(outq[g]) /\ outq'[g] = Tail(outq[g])
        /\ tried'[g] = tried[g] /\ accepted'[g] = accepted[g]
    BY <1>2 DEF Typed, TakeOutgoing
  <2>2. Aloft(g) = 0 /\ Aloft(g)' = 1
    BY <2>1 DEF Aloft
  <2>3. Placed(accepted[g], 0, tried[g], outq[g])
    BY <2>2 DEF InTransit
  <2>4. Placed(accepted[g], 1, tried[g], Tail(outq[g])) /\ Head(outq[g]) = Len(tried[g]) + 1
    BY <2>1, <2>3, TransitTypes, PlacedTake, Zenon
  <2>5. Placed(accepted'[g], Aloft(g)', tried'[g], outq'[g])
    BY <2>1, <2>2, <2>4, Zenon
  <2>6. flying'[g] = Len(tried'[g]) + 1
    BY <2>1, <2>4, Zenon
  <2>7. Placed(accepted[g], Aloft(g), tried[g], outq[g])'
    BY <2>5, Zenon DEF Placed
  <2>8. QED
    BY <2>1, <2>6, <2>7, Zenon DEF InTransit
<1>3. CASE Sent(g) \/ SendFails(g)
  <2>1. /\ pc[g] = "sending" /\ pc'[g] # "sending"
        /\ tried'[g] = Append(tried[g], flying[g]) /\ flying'[g] = 0
        /\ outq'[g] = outq[g] /\ accepted'[g] = accepted[g]
    BY <1>3 DEF Typed, Sent, SendFails
  <2>2. Aloft(g) = 1 /\ Aloft(g)' = 0 /\ flying[g] = Len(tried[g]) + 1
    BY <2>1 DEF Aloft, InTransit
  <2>3. Placed(accepted[g], 1, tried[g], outq[g])
    BY <2>2 DEF InTransit
  <2>4. Placed(accepted[g], 0, Append(tried[g], Len(tried[g]) + 1), outq[g])
    BY <2>3, TransitTypes, PlacedLeft, Zenon
  <2>5. Placed(accepted'[g], Aloft(g)', tried'[g], outq'[g])
    BY <2>1, <2>2, <2>4, Zenon
  <2>6. Placed(accepted[g], Aloft(g), tried[g], outq[g])'
    BY <2>5, Zenon DEF Placed
  <2>7. QED
    BY <2>1, <2>6, Zenon DEF InTransit
<1>4. QED
  BY <1>1, <1>2, <1>3

\* A message is accepted at the end of the queue, under the next number.
LEMMA TransitSend ==
    ASSUME Typed, NEW g \in Runs, InTransit(g), Send
    PROVE  InTransit(g)'
<1>1. CASE g = handle
  <2>1. /\ accepted'[g] = accepted[g] + 1
        /\ outq'[g] = Append(outq[g], accepted[g] + 1)
        /\ tried'[g] = tried[g] /\ flying'[g] = flying[g] /\ pc'[g] = pc[g]
    BY <1>1 DEF Typed, Send
  <2>2. Aloft(g)' = Aloft(g) /\ Aloft(g) \in {0, 1}
    BY <2>1 DEF Aloft
  <2>3. Placed(accepted[g], Aloft(g), tried[g], outq[g])
    BY DEF InTransit
  <2>4. Placed(accepted[g] + 1, Aloft(g), tried[g], Append(outq[g], accepted[g] + 1))
    BY <2>2, <2>3, TransitTypes, PlacedSend, Zenon
  <2>5. Placed(accepted'[g], Aloft(g)', tried'[g], outq'[g])
    BY <2>1, <2>2, <2>4, Zenon
  <2>6. Placed(accepted[g], Aloft(g), tried[g], outq[g])'
    BY <2>5, Zenon DEF Placed
  <2>7. QED
    BY <2>1, <2>6, Zenon DEF InTransit
<1>2. CASE g # handle
  BY <1>2, TransitKept DEF Typed, Send
<1>3. QED
  BY <1>1, <1>2

LEMMA TransitStep ==
    ASSUME IInv, NEW g \in Runs, InTransit(g), [Next]_vars
    PROVE  InTransit(g)'
<1>1. Typed
  BY DEF IInv
<1>2. CASE UNCHANGED vars
  BY <1>2, TransitKept DEF vars
<1>3. CASE BeginStop \/ BeginStart \/ FinishDrop \/ StartFails
  BY <1>3, TransitKept DEF BeginStop, BeginStart, FinishDrop, StartFails
<1>4. CASE Spawn
  <2>1. pc'[g] = "sending" <=> pc[g] = "sending"
    <3>1. CASE g = runs + 1
      <4>1. pc[g] = "none"
        BY <3>1, Bounds DEF IInv, Typed, RunOK, Unborn
      <4>2. QED
        BY <1>1, <1>4, <3>1, <4>1 DEF Spawn, Typed
    <3>2. CASE g # runs + 1
      BY <1>1, <1>4, <3>2 DEF Spawn, Typed
    <3>3. QED
      BY <3>1, <3>2
  <2>2. QED
    BY <1>4, <2>1, TransitKept DEF Spawn
<1>5. CASE Send
  BY <1>1, <1>5, TransitSend
<1>6. ASSUME NEW h \in Runs, TaskStep(h) \/ NetworkStep(h)
      PROVE  InTransit(g)'
  <2>1. CASE Idle(h)
    BY <2>1, TransitKept DEF Idle
  <2>2. CASE h = g /\ ~Idle(h)
    BY <1>1, <1>6, <2>2, MovesAMessage, TransitMoves
  <2>3. CASE h # g /\ ~Idle(h)
    <3>1. pc'[g] = pc[g]
      BY <1>1, <1>6, <2>3, OthersUntouched
    <3>2. End(h) \/ TakeOutgoing(h) \/ Sent(h) \/ SendFails(h)
      BY <1>1, <1>6, <2>3, MovesAMessage
    <3>3. /\ tried'[g] = tried[g] /\ outq'[g] = outq[g] /\ flying'[g] = flying[g]
          /\ accepted'[g] = accepted[g]
      BY <1>1, <2>3, <3>2, ZenonT(60) DEF Typed, End, TakeOutgoing, Sent, SendFails
    <3>4. QED
      BY <3>1, <3>3, TransitKept
  <2>4. QED
    BY <2>1, <2>2, <2>3
<1>7. QED
  BY <1>2, <1>3, <1>4, <1>5, <1>6 DEF Next

\* A sequence that holds every number in its place is the one the property names.
LEMMA InOrder ==
    ASSUME Typed, NEW g \in Runs, InTransit(g)
    PROVE  Outgoing(g) = [n \in 1..accepted[g] |-> n]
<1> DEFINE t == tried[g]
           f == IF flying[g] = 0 THEN <<>> ELSE <<flying[g]>>
           q == outq[g]
           k == accepted[g]
<1>1. t \in Seq(Nat) /\ q \in Seq(Nat) /\ f \in Seq(Nat) /\ k \in Nat
  <2>1. flying[g] \in Nat
    BY Bounds DEF Typed
  <2>2. QED
    BY <2>1, TransitTypes
<1>2. Len(t) \in Nat /\ Len(q) \in Nat
  BY <1>1
<1>3. /\ Len(f) = Aloft(g)
      /\ Aloft(g) \in {0, 1}
      /\ \A n \in 1..Len(f) : f[n] = Len(t) + n
  BY <1>2 DEF InTransit, Aloft
<1>4. /\ Len(t) + Len(f) + Len(q) = k
      /\ \A n \in 1..Len(t) : t[n] = n
      /\ \A n \in 1..Len(q) : q[n] = Len(t) + Len(f) + n
  BY <1>3 DEF InTransit, Placed
<1>5. Outgoing(g) = t \o f \o q
  BY DEF Outgoing
<1>6. Len(f) \in Nat
  BY <1>3
<1> HIDE DEF t, f, q, k
<1>7. /\ t \o f \in Seq(Nat) /\ Len(t \o f) = Len(t) + Len(f)
      /\ \A n \in 1..(Len(t) + Len(f)) : (t \o f)[n] = n
  <2>1. t \o f \in Seq(Nat) /\ Len(t \o f) = Len(t) + Len(f)
    BY <1>1, ConcatProperties
  <2>2. ASSUME NEW n \in 1..(Len(t) + Len(f))
        PROVE  (t \o f)[n] = n
    <3>1. (t \o f)[n] = IF n <= Len(t) THEN t[n] ELSE f[n - Len(t)]
      BY <1>1, ConcatProperties
    <3>2. CASE n <= Len(t)
      BY <1>2, <1>4, <3>1, <3>2
    <3>3. CASE n > Len(t)
      <4>1. n - Len(t) \in 1..Len(f)
        BY <1>2, <1>6, <3>3
      <4>2. QED
        BY <1>2, <1>3, <3>1, <3>3, <4>1
    <3>4. QED
      BY <1>2, <3>2, <3>3
  <2>3. QED
    BY <2>1, <2>2
<1>8. /\ (t \o f) \o q \in Seq(Nat) /\ Len((t \o f) \o q) = k
      /\ \A n \in 1..k : ((t \o f) \o q)[n] = n
  <2>1. (t \o f) \o q \in Seq(Nat) /\ Len((t \o f) \o q) = k
    BY <1>1, <1>4, <1>7, ConcatProperties
  <2>2. ASSUME NEW n \in 1..k
        PROVE  ((t \o f) \o q)[n] = n
    <3>1. ((t \o f) \o q)[n] =
              IF n <= Len(t \o f) THEN (t \o f)[n] ELSE q[n - Len(t \o f)]
      BY <1>1, <1>2, <1>4, <1>6, <1>7, ConcatProperties
    <3>2. CASE n <= Len(t) + Len(f)
      BY <1>2, <1>6, <1>7, <3>1, <3>2
    <3>3. CASE n > Len(t) + Len(f)
      <4>1. n - (Len(t) + Len(f)) \in 1..Len(q)
        BY <1>1, <1>2, <1>4, <1>6, <3>3
      <4>2. q[n - (Len(t) + Len(f))] = Len(t) + Len(f) + (n - (Len(t) + Len(f)))
        BY <1>4, <4>1
      <4>3. ((t \o f) \o q)[n] = q[n - (Len(t) + Len(f))]
        BY <1>2, <1>6, <1>7, <3>1, <3>3
      <4>4. PICK i \in Nat : i = Len(t) + Len(f)
        BY <1>2, <1>6
      <4>5. i + (n - i) = n
        OBVIOUS
      <4>6. QED
        BY <4>2, <4>3, <4>4, <4>5
    <3>4. PICK i \in Nat : i = Len(t) + Len(f)
      BY <1>2, <1>6
    <3>5. n <= i \/ n > i
      OBVIOUS
    <3>6. QED
      BY <3>2, <3>3, <3>4, <3>5
  <2>3. QED
    BY <2>1, <2>2
<1>9. [n \in 1..k |-> n] \in Seq(Nat) /\ Len([n \in 1..k |-> n]) = k
  BY <1>1
<1>10. (t \o f) \o q = [n \in 1..k |-> n]
  BY <1>1, <1>8, <1>9, SeqEqual
<1>11. QED
  BY <1>5, <1>10 DEF k

LEMMA TransitHolds == Spec => []\A g \in Runs : InTransit(g)
<1>1. Init => \A g \in Runs : InTransit(g)
  BY DEF Init, InTransit, Placed, Aloft
<1>2. IInv /\ (\A g \in Runs : InTransit(g)) /\ [Next]_vars => (\A g \in Runs : InTransit(g))'
  BY TransitStep
<1>3. QED
  BY <1>1, <1>2, IInvHolds, PTL DEF Spec

\* Every message that session.send accepted leaves exactly once and in 1C's order,
\* for any number of messages and of broken connections.
THEOREM MessagesSentOnce == Spec => []SentOnceInOrder
<1>1. Typed /\ (\A g \in Runs : InTransit(g)) => SentOnceInOrder
  BY InOrder DEF SentOnceInOrder
<1>2. IInv => Typed
  BY DEF IInv
<1>3. QED
  BY <1>1, <1>2, IInvHolds, TransitHolds, PTL
=============================================================================
