---------------------------- MODULE WsClientProofs ----------------------------
(***************************************************************************)
(* No frame is lost, repeated or moved between the server and 1C, for any  *)
(* number of connections and frames.  The proof describes what was read    *)
(* and what waits by position: the frame at a position bears its number.   *)
(***************************************************************************)
EXTENDS WsClient, SequenceTheorems, TLAPS

Frames == [number : Nat, kind : FrameKinds]

Typed ==
    /\ call \in {"none", "connect", "send", "receive"}
    /\ endless \in BOOLEAN
    /\ made \in 0..MaxConns /\ conn \in 0..MaxConns
    /\ link \in {"open", "closing", "lost", "ended"}
    /\ wire \in Seq(Frames)
    /\ sent \in 0..MaxFrames
    /\ got \in Seq(Nat)

\* What 1C got is the beginning of what was sent, and what waits is the rest.
InOrder ==
    /\ Len(got) + Len(wire) = sent
    /\ \A i \in 1..Len(got) : got[i] = i
    /\ \A i \in 1..Len(wire) : wire[i].number = Len(got) + i

IInv == Typed /\ InOrder

USE DEF connVars

LEMMA Bounds == MaxConns \in Nat /\ MaxFrames \in Nat
  BY WsClientAssumption DEF WsClientAssumption

\* The steps that leave the connection in use and its frames alone.
Idle == UNCHANGED connVars /\ call' \in {"none", "connect", "send", "receive"} /\ endless' \in BOOLEAN

LEMMA IdleStep == IInv /\ Idle => IInv'
  BY DEF IInv, Idle, Typed, InOrder

\* A new connection, or none: nothing was sent over it yet.
Fresh ==
    /\ sent' = 0 /\ wire' = <<>> /\ got' = <<>>
    /\ call' = "none" /\ link' \in {"open", "ended"} /\ UNCHANGED endless
    /\ made' \in 0..MaxConns /\ conn' \in 0..MaxConns

LEMMA FreshStep == IInv /\ Fresh => IInv'
  BY Bounds DEF IInv, Fresh, Typed, InOrder

\* The server's next frame goes to the end of what waits.
LEMMA DeliverStep ==
    ASSUME IInv, NEW kind \in FrameKinds, Deliver(kind),
           link' \in {"open", "closing", "lost", "ended"}
    PROVE  IInv'
<1> DEFINE frame == [number |-> sent', kind |-> kind]
<1>1. sent' = sent + 1 /\ sent' \in 0..MaxFrames
  BY Bounds DEF IInv, Typed, Deliver
<1>2. frame \in Frames
  BY <1>1 DEF Frames
<1>3. /\ wire' = Append(wire, frame)
      /\ wire' \in Seq(Frames)
      /\ Len(wire') = Len(wire) + 1
      /\ \A i \in 1..Len(wire) : wire'[i] = wire[i]
      /\ wire'[Len(wire) + 1] = frame
  BY <1>2, AppendProperties DEF IInv, Typed, Deliver
<1>4. Typed'
  BY <1>1, <1>3 DEF IInv, Typed, Deliver
<1>5. Len(got) \in Nat /\ Len(wire) \in Nat
  BY DEF IInv, Typed
<1>6. ASSUME NEW i \in 1..Len(wire')
      PROVE  wire'[i].number = Len(got) + i
  <2>1. CASE i \in 1..Len(wire)
    BY <2>1, <1>3 DEF IInv, InOrder
  <2>2. CASE i = Len(wire) + 1
    BY <2>2, <1>1, <1>3, <1>5 DEF IInv, InOrder
  <2>3. QED
    BY <1>3, <1>5, <2>1, <2>2
<1>7. InOrder'
  BY <1>1, <1>3, <1>5, <1>6 DEF IInv, InOrder, Deliver
<1>8. QED
  BY <1>4, <1>7 DEF IInv

\* The first of the frames that wait becomes the last of those that 1C got.
LEMMA TakeStep == IInv /\ TakeFrame => IInv'
<1> SUFFICES ASSUME IInv, TakeFrame PROVE IInv'
  OBVIOUS
<1>1. wire # <<>> /\ wire \in Seq(Frames) /\ got \in Seq(Nat) /\ Len(got) \in Nat
  BY DEF IInv, Typed, TakeFrame
<1>2. Len(wire) \in Nat \ {0}
  BY <1>1, EmptySeq
<1>3. Head(wire) = wire[1] /\ wire[1].number = Len(got) + 1
  BY <1>1, <1>2 DEF IInv, InOrder
<1>4. /\ wire' = Tail(wire)
      /\ wire' \in Seq(Frames)
      /\ Len(wire') = Len(wire) - 1
      /\ \A i \in 1..Len(wire') : wire'[i] = wire[i + 1]
  BY <1>1, HeadTailProperties DEF TakeFrame
<1>5. /\ got' = Append(got, Len(got) + 1)
      /\ got' \in Seq(Nat)
      /\ Len(got') = Len(got) + 1
      /\ \A i \in 1..Len(got) : got'[i] = got[i]
      /\ got'[Len(got) + 1] = Len(got) + 1
  BY <1>1, <1>3, AppendProperties DEF TakeFrame
<1>6. Typed'
  BY <1>4, <1>5 DEF IInv, Typed, TakeFrame, ReceiveReturns, Return
<1>7. ASSUME NEW i \in 1..Len(got')
      PROVE  got'[i] = i
  BY <1>1, <1>5 DEF IInv, InOrder
<1>8. ASSUME NEW i \in 1..Len(wire')
      PROVE  wire'[i].number = Len(got') + i
  <2>1. i + 1 \in 1..Len(wire) /\ wire'[i] = wire[i + 1]
    BY <1>2, <1>4
  <2>2. wire[i + 1].number = Len(got) + (i + 1)
    BY <2>1 DEF IInv, InOrder
  <2>3. QED
    BY <1>1, <1>5, <2>1, <2>2
<1>9. sent' = sent
  BY DEF TakeFrame, ReceiveReturns
<1>10. Len(got') + Len(wire') = sent'
  BY <1>1, <1>2, <1>4, <1>5, <1>9 DEF IInv, InOrder
<1>11. QED
  BY <1>6, <1>7, <1>8, <1>10 DEF IInv, InOrder

LEMMA StepOK == IInv /\ [Next]_vars => IInv'
<1> SUFFICES ASSUME IInv, [Next]_vars PROVE IInv'
  OBVIOUS
<1>1. CASE BeginConnect \/ ConnectFails \/ ConnectTimesOut \/ NotConnected \/ BeginSend
  <2>1. Idle
    BY <1>1 DEF IInv, Typed, Idle, BeginConnect, ConnectFails, ConnectTimesOut, NotConnected,
                BeginSend, Begin, Return
  <2>2. QED
    BY <2>1, IdleStep
<1>2. CASE SendReturns \/ \E negative \in BOOLEAN : BeginReceive(negative)
  <2>1. Idle
    BY <1>2 DEF IInv, Typed, Idle, SendReturns, BeginReceive, Begin, Return
  <2>2. QED
    BY <2>1, IdleStep
<1>3. CASE Connected \/ Disconnect
  <2>1. Fresh
    BY <1>3, Bounds DEF IInv, Typed, Fresh, Connected, Disconnect, Return
  <2>2. QED
    BY <2>1, FreshStep
<1>4. CASE TakeFrame
  BY <1>4, TakeStep
<1>5. CASE SeeLoss \/ SeeEnd \/ ReceiveTimesOut \/ Lost
  BY <1>5 DEF IInv, Typed, InOrder, SeeLoss, SeeEnd, ReceiveTimesOut, Lost, ReceiveReturns, Return
<1>6. ASSUME NEW kind \in FrameKinds, ServerSends(kind)
      PROVE  IInv'
  <2>1. link' \in {"open", "closing", "lost", "ended"}
    BY <1>6 DEF IInv, Typed, ServerSends
  <2>2. QED
    BY <1>6, <2>1, DeliverStep DEF ServerSends
<1>7. CASE ServerCloses
  BY <1>7, DeliverStep DEF ServerCloses, FrameKinds
<1>8. CASE UNCHANGED vars
  BY <1>8 DEF vars, IInv, Typed, InOrder
<1>9. QED
  BY <1>1, <1>2, <1>3, <1>4, <1>5, <1>6, <1>7, <1>8 DEF Next

\* Types, and the position of every frame.
THEOREM Invariance == Spec => []IInv
<1>1. Init => IInv
  <2> SUFFICES ASSUME Init PROVE IInv
    OBVIOUS
  <2>1. /\ wire = <<>> /\ wire \in Seq(Frames) /\ Len(wire) = 0
        /\ got = <<>> /\ got \in Seq(Nat) /\ Len(got) = 0
    BY EmptySeq DEF Init
  <2>2. Typed
    <3>1. 0 \in 0..MaxConns /\ 0 \in 0..MaxFrames
      BY Bounds
    <3>2. call = "none" /\ endless = FALSE /\ made = 0 /\ conn = 0 /\ link = "ended" /\ sent = 0
      BY DEF Init
    <3>3. QED
      BY <2>1, <3>1, <3>2 DEF Typed
  <2>3. InOrder
    BY <2>1 DEF Init, InOrder
  <2>4. QED
    BY <2>2, <2>3 DEF IInv
<1>2. QED
  BY <1>1, StepOK, PTL DEF Spec

\* What 1C was given, followed by what waits, is what the server sent, each frame
\* once and in order, whatever timeouts and failed calls come in between.
THEOREM FramesKept == Spec => []EachFrameOnce
<1>1. IInv => EachFrameOnce
  <2> SUFFICES ASSUME IInv PROVE EachFrameOnce
    OBVIOUS
  <2> DEFINE numbers == [i \in DOMAIN wire |-> wire[i].number]
             all     == [i \in 1..sent |-> i]
  <2>1. /\ got \in Seq(Nat) /\ wire \in Seq(Frames) /\ sent \in Nat
        /\ Len(got) \in Nat /\ Len(wire) \in Nat
    BY Bounds DEF IInv, Typed
  <2>2. numbers \in Seq(Nat) /\ Len(numbers) = Len(wire)
    <3>1. DOMAIN wire = 1..Len(wire) /\ \A i \in DOMAIN wire : wire[i].number \in Nat
      <4>1. DOMAIN wire = 1..Len(wire)
        BY <2>1, LenProperties
      <4>2. \A i \in 1..Len(wire) : wire[i] \in Frames
        BY <2>1, ElementOfSeq
      <4>3. \A f \in Frames : f.number \in Nat
        BY DEF Frames
      <4>4. QED
        BY <4>1, <4>2, <4>3
    <3>2. numbers \in [DOMAIN wire -> Nat]
      BY <3>1
    <3> HIDE DEF numbers
    <3>3. numbers \in [1..Len(wire) -> Nat]
      BY <3>1, <3>2
    <3>4. numbers \in Seq(Nat)
      BY <3>3, <2>1, SeqDef
    <3>5. DOMAIN numbers = 1..Len(numbers) /\ Len(numbers) \in Nat
      BY <3>4, LenProperties
    <3>6. QED
      BY <2>1, <3>3, <3>4, <3>5
  <2>3. all \in Seq(Nat) /\ Len(all) = sent
    BY <2>1
  <2>4. /\ got \o numbers \in Seq(Nat)
        /\ Len(got \o numbers) = sent
        /\ \A i \in 1..sent :
              (got \o numbers)[i] = IF i <= Len(got) THEN got[i] ELSE numbers[i - Len(got)]
    <3> HIDE DEF numbers
    <3>1. Len(got) + Len(numbers) = sent
      BY <2>2 DEF IInv, InOrder
    <3>2. /\ got \o numbers \in Seq(Nat)
          /\ Len(got \o numbers) = Len(got) + Len(numbers)
          /\ \A i \in 1..(Len(got) + Len(numbers)) :
                (got \o numbers)[i] = IF i <= Len(got) THEN got[i] ELSE numbers[i - Len(got)]
      BY <2>1, <2>2, ConcatProperties, Zenon
    <3>3. QED
      BY <3>1, <3>2, Zenon
  <2>5. ASSUME NEW i \in 1..sent
        PROVE  (got \o numbers)[i] = i
    <3>1. CASE i <= Len(got)
      BY <3>1, <2>1, <2>4 DEF IInv, InOrder
    <3>2. CASE i > Len(got)
      <4>1. i - Len(got) \in 1..Len(wire)
        BY <3>2, <2>1 DEF IInv, InOrder
      <4>2. wire[i - Len(got)].number = i
        BY <4>1, <2>1 DEF IInv, InOrder
      <4>3. numbers[i - Len(got)] = i
        <5>1. DOMAIN wire = 1..Len(wire)
          BY <2>1
        <5>2. QED
          BY <4>1, <4>2, <5>1
      <4>4. QED
        BY <3>2, <4>3, <2>1, <2>4
    <3>3. i <= Len(got) \/ i > Len(got)
      BY <2>1
    <3>4. QED
      BY <3>1, <3>2, <3>3, Zenon
  <2>6. \A i \in 1..Len(got \o numbers) : (got \o numbers)[i] = all[i]
    BY <2>4, <2>5
  <2>7. got \o numbers = all
    <3> HIDE DEF numbers, all
    <3>1. Len(got \o numbers) = Len(all)
      BY <2>3, <2>4
    <3>2. QED
      BY <3>1, <2>3, <2>4, <2>6, SeqEqual, Zenon
  <2>8. QED
    BY <2>7 DEF EachFrameOnce
<1>2. QED
  BY <1>1, Invariance, PTL

\* Only a connect that succeeds and a disconnect end the use of a connection.
THEOREM ConnectionKept == Spec => KeptUntilReplaced
<1> DEFINE Replaced ==
        conn' # conn =>
            /\ call' = "none" /\ answer' = "ok"
            /\ \/ call = "connect" /\ conn' = made'
               \/ call = "none" /\ conn' = 0
<1>1. [Next]_vars => [Replaced]_vars
  BY DEF Next, vars, BeginConnect, Connected, ConnectFails, ConnectTimesOut, NotConnected, BeginSend,
         SendReturns, BeginReceive, TakeFrame, SeeLoss, SeeEnd, ReceiveTimesOut, Disconnect,
         ServerSends, ServerCloses, Deliver, Lost, Return, ReceiveReturns
<1>2. QED
  BY <1>1, PTL DEF Spec, KeptUntilReplaced
=============================================================================
