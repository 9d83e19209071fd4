------------------------------ MODULE WsClient -------------------------------
(***************************************************************************)
(* The WebSocket client (src/ws_client.rs, src/ws/addin.rs): 1C connects,  *)
(* sends, receives with a timeout and disconnects, one call at a time,     *)
(* while the server sends frames, closes the connection or is lost.        *)
(*                                                                         *)
(* The socket and tungstenite are modelled from what the client sees of    *)
(* them: frames come in order; a Close frame is the last one; a loss is    *)
(* one error; then the stream has ended.                                   *)
(***************************************************************************)
EXTENDS Naturals, Sequences

CONSTANTS
    MaxConns,   \* bound: connections made
    MaxFrames   \* bound: frames the server sends over a connection

ASSUME WsClientAssumption == {MaxConns, MaxFrames} \subseteq Nat \ {0}

VARIABLES
    call,      \* what the 1C thread is in: "none", "connect", "send", "receive"
    endless,   \* the timeout of the receive is negative: as u64, longer than any life
    conn,      \* WsAddIn.websocket: the connection in use (0: None)
    made,      \* connections made so far
    link,      \* its state: "open", "closing" (a Close frame is on the way), "lost", "ended"
    wire,      \* frames sent by the server and not read
    answer,    \* what the last call gave 1C: "ok", "error", "frame", or "" for none
    \* history of the connection in use, for the properties only
    sent,      \* number of frames the server sent
    got        \* frames that a receive returned, or failed on

connVars == <<conn, made, link, wire, sent, got>>
vars == <<call, endless, connVars, answer>>

\* Ping, Pong and Close frames are given to 1C as their text, like text frames;
\* to_text fails on a binary one that is not UTF-8.
FrameKinds == {"text", "control", "binary"}

Init ==
    /\ call = "none"
    /\ endless = FALSE
    /\ conn = 0
    /\ made = 0
    /\ link = "ended"
    /\ wire = <<>>
    /\ answer = "ok"
    /\ sent = 0
    /\ got = <<>>

-----------------------------------------------------------------------------
(* Calls of 1C.                                                            *)

Begin(kind) == call = "none" /\ call' = kind
Return(how) == call' = "none" /\ answer' = how

\* Mutant: the connection in use is dropped before there is a new one.
BeginConnectDrops ==
    /\ Begin("connect")
    /\ conn' = 0
    /\ UNCHANGED <<endless, made, link, wire, sent, got, answer>>

BeginConnect ==
    /\ Begin("connect")
    /\ UNCHANGED <<endless, connVars, answer>>

\* The new connection replaces the one in use, and what it had not read.
Connected ==
    /\ call = "connect"
    /\ made < MaxConns
    /\ conn' = made + 1
    /\ made' = made + 1
    /\ link' = "open"
    /\ wire' = <<>>
    /\ sent' = 0
    /\ got' = <<>>
    /\ Return("ok")
    /\ UNCHANGED endless

\* A bad address or header, or the server refuses.
ConnectFails ==
    /\ call = "connect"
    /\ Return("error")
    /\ UNCHANGED <<endless, connVars>>

\* Mutant: nobody watches the clock.
ConnectHangs == call = "connect" /\ UNCHANGED vars

\* The five seconds for the upgrade are over.
ConnectTimesOut ==
    /\ call = "connect"
    /\ Return("error")
    /\ UNCHANGED <<endless, connVars>>

\* send and receive without a connection.
NotConnected ==
    /\ call = "none"
    /\ conn = 0
    /\ Return("error")
    /\ UNCHANGED <<endless, connVars>>

BeginSend ==
    /\ Begin("send")
    /\ conn # 0
    /\ UNCHANGED <<endless, connVars, answer>>

\* The message is flushed, or the connection does not take it any more.  There is
\* no timer: a server that does not read holds the 1C thread.
SendReturns ==
    /\ call = "send"
    /\ \/ Return("ok")
       \/ link # "open" /\ Return("error")
    /\ UNCHANGED <<endless, connVars>>

BeginReceive(negative) ==
    /\ Begin("receive")
    /\ conn # 0
    /\ endless' = negative
    /\ UNCHANGED <<connVars, answer>>

ReceiveReturns(how) ==
    /\ call = "receive"
    /\ Return(how)
    /\ endless' = FALSE
    /\ UNCHANGED <<conn, made, sent>>

\* The next frame, whatever its kind.
TakeFrame ==
    /\ wire # <<>>
    /\ ReceiveReturns(IF Head(wire).kind = "binary" THEN "error" ELSE "frame")
    /\ wire' = Tail(wire)
    /\ got' = Append(got, Head(wire).number)
    /\ link' = IF link = "closing" /\ wire' = <<>> THEN "ended" ELSE link

\* The loss is an error once; afterwards the stream has ended.
SeeLoss ==
    /\ wire = <<>>
    /\ link = "lost"
    /\ ReceiveReturns("error")
    /\ link' = "ended"
    /\ UNCHANGED <<wire, got>>

SeeEnd ==
    /\ wire = <<>>
    /\ link = "ended"
    /\ ReceiveReturns("")
    /\ UNCHANGED <<link, wire, got>>

\* Mutant: a frame that was being read when the time was over is lost.
TimesOutReading ==
    /\ ~endless
    /\ ReceiveReturns("")
    /\ wire' = IF wire = <<>> THEN wire ELSE Tail(wire)
    /\ UNCHANGED <<link, got>>

\* A frame may have come that the client has not seen yet: it stays.
ReceiveTimesOut ==
    /\ ~endless
    /\ ReceiveReturns("")
    /\ UNCHANGED <<link, wire, got>>

Disconnect ==
    /\ call = "none"
    /\ Return("ok")
    /\ conn' = 0
    /\ link' = "ended"
    /\ wire' = <<>>
    /\ sent' = 0
    /\ got' = <<>>
    /\ UNCHANGED <<endless, made>>

-----------------------------------------------------------------------------
(* The server of the connection in use.                                    *)

Deliver(kind) ==
    /\ link = "open"
    /\ sent < MaxFrames
    /\ sent' = sent + 1
    /\ wire' = Append(wire, [number |-> sent', kind |-> kind])
    /\ UNCHANGED <<call, endless, conn, made, answer, got>>

ServerSends(kind) == Deliver(kind) /\ UNCHANGED link
ServerCloses      == Deliver("control") /\ link' = "closing"

Lost ==
    /\ link = "open"
    /\ link' = "lost"
    /\ UNCHANGED <<call, endless, conn, made, wire, answer, sent, got>>

-----------------------------------------------------------------------------
Next ==
    \/ BeginConnect \/ Connected \/ ConnectFails \/ ConnectTimesOut
    \/ NotConnected
    \/ BeginSend \/ SendReturns
    \/ \E negative \in BOOLEAN : BeginReceive(negative)
    \/ TakeFrame \/ SeeLoss \/ SeeEnd \/ ReceiveTimesOut
    \/ Disconnect
    \/ \E kind \in FrameKinds : ServerSends(kind)
    \/ ServerCloses
    \/ Lost

Spec == Init /\ [][Next]_vars

\* Timers elapse, and a socket that is readable is read.
FairSpec ==
    /\ Spec
    /\ WF_vars(ConnectTimesOut)
    /\ WF_vars(ReceiveTimesOut)
    /\ WF_vars(TakeFrame \/ SeeLoss \/ SeeEnd)

-----------------------------------------------------------------------------
(* Properties.                                                             *)

\* What 1C was given of a connection, followed by what waits on it, is what its
\* server sent, each frame once and in order: no timeout, failed call or bad frame
\* in between costs a frame.
EachFrameOnce ==
    got \o [i \in DOMAIN wire |-> wire[i].number] = [i \in 1..sent |-> i]

\* 1C has the connection it was last told of: only a connect that succeeds or a
\* disconnect ends its use, never a connect that fails or is timed out.
KeptUntilReplaced ==
    [][conn' # conn =>
          /\ call' = "none" /\ answer' = "ok"
          /\ \/ call = "connect" /\ conn' = made'
             \/ call = "none" /\ conn' = 0]_vars

\* A connect returns, and so does a receive, unless its timeout is negative and
\* the connection is alive and silent.  A connection that has ended is no reason
\* to wait, however long the timeout.
CallsReturn ==
    call = "connect" \/ (call = "receive" /\ (~endless \/ link # "open" \/ wire # <<>>))
        ~> call = "none"
=============================================================================
