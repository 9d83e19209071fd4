---------------------------- MODULE SessionTunnel ----------------------------
(***************************************************************************)
(* The session component (src/session/addin.rs, session_integration.rs,    *)
(* reconnect.rs, tunnel.rs): every start spawns a run, a background task   *)
(* that connects to the session manager, pumps frames both ways, and       *)
(* connects again when the link breaks.  A stop, or the next start, drops  *)
(* the run: its token is cancelled and its task aborted.                   *)
(*                                                                         *)
(* An abort takes effect only where the task is suspended at an await.  The *)
(* calls that raise events in 1C block the worker thread, so a dropped run *)
(* may still be inside one when the next run starts.  Each run has a host  *)
(* of its own (src/addin_host.rs), whose pacer sleeps between two calls of *)
(* the platform; the lock it sleeps under is never contended, because only *)
(* the run's task uses the host.                                           *)
(***************************************************************************)
EXTENDS Naturals, Sequences

CONSTANTS
    MaxRuns,      \* bound: runs spawned
    MaxOut,       \* bound: messages 1C sends in a run
    MaxIn,        \* bound: frames waiting to be read from a connection
    MaxFailures,  \* bound: failed connects in a row
    Limits        \* values of BackoffPolicy.max_attempts; 0 is None, as in session.start

ASSUME ConstantsAssumption ==
    /\ {MaxRuns, MaxOut, MaxIn, MaxFailures} \subseteq Nat
    /\ Limits \subseteq Nat

Runs == 1..MaxRuns

VARIABLES
    caller,     \* the 1C thread: "idle", or inside "stop", "restart", "start"
    handle,     \* the run in SessionAddIn.integration (0: none)
    runs,       \* runs spawned so far
    cancelled,  \* runs whose token is cancelled
    aborted,    \* runs whose task is aborted and outbound sender dropped
    pc,         \* where the task of each run is
    limit,      \* max_attempts of the policy in use
    attempt,    \* attempt of run_with_reconnect
    inbox,      \* text frames to be read from the connection
    broken,     \* they are the last: the manager closed, or the link broke
    accepted,   \* messages session.send accepted, numbered from 1
    outq,       \* outbound queue; it outlives connections
    flying,     \* message in sink.send (0: none)
    quiet,      \* min_interval has passed since the host last called the platform
    refused,    \* refused attempts to raise the event the task is at
    \* history, for the properties only
    tried,      \* messages whose sink.send has returned, with or without an error
    failures,   \* failed connects since the run last connected
    told,       \* last state event of the run that the platform accepted
    missed,     \* the platform refused the run's last state event
    stale,      \* events of the run accepted after it was dropped
    zombie      \* an event of a run was accepted after a later run started

callerVars == <<caller, handle, runs, cancelled, aborted>>
linkVars   == <<inbox, broken>>
outVars    == <<accepted, outq, flying, tried>>
tryVars    == <<limit, attempt, failures>>
hostVars   == <<quiet, refused>>
viewVars   == <<told, missed, stale, zombie>>
vars == <<callerVars, pc, linkVars, outVars, tryVars, hostVars, viewVars>>

\* The task is suspended at an await, or is at a select! that looks at the
\* token first; an abort ends it here.
Suspended == {"spawned", "connecting", "pump", "sending", "closing", "backoff",
              "failed", "given_up", "abandoned"}

\* It runs: it has looked at the token, or is inside external_event.
Running == {"top", "say_connecting", "connect", "say_connected", "poll_in", "poll_out",
            "dispatch", "say_disconnected", "say_failed", "say_give_up", "say_abandoned"}

\* run_tunnel has the connection.
Pumping == {"pump", "poll_in", "poll_out", "dispatch", "sending"}

Init ==
    /\ caller = "idle"
    /\ handle = 0
    /\ runs = 0
    /\ cancelled = {}
    /\ aborted = {}
    /\ pc = [g \in Runs |-> "none"]
    /\ limit \in Limits
    /\ attempt = [g \in Runs |-> 0]
    /\ inbox = [g \in Runs |-> 0]
    /\ broken = [g \in Runs |-> FALSE]
    /\ accepted = [g \in Runs |-> 0]
    /\ outq = [g \in Runs |-> <<>>]
    /\ flying = [g \in Runs |-> 0]
    /\ quiet = [g \in Runs |-> TRUE]
    /\ refused = [g \in Runs |-> 0]
    /\ tried = [g \in Runs |-> <<>>]
    /\ failures = [g \in Runs |-> 0]
    /\ told = [g \in Runs |-> "none"]
    /\ missed = [g \in Runs |-> FALSE]
    /\ stale = [g \in Runs |-> 0]
    /\ zombie = FALSE

Advance(g, from, to) == pc[g] = from /\ pc' = [pc EXCEPT ![g] = to]

-----------------------------------------------------------------------------
(* The 1C thread.                                                          *)

\* SessionIntegration::drop: the token first ...
BeginStop ==
    /\ caller = "idle"
    /\ handle # 0
    /\ caller' = "stop"
    /\ cancelled' = cancelled \cup {handle}
    /\ UNCHANGED <<handle, runs, aborted, pc, linkVars, outVars, tryVars, hostVars, viewVars>>

\* start drops a run that is still there before it looks at its arguments.
BeginStart ==
    /\ caller = "idle"
    /\ IF handle = 0
       THEN caller' = "start" /\ UNCHANGED cancelled
       ELSE caller' = "restart" /\ cancelled' = cancelled \cup {handle}
    /\ UNCHANGED <<handle, runs, aborted, pc, linkVars, outVars, tryVars, hostVars, viewVars>>

\* Mutant: the join handle is detached, as shutdown does.
FinishDropDetached ==
    /\ caller \in {"stop", "restart"}
    /\ caller' = IF caller = "restart" THEN "start" ELSE "idle"
    /\ handle' = 0
    /\ UNCHANGED <<runs, cancelled, aborted, pc, linkVars, outVars, tryVars, hostVars, viewVars>>

\* ... then the task, and with the handle the outbound sender.
FinishDrop ==
    /\ caller \in {"stop", "restart"}
    /\ caller' = IF caller = "restart" THEN "start" ELSE "idle"
    /\ handle' = 0
    /\ aborted' = aborted \cup {handle}
    /\ UNCHANGED <<runs, cancelled, pc, linkVars, outVars, tryVars, hostVars, viewVars>>

Spawn ==
    /\ caller = "start"
    /\ runs < MaxRuns
    /\ caller' = "idle"
    /\ runs' = runs + 1
    /\ handle' = runs'
    /\ pc' = [pc EXCEPT ![runs'] = "spawned"]
    /\ UNCHANGED <<cancelled, aborted, linkVars, outVars, tryVars, hostVars, viewVars>>

\* No connection to 1C yet, or an argument of a wrong type.
StartFails ==
    /\ caller = "start"
    /\ caller' = "idle"
    /\ UNCHANGED <<handle, runs, cancelled, aborted, pc, linkVars, outVars, tryVars, hostVars, viewVars>>

\* The receiver lives as long as the task.
Send ==
    /\ caller = "idle"
    /\ handle # 0
    /\ pc[handle] # "ended"
    /\ accepted[handle] < MaxOut
    /\ accepted' = [accepted EXCEPT ![handle] = @ + 1]
    /\ outq' = [outq EXCEPT ![handle] = Append(@, accepted'[handle])]
    /\ UNCHANGED <<callerVars, pc, linkVars, flying, tried, tryVars, hostVars, viewVars>>

-----------------------------------------------------------------------------
(* The task: run_with_reconnect.                                           *)

\* EXTERNAL_EVENT_MAX_ATTEMPTS
MaxAttempts == 3

\* EmitPacer::run calls the platform only when the interval has passed since its
\* last call, and holds the thread until then.
CallPlatform(g) == quiet[g] /\ quiet' = [quiet EXCEPT ![g] = FALSE]

Rest(g) ==
    /\ ~quiet[g]
    /\ quiet' = [quiet EXCEPT ![g] = TRUE]
    /\ UNCHANGED <<callerVars, pc, linkVars, outVars, tryVars, refused, viewVars>>

\* external_event raises an event of the run and blocks until the platform
\* accepted it or refused it MaxAttempts times; nobody looks at the result.
Accepted(g, from, to, tell) ==
    /\ Advance(g, from, to)
    /\ CallPlatform(g)
    /\ refused' = [refused EXCEPT ![g] = 0]
    /\ told' = [told EXCEPT ![g] = tell]
    /\ missed' = [missed EXCEPT ![g] = from = "dispatch" /\ @]
    /\ stale' = [stale EXCEPT ![g] = IF g \in aborted THEN @ + 1 ELSE @]
    /\ zombie' = (zombie \/ g # runs)
    /\ UNCHANGED <<callerVars, linkVars, outVars, tryVars>>

Refused(g, from, to) ==
    /\ pc[g] = from
    /\ CallPlatform(g)
    /\ IF refused[g] + 1 < MaxAttempts
       THEN /\ refused' = [refused EXCEPT ![g] = @ + 1]
            /\ UNCHANGED <<pc, missed>>
       ELSE /\ refused' = [refused EXCEPT ![g] = 0]
            /\ pc' = [pc EXCEPT ![g] = to]
            /\ missed' = [missed EXCEPT ![g] = from # "dispatch" \/ @]
    /\ UNCHANGED <<callerVars, linkVars, outVars, tryVars, told, stale, zombie>>

Raise(g, from, to, tell) == Accepted(g, from, to, tell) \/ Refused(g, from, to)

Goto(g, from, to) ==
    /\ Advance(g, from, to)
    /\ UNCHANGED <<callerVars, linkVars, outVars, tryVars, hostVars, viewVars>>

\* The task returns or is dropped, and its connection, its queue and its locals
\* with it (and what the model remembers of them).
End(g) ==
    /\ pc' = [pc EXCEPT ![g] = "ended"]
    /\ inbox' = [inbox EXCEPT ![g] = 0]
    /\ broken' = [broken EXCEPT ![g] = FALSE]
    /\ accepted' = [accepted EXCEPT ![g] = 0]
    /\ outq' = [outq EXCEPT ![g] = <<>>]
    /\ flying' = [flying EXCEPT ![g] = 0]
    /\ quiet' = [quiet EXCEPT ![g] = TRUE]
    /\ refused' = [refused EXCEPT ![g] = 0]
    /\ tried' = [tried EXCEPT ![g] = <<>>]
    /\ attempt' = [attempt EXCEPT ![g] = 0]
    /\ failures' = [failures EXCEPT ![g] = 0]
    /\ told' = [told EXCEPT ![g] = "none"]
    /\ missed' = [missed EXCEPT ![g] = FALSE]
    /\ UNCHANGED <<callerVars, limit, stale, zombie>>

\* What a select! that looks at the token first does.
Unless(g, from, to) ==
    IF g \in cancelled THEN pc[g] = from /\ End(g) ELSE Goto(g, from, to)

LoopTop(g) ==
    /\ pc[g] \in {"spawned", "top"}
    /\ g \notin cancelled
    /\ pc' = [pc EXCEPT ![g] = "say_connecting"]
    /\ attempt' = [attempt EXCEPT ![g] = @ + 1]
    /\ UNCHANGED <<callerVars, linkVars, outVars, limit, failures, hostVars, viewVars>>

LoopCancelled(g) ==
    /\ pc[g] \in {"spawned", "top"}
    /\ g \in cancelled
    /\ End(g)

SayConnecting(g) == Raise(g, "say_connecting", "connecting", "connecting")
PollConnect(g)   == Unless(g, "connecting", "connect")
ConnectPends(g)  == Goto(g, "connect", "connecting")

\* Mutant: the counter goes on after a success.
ConnectKeepsCount(g) ==
    /\ Advance(g, "connect", "say_connected")
    /\ failures' = [failures EXCEPT ![g] = 0]
    /\ inbox' = [inbox EXCEPT ![g] = 0]
    /\ broken' = [broken EXCEPT ![g] = FALSE]
    /\ UNCHANGED <<callerVars, limit, attempt, outVars, hostVars, viewVars>>

Connected(g) ==
    /\ Advance(g, "connect", "say_connected")
    /\ attempt' = [attempt EXCEPT ![g] = 0]
    /\ failures' = [failures EXCEPT ![g] = 0]
    /\ inbox' = [inbox EXCEPT ![g] = 0]
    /\ broken' = [broken EXCEPT ![g] = FALSE]
    /\ UNCHANGED <<callerVars, limit, outVars, hostVars, viewVars>>

\* Refused, failed in the handshake, or not upgraded within 5 s.
ConnectFails(g) ==
    /\ failures[g] < MaxFailures
    /\ Advance(g, "connect", "say_failed")
    /\ failures' = [failures EXCEPT ![g] = @ + 1]
    /\ UNCHANGED <<callerVars, linkVars, outVars, limit, attempt, hostVars, viewVars>>

SayConnected(g) == Raise(g, "say_connected", "pump", "connected")

SayDisconnected(g) == Raise(g, "say_disconnected", "backoff", "disconnected")
SayFailed(g)       == Raise(g, "say_failed", "failed", "disconnected")

\* Mutant: None is taken for a limit of zero.
GiveUpAtNone(g) ==
    /\ g \notin aborted
    /\ Goto(g, "failed", IF attempt[g] >= limit THEN "say_give_up" ELSE "backoff")

\* This pause looks at no token; only an abort ends it early.
AfterFailure(g) ==
    /\ g \notin aborted
    /\ Goto(g, "failed", IF limit # 0 /\ attempt[g] >= limit THEN "say_give_up" ELSE "backoff")

SayGiveUp(g) == Raise(g, "say_give_up", "given_up", "give_up")

\* The delay runs out, or the token is cancelled before it does.
Retry(g) == Unless(g, "backoff", "top")

SayAbandoned(g) == Raise(g, "say_abandoned", "abandoned", "disconnected")

\* The 100 ms after the last event of a run that gives up or is abandoned.
Return(g) ==
    /\ g \notin aborted
    /\ pc[g] \in {"given_up", "abandoned"}
    /\ End(g)

\* An abort drops a suspended task, with the message it was sending.
Killed(g) ==
    /\ g \in aborted
    /\ pc[g] \in Suspended
    /\ End(g)

-----------------------------------------------------------------------------
(* The task: run_tunnel.  Its select! is biased: the token, then the frames *)
(* of the manager, then those of 1C.                                        *)

PollToken(g) == Goto(g, "pump", IF g \in cancelled THEN "closing" ELSE "poll_in")

\* sink.close may never finish; only an abort ends it then.
Close(g) == pc[g] = "closing" /\ End(g)

TakeIncoming(g) ==
    /\ inbox[g] > 0
    /\ Advance(g, "poll_in", "dispatch")
    /\ inbox' = [inbox EXCEPT ![g] = @ - 1]
    /\ UNCHANGED <<callerVars, broken, outVars, tryVars, hostVars, viewVars>>

\* Mutant: the run connects again without telling 1C.
LinkEndsSilently(g) ==
    inbox[g] = 0 /\ broken[g] /\ Goto(g, "poll_in", "backoff")

LinkEnds(g) ==
    inbox[g] = 0 /\ broken[g] /\ Goto(g, "poll_in", "say_disconnected")

NothingIncoming(g) ==
    inbox[g] = 0 /\ ~broken[g] /\ Goto(g, "poll_in", "poll_out")

\* Mutant: frames that are there are read on without a look at the token.
DispatchAll(g) == Raise(g, "dispatch", "poll_in", told[g])

\* WS_INCOMING; it tells 1C nothing about the state.
Dispatch(g) == Raise(g, "dispatch", "pump", told[g])

TakeOutgoing(g) ==
    /\ outq[g] # <<>>
    /\ Advance(g, "poll_out", "sending")
    /\ flying' = [flying EXCEPT ![g] = Head(outq[g])]
    /\ outq' = [outq EXCEPT ![g] = Tail(@)]
    /\ UNCHANGED <<callerVars, linkVars, accepted, tried, tryVars, hostVars, viewVars>>

\* recv on an empty queue: the handle and its sender may be gone, although the
\* token was not cancelled when this round looked at it.
NothingOutgoing(g) ==
    outq[g] = <<>> /\ Goto(g, "poll_out", IF handle = g THEN "pump" ELSE "say_abandoned")

Sent(g) ==
    /\ Advance(g, "sending", "pump")
    /\ tried' = [tried EXCEPT ![g] = Append(@, flying[g])]
    /\ flying' = [flying EXCEPT ![g] = 0]
    /\ UNCHANGED <<callerVars, linkVars, accepted, outq, tryVars, hostVars, viewVars>>

\* Mutant: a message whose send failed is queued again.
SendFailsRequeued(g) ==
    /\ Advance(g, "sending", "say_disconnected")
    /\ outq' = [outq EXCEPT ![g] = Append(@, flying[g])]
    /\ flying' = [flying EXCEPT ![g] = 0]
    /\ UNCHANGED <<callerVars, linkVars, accepted, tried, tryVars, hostVars, viewVars>>

\* The message is gone; the manager may have got it all the same.
SendFails(g) ==
    /\ Advance(g, "sending", "say_disconnected")
    /\ tried' = [tried EXCEPT ![g] = Append(@, flying[g])]
    /\ flying' = [flying EXCEPT ![g] = 0]
    /\ UNCHANGED <<callerVars, linkVars, accepted, outq, tryVars, hostVars, viewVars>>

-----------------------------------------------------------------------------
(* The session manager and the network.                                    *)

FrameArrives(g) ==
    /\ pc[g] \in Pumping \cup {"say_connected"}
    /\ ~broken[g]
    /\ inbox[g] < MaxIn
    /\ inbox' = [inbox EXCEPT ![g] = @ + 1]
    /\ UNCHANGED <<callerVars, pc, broken, outVars, tryVars, hostVars, viewVars>>

LinkBreaks(g) ==
    /\ pc[g] \in Pumping \cup {"say_connected"}
    /\ ~broken[g]
    /\ broken' = [broken EXCEPT ![g] = TRUE]
    /\ UNCHANGED <<callerVars, pc, inbox, outVars, tryVars, hostVars, viewVars>>

-----------------------------------------------------------------------------
\* Steps that wait for nobody: the runtime polls the task, sleeps end, and the
\* platform answers external_event.
TaskStep(g) ==
    \/ LoopTop(g) \/ LoopCancelled(g) \/ Retry(g) \/ AfterFailure(g) \/ Return(g) \/ Killed(g)
    \/ SayConnecting(g) \/ SayConnected(g) \/ SayDisconnected(g) \/ SayFailed(g)
    \/ SayGiveUp(g) \/ SayAbandoned(g)
    \/ PollConnect(g) \/ ConnectPends(g)
    \/ PollToken(g) \/ TakeIncoming(g) \/ LinkEnds(g) \/ NothingIncoming(g)
    \/ Dispatch(g) \/ TakeOutgoing(g) \/ NothingOutgoing(g)
    \/ Rest(g)

\* Steps that wait for the network.
NetworkStep(g) ==
    \/ Connected(g) \/ ConnectFails(g) \/ Sent(g) \/ SendFails(g) \/ Close(g)
    \/ FrameArrives(g) \/ LinkBreaks(g)

Next ==
    \/ BeginStop
    \/ BeginStart
    \/ FinishDrop
    \/ Spawn
    \/ StartFails
    \/ Send
    \/ \E g \in Runs : TaskStep(g) \/ NetworkStep(g)

Spec == Init /\ [][Next]_vars

\* The network owes nothing: a connect, a send or a close may take for ever.
FairSpec == Spec /\ WF_vars(FinishDrop) /\ \A g \in Runs : WF_vars(TaskStep(g))

-----------------------------------------------------------------------------
(* Properties.                                                             *)

States == {"connecting", "connected", "disconnected", "give_up"}

TypeOK ==
    /\ caller \in {"idle", "stop", "restart", "start"}
    /\ handle \in 0..MaxRuns
    /\ runs \in 0..MaxRuns
    /\ cancelled \in SUBSET Runs
    /\ aborted \in SUBSET Runs
    /\ pc \in [Runs -> Suspended \cup Running \cup {"none", "ended"}]
    /\ limit \in Limits
    /\ attempt \in [Runs -> 0..(MaxFailures + 1)]
    /\ failures \in [Runs -> 0..MaxFailures]
    /\ inbox \in [Runs -> 0..MaxIn]
    /\ broken \in [Runs -> BOOLEAN]
    /\ accepted \in [Runs -> 0..MaxOut]
    /\ flying \in [Runs -> 0..MaxOut]
    /\ quiet \in [Runs -> BOOLEAN]
    /\ refused \in [Runs -> 0..(MaxAttempts - 1)]
    /\ outq \in [Runs -> Seq(1..MaxOut)]
    /\ tried \in [Runs -> Seq(0..MaxOut)]
    /\ told \in [Runs -> States \cup {"none"}]
    /\ missed \in [Runs -> BOOLEAN]
    /\ stale \in [Runs -> Nat]
    /\ zombie \in BOOLEAN

\* The messages of a run in the order in which they leave it.
Outgoing(g) ==
    tried[g] \o (IF flying[g] = 0 THEN <<>> ELSE <<flying[g]>>) \o outq[g]

\* Every message that session.send accepted is given to a connection exactly once
\* and in 1C's order, across any number of broken connections: what waits while
\* the link is down goes out on the next one, and only a failing sink.send loses
\* or doubts a message.
SentOnceInOrder ==
    \A g \in Runs : pc[g] # "ended" => Outgoing(g) = [n \in 1..accepted[g] |-> n]

\* What 1C was last told about the connection is true, unless the platform
\* refused to tell it.
ViewAgrees ==
    \A g \in Runs : ~missed[g] =>
        /\ pc[g] \in Pumping \cup {"closing"} => told[g] = "connected"
        /\ pc[g] \in {"connecting", "connect"} => told[g] = "connecting"
        /\ pc[g] \in {"backoff", "failed", "abandoned"} => told[g] = "disconnected"

\* A run gives up only under a limit, after exactly that many failures in a row.
GiveUpOnlyAtLimit ==
    \A g \in Runs :
        pc[g] \in {"say_give_up", "given_up"} => limit # 0 /\ failures[g] = limit

\* After session.stop has returned, the run it dropped raises at most one more
\* event in 1C, the one it was busy with.
AtMostOneStale == \A g \in Runs : stale[g] <= 1

\* No run is left to itself: all but the one that the component holds are aborted,
\* whichever of stop and start came in between.
NoOrphan == \A g \in 1..runs : g = handle \/ g \in aborted

\* session.start promises that a new run starts on a clean state and not on top
\* of a zombie task: no event of an earlier run comes after it has started.
NoZombie == ~zombie

\* A dropped run ends, even if its connect, its send or its close hangs.
DroppedRunEnds ==
    \A g \in Runs : g <= runs /\ handle # g ~> pc[g] = "ended"

\* A run that fails to connect, or loses its connection, tries again until it is
\* dropped or has reached the limit of its policy.
KeepsTrying ==
    \A g \in Runs :
        pc[g] \in {"say_failed", "say_disconnected"} ~>
            \/ pc[g] = "connecting"
            \/ handle # g
            \/ limit # 0 /\ pc[g] = "given_up"
=============================================================================
