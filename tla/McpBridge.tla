------------------------------ MODULE McpBridge ------------------------------
(***************************************************************************)
(* The request bridge of the MCP component (src/mcp/server.rs and          *)
(* src/mcp/addin.rs): an MCP client's call becomes a numbered event for    *)
(* 1C, and the handler waits until 1C answers that number, the server is   *)
(* stopped, or the response timeout elapses.                               *)
(*                                                                         *)
(* Three kinds of actor run concurrently: one async handler per request    *)
(* (rmcp spawns it, so a client that disconnects does not drop it), the    *)
(* tokio timer of each handler, and the single 1C thread, whose calls      *)
(* block until they return.  A step is what a handler does between two     *)
(* awaits, or one critical section of a call.                              *)
(***************************************************************************)
EXTENDS Naturals, FiniteSets

CONSTANTS
    Requests,   \* calls of MCP clients; each is made once
    Tokens,     \* progress tokens that clients put in a call
    Bodies,     \* what 1C may answer: (status, body) pairs
    NoToken,    \* a call without a progress token
    NoBody,     \* 1C has not had an answer accepted
    NoReply,    \* the oneshot channel carries nothing
    NoRequest,  \* the response map has no entry
    MaxId,      \* bound: numbers handed out by request_counter
    MaxGen      \* bound: successful starts of the server

ASSUME ConstantsAssumption ==
    /\ NoToken \notin Tokens
    /\ NoBody \notin Bodies
    /\ NoRequest \notin Requests
    /\ NoReply \notin (1..MaxId) \X Bodies
    /\ MaxId \in Nat
    /\ MaxGen \in Nat

VARIABLES
    server,   \* McpAddIn.server: "down", "up", or "closing" inside mcp_stop
    gen,      \* which server instance is the latest one started
    nextId,   \* request_counter: shared by requests and tasks, never reset
    waiters,  \* response_map: id -> whose oneshot sender it holds
    resets,   \* progress_resets: requests with a reset sender registered
    emitted,  \* ids whose event the platform accepted
    acked,    \* id -> the body for which mcp_send_response returned True
    pc,       \* where each handler is
    rid,      \* request_id of each handler (0: none yet)
    token,    \* progress token of each call
    born,     \* server instance that accepted each call
    chan,     \* oneshot channel: "none", "open", "sent", "closed", "dropped"
    got,      \* value in, or taken from, the channel
    resetq,   \* a progress signal is in the capacity-1 reset channel
    elapsed,  \* the current response_timeout sleep has run out
    outcome   \* what the handler returns

addinVars == <<server, gen>>
mapVars   == <<waiters, resets>>
eventVars == <<emitted, acked>>
callVars  == <<rid, token, born>>
waitVars  == <<chan, got, resetq, elapsed>>
handlerVars == <<pc, callVars, waitVars, outcome>>
vars == <<addinVars, nextId, mapVars, eventVars, handlerVars>>

Ids      == 1..MaxId
Replies  == Ids \X Bodies
Errors   == {"refused", "closed", "timeout"}
Outcomes == {"none", "reply"} \cup Errors
Stages   == {"idle", "accepted", "numbered", "inserted", "registered",
             "waiting", "removing", "unregistering", "done"}

\* McpAddIn::default starts the counter at 1.  Mutant: at 0.
ZeroBased == 0
FirstId == 1

Init ==
    /\ server = "down"
    /\ gen = 0
    /\ nextId = FirstId
    /\ waiters = [i \in Ids |-> NoRequest]
    /\ resets = {}
    /\ emitted = {}
    /\ acked = [i \in Ids |-> NoBody]
    /\ pc = [r \in Requests |-> "idle"]
    /\ rid = [r \in Requests |-> 0]
    /\ token = [r \in Requests |-> NoToken]
    /\ born = [r \in Requests |-> 0]
    /\ chan = [r \in Requests |-> "none"]
    /\ got = [r \in Requests |-> NoReply]
    /\ resetq = [r \in Requests |-> FALSE]
    /\ elapsed = [r \in Requests |-> FALSE]
    /\ outcome = [r \in Requests |-> "none"]

Advance(r, from, to) == pc[r] = from /\ pc' = [pc EXCEPT ![r] = to]

\* Dropping a oneshot sender that has not sent closes its channel.
CloseSenders(R) ==
    chan' = [r \in Requests |->
                IF r \in R /\ chan[r] = "open" THEN "closed" ELSE chan[r]]

-----------------------------------------------------------------------------
(* The handler: dispatch_request and the two wait functions.               *)

\* Calls that still take a number.
Unnumbered == {r \in Requests : pc[r] = "accepted"}

\* rmcp hands a tools/call, resources/read or prompts/get to a handler of the
\* running server.  While mcp_stop has cleared the map but not yet signalled
\* the shutdown, the listener still accepts.  (Bound: as long as there is a
\* number left for each call that was accepted.)
Accept(r, t) ==
    /\ server \in {"up", "closing"}
    /\ Cardinality(Unnumbered) <= MaxId - nextId
    /\ Advance(r, "idle", "accepted")
    /\ token' = [token EXCEPT ![r] = t]
    /\ born' = [born EXCEPT ![r] = gen]
    /\ UNCHANGED <<addinVars, nextId, mapVars, eventVars, rid, waitVars, outcome>>

TakeId(r) ==
    /\ nextId \in Ids
    /\ Advance(r, "accepted", "numbered")
    /\ rid' = [rid EXCEPT ![r] = nextId]
    /\ nextId' = nextId + 1
    /\ UNCHANGED <<addinVars, mapVars, eventVars, token, born, waitVars, outcome>>

\* HashMap::insert drops a sender already stored under the key.
InsertWaiter(r) ==
    /\ Advance(r, "numbered", "inserted")
    /\ waiters' = [waiters EXCEPT ![rid[r]] = r]
    /\ chan' = [q \in Requests |->
                   IF q = r THEN "open"
                   ELSE IF q = waiters[rid[r]] /\ chan[q] = "open" THEN "closed"
                   ELSE chan[q]]
    /\ UNCHANGED <<addinVars, nextId, resets, eventVars, callVars, got, resetq, elapsed, outcome>>

RegisterReset(r) ==
    /\ Advance(r, "inserted", "registered")
    /\ resets' = IF token[r] = NoToken THEN resets ELSE resets \cup {r}
    /\ UNCHANGED <<addinVars, nextId, waiters, eventVars, callVars, waitVars, outcome>>

Emit(r) ==
    /\ Advance(r, "registered", "waiting")
    /\ emitted' = emitted \cup {rid[r]}
    /\ UNCHANGED <<addinVars, nextId, mapVars, acked, callVars, waitVars, outcome>>

\* Mutant: the event is accepted, yet taken for refused.
EmitMisjudged(r) ==
    /\ Advance(r, "registered", "removing")
    /\ outcome' = [outcome EXCEPT ![r] = "refused"]
    /\ emitted' = emitted \cup {rid[r]}
    /\ UNCHANGED <<addinVars, nextId, mapVars, acked, callVars, waitVars>>

\* No connection, or the event queue of the platform is full.
EmitFails(r) ==
    /\ Advance(r, "registered", "removing")
    /\ outcome' = [outcome EXCEPT ![r] = "refused"]
    /\ UNCHANGED <<addinVars, nextId, mapVars, eventVars, callVars, waitVars>>

ReceiveReply(r) ==
    /\ Advance(r, "waiting", "unregistering")
    /\ chan[r] = "sent"
    /\ chan' = [chan EXCEPT ![r] = "dropped"]
    /\ outcome' = [outcome EXCEPT ![r] = "reply"]
    /\ UNCHANGED <<addinVars, nextId, mapVars, eventVars, callVars, got, resetq, elapsed>>

FailClosed(r) ==
    /\ Advance(r, "waiting", "removing")
    /\ chan[r] = "closed"
    /\ outcome' = [outcome EXCEPT ![r] = "closed"]
    /\ UNCHANGED <<addinVars, nextId, mapVars, eventVars, callVars, waitVars>>

\* Mutant: only the loop without a progress channel notices the closing.
ReceiveClosedPlain(r) == token[r] = NoToken /\ FailClosed(r)

ReceiveClosed(r) == FailClosed(r)

\* A progress signal ends this round of the select!; the next round sleeps
\* for a whole response_timeout again.
ReceiveReset(r) ==
    /\ pc[r] = "waiting"
    /\ resetq[r]
    /\ resetq' = [resetq EXCEPT ![r] = FALSE]
    /\ elapsed' = [elapsed EXCEPT ![r] = FALSE]
    /\ UNCHANGED <<addinVars, nextId, mapVars, eventVars, pc, callVars, chan, got, outcome>>

TimerElapses(r) ==
    /\ pc[r] = "waiting"
    /\ ~elapsed[r]
    /\ elapsed' = [elapsed EXCEPT ![r] = TRUE]
    /\ UNCHANGED <<addinVars, nextId, mapVars, eventVars, pc, callVars, chan, got, resetq, outcome>>

FailTimeout(r) ==
    /\ Advance(r, "waiting", "removing")
    /\ chan' = [chan EXCEPT ![r] = IF token[r] = NoToken THEN "dropped" ELSE @]
    /\ outcome' = [outcome EXCEPT ![r] = "timeout"]
    /\ UNCHANGED <<addinVars, nextId, mapVars, eventVars, callVars, got, resetq, elapsed>>

\* Mutant: a call with a progress token has no timeout.
TimeoutPlain(r) == elapsed[r] /\ token[r] = NoToken /\ FailTimeout(r)

\* The timer branch may win although an answer or a progress signal is there:
\* select! polls its branches in random order, and timeout() polls the channel
\* before the timer, so an answer can come between the two polls.  Without a
\* token the receiver dies with the timeout future, before the map is locked;
\* with one it lives until the handler returns.
Timeout(r) == elapsed[r] /\ FailTimeout(r)

\* Mutant: the entry stays in the map.
RemoveNothing(r) ==
    /\ Advance(r, "removing", "unregistering")
    /\ UNCHANGED <<addinVars, nextId, mapVars, eventVars, callVars, waitVars, outcome>>

RemoveWaiter(r) ==
    /\ Advance(r, "removing", "unregistering")
    /\ waiters' = [waiters EXCEPT ![rid[r]] = NoRequest]
    /\ CloseSenders({waiters[rid[r]]})
    /\ UNCHANGED <<addinVars, nextId, resets, eventVars, callVars, got, resetq, elapsed, outcome>>

\* The last step: everything the handler owned is dropped on return.
Unregister(r) ==
    /\ Advance(r, "unregistering", "done")
    /\ resets' = resets \ {r}
    /\ chan' = [chan EXCEPT ![r] = "dropped"]
    /\ resetq' = [resetq EXCEPT ![r] = FALSE]
    /\ UNCHANGED <<addinVars, nextId, waiters, eventVars, callVars, got, elapsed, outcome>>

\* create_task_entry numbers tasks from the same counter.  (Bound: the model
\* keeps a number for each call that was accepted.)
TakeTaskId ==
    /\ server \in {"up", "closing"}
    /\ nextId \in Ids
    /\ Cardinality(Unnumbered) <= MaxId - nextId
    /\ nextId' = nextId + 1
    /\ UNCHANGED <<addinVars, mapVars, eventVars, handlerVars>>

-----------------------------------------------------------------------------
(* The 1C thread.                                                          *)

\* Mutant: every start numbers from the beginning.
StartRenumbers ==
    /\ server = "down"
    /\ gen < MaxGen
    /\ server' = "up"
    /\ gen' = gen + 1
    /\ nextId' = FirstId
    /\ UNCHANGED <<mapVars, eventVars, handlerVars>>

Start ==
    /\ server = "down"
    /\ gen < MaxGen
    /\ server' = "up"
    /\ gen' = gen + 1
    /\ UNCHANGED <<nextId, mapVars, eventVars, handlerVars>>

\* mcp_stop takes the server and clears the map under its lock ...
StopClear ==
    /\ server = "up"
    /\ server' = "closing"
    /\ waiters' = [i \in Ids |-> NoRequest]
    /\ CloseSenders({waiters[i] : i \in Ids})
    /\ UNCHANGED <<gen, nextId, resets, eventVars, pc, callVars, got, resetq, elapsed, outcome>>

\* ... and then signals the graceful shutdown, which waits for nobody.
StopShutdown ==
    /\ server = "closing"
    /\ server' = "down"
    /\ UNCHANGED <<gen, nextId, mapVars, eventVars, handlerVars>>

\* Mutant: the answer goes to whoever waits, under the number 1C gave.
SendToAnyone(i, b) ==
    /\ server = "up"
    /\ i \in emitted
    /\ \E k \in Ids :
          /\ waiters[k] # NoRequest
          /\ chan[waiters[k]] = "open"
          /\ waiters' = [waiters EXCEPT ![k] = NoRequest]
          /\ chan' = [chan EXCEPT ![waiters[k]] = "sent"]
          /\ got' = [got EXCEPT ![waiters[k]] = <<i, b>>]
          /\ acked' = [acked EXCEPT ![i] = b]
    /\ UNCHANGED <<addinVars, nextId, resets, emitted, pc, callVars, resetq, elapsed, outcome>>

\* mcp_send_response for an id that came with an event, now or long ago, for
\* the first time or again.  An id without an entry is an error and changes
\* nothing.  Under the lock of the map the sender is removed and used; a
\* receiver that is gone makes send fail.
SendResponse(i, b) ==
    /\ server = "up"
    /\ i \in emitted
    /\ waiters[i] # NoRequest
    /\ waiters' = [waiters EXCEPT ![i] = NoRequest]
    /\ IF chan[waiters[i]] = "open"
       THEN /\ chan' = [chan EXCEPT ![waiters[i]] = "sent"]
            /\ got' = [got EXCEPT ![waiters[i]] = <<i, b>>]
            /\ acked' = [acked EXCEPT ![i] = b]
       ELSE UNCHANGED <<chan, got, acked>>
    /\ UNCHANGED <<addinVars, nextId, resets, emitted, pc, callVars, resetq, elapsed, outcome>>

\* mcp_notify_progress: try_send to every handler that registered the token
\* with the running server instance; a full channel keeps its one signal.
NotifyProgress(t) ==
    /\ server = "up"
    /\ resetq' = [r \in Requests |->
                     resetq[r] \/ (r \in resets /\ token[r] = t /\ born[r] = gen)]
    /\ UNCHANGED <<addinVars, nextId, mapVars, eventVars, pc, callVars, chan, got, elapsed, outcome>>

-----------------------------------------------------------------------------
\* What a handler does by itself once it is scheduled.
HandlerStep(r) ==
    \/ TakeId(r)
    \/ InsertWaiter(r)
    \/ RegisterReset(r)
    \/ Emit(r)
    \/ EmitFails(r)
    \/ ReceiveReply(r)
    \/ ReceiveClosed(r)
    \/ ReceiveReset(r)
    \/ Timeout(r)
    \/ RemoveWaiter(r)
    \/ Unregister(r)

Next ==
    \/ \E r \in Requests, t \in Tokens \cup {NoToken} : Accept(r, t)
    \/ \E r \in Requests : HandlerStep(r)
    \/ \E r \in Requests : TimerElapses(r)
    \/ TakeTaskId
    \/ Start
    \/ StopClear
    \/ StopShutdown
    \/ \E i \in Ids, b \in Bodies : SendResponse(i, b)
    \/ \E t \in Tokens : NotifyProgress(t)

Spec == Init /\ [][Next]_vars

\* The runtime keeps polling a handler that is ready, select! does not prefer
\* the progress branch for ever (its order is random), and the 1C thread returns
\* from mcp_stop; nothing obliges 1C to answer.
HandlerFairness ==
    /\ \A r \in Requests : /\ WF_vars(HandlerStep(r))
                           /\ WF_vars(ReceiveReply(r) \/ ReceiveClosed(r))
    /\ WF_vars(StopShutdown)

\* A sleep ends.
TimerFairness == \A r \in Requests : WF_vars(TimerElapses(r))

FairSpec == Spec /\ HandlerFairness

-----------------------------------------------------------------------------
(* Properties.                                                             *)

TypeOK ==
    /\ server \in {"down", "up", "closing"}
    /\ gen \in 0..MaxGen
    /\ nextId \in 1..(MaxId + 1)
    /\ waiters \in [Ids -> Requests \cup {NoRequest}]
    /\ resets \in SUBSET Requests
    /\ emitted \in SUBSET Ids
    /\ acked \in [Ids -> Bodies \cup {NoBody}]
    /\ pc \in [Requests -> Stages]
    /\ rid \in [Requests -> 0..MaxId]
    /\ token \in [Requests -> Tokens \cup {NoToken}]
    /\ born \in [Requests -> 0..MaxGen]
    /\ chan \in [Requests -> {"none", "open", "sent", "closed", "dropped"}]
    /\ got \in [Requests -> Replies \cup {NoReply}]
    /\ resetq \in [Requests -> BOOLEAN]
    /\ elapsed \in [Requests -> BOOLEAN]
    /\ outcome \in [Requests -> Outcomes]

\* A call that returns an answer returns the one 1C gave for its own number,
\* and gave successfully; no restart, late answer or second answer mixes up two
\* calls (response_map is keyed by a counter that no restart resets).
Correlated ==
    \A r \in Requests :
        outcome[r] = "reply" =>
            \E b \in Bodies : got[r] = <<rid[r], b>> /\ acked[rid[r]] = b

\* The response map and the progress map hold entries of running handlers only:
\* a handler that has returned, by any path, left nothing behind.
NoLeak ==
    \A r \in Requests : pc[r] \in {"idle", "done"} =>
        /\ r \notin resets
        /\ \A i \in Ids : waiters[i] # r

\* From the moment 1C can see a call's event until the handler gives up or is
\* answered or released, 1C's answer finds the handler's sender in the map.
Reachable ==
    \A r \in Requests :
        /\ rid[r] \in emitted
        /\ pc[r] \notin {"removing", "unregistering", "done"}
        /\ chan[r] \notin {"sent", "closed"}
        => waiters[rid[r]] = r

\* As long as sleeps end, every call that was accepted ends, unless 1C keeps
\* signalling its progress.
EveryCallEnds ==
    TimerFairness => \A r \in Requests :
        pc[r] \notin {"idle", "done"} ~> (pc[r] = "done" \/ resetq[r])

\* A call whose sender is no longer in the map ends without its timer: answered
\* calls return the answer, and a stop releases all calls that wait.
AnswerOrStopReleases ==
    \A r \in Requests :
        pc[r] = "waiting" /\ waiters[rid[r]] # r ~> pc[r] = "done"

Phase(r)  == IF pc[r] = "idle" THEN "new" ELSE IF pc[r] = "done" THEN "ended" ELSE "open"
Result(r) == IF pc[r] = "done" THEN outcome[r] ELSE "none"

\* The bridge implements the abstract exchange: one answer per call, the first
\* accepted one, and every error but the timeout says that none was accepted.
Abstract == INSTANCE RequestReply WITH
    Calls    <- Requests,
    Answers  <- Replies,
    NoAnswer <- NoReply,
    phase    <- [r \in Requests |-> Phase(r)],
    answer   <- got,
    result   <- [r \in Requests |-> Result(r)]

ImplementsRequestReply == Abstract!Spec
=============================================================================
