------------------------------ MODULE HttpBridge ------------------------------
(***************************************************************************)
(* Requests of the HTTP component (src/http/server.rs): like the MCP       *)
(* bridge, a request becomes an event for 1C and waits for its answer, but *)
(* each started server has a response map of its own, the timeout is not   *)
(* renewed, and the handler runs inside the connection's future: a client  *)
(* that disconnects drops the handler where it is suspended.               *)
(*                                                                         *)
(* Requests that never reach 1C (OPTIONS, GET /, an unreadable body) are    *)
(* left out.                                                               *)
(***************************************************************************)
EXTENDS Naturals, FiniteSets

CONSTANTS
    Requests,   \* requests that reach handle_http_request with their body read
    Answers,    \* (status, headers, body) triples that http_send_response accepts
    NoAnswer,
    NoRequest,  \* a response map has no entry
    MaxGen      \* bound: successful starts of the server

ASSUME ConstantsAssumption ==
    /\ NoRequest \notin Requests
    /\ NoAnswer \notin Requests \X Answers
    /\ IsFiniteSet(Requests)
    /\ MaxGen \in Nat

VARIABLES
    server,   \* HttpAddIn.http_server: "down", "up", "closing" inside http_stop
    gen,      \* the latest server instance
    born,     \* instance that accepted each request
    pc,       \* where each handler is
    nextId,   \* http_request_counter: shared by all instances, never reset
    rid,      \* id of each request (0: none yet)
    waiters,  \* response_map of each instance: id -> whose sender it holds
    emitted,  \* requests whose event the platform accepted
    chan,     \* oneshot channel: "none", "open", "sent", "closed", "dropped"
    got,      \* <<event, answer>> for which http_send_response returned True
    elapsed,  \* the 30 s sleep has run out
    outcome   \* what the client gets

serverVars == <<server, gen, nextId>>
callVars   == <<born, rid>>
vars == <<serverVars, callVars, pc, waiters, emitted, chan, got, elapsed, outcome>>

Ids == 1..Cardinality(Requests)
Replies == Requests \X Answers

\* HttpAddIn::default starts the counter at 1.
FirstId == 1

Init ==
    /\ server = "down"
    /\ gen = 0
    /\ born = [r \in Requests |-> 0]
    /\ pc = [r \in Requests |-> "idle"]
    /\ nextId = FirstId
    /\ rid = [r \in Requests |-> 0]
    /\ waiters = [g \in 1..MaxGen |-> [i \in Ids |-> NoRequest]]
    /\ emitted = {}
    /\ chan = [r \in Requests |-> "none"]
    /\ got = [r \in Requests |-> NoAnswer]
    /\ elapsed = [r \in Requests |-> FALSE]
    /\ outcome = [r \in Requests |-> "none"]

Advance(r, from, to) == pc[r] = from /\ pc' = [pc EXCEPT ![r] = to]

\* A sender dropped unused closes its channel.
CloseIfOpen(R) ==
    chan' = [r \in Requests |->
                IF r \in R /\ chan[r] = "open" THEN "closed" ELSE chan[r]]

-----------------------------------------------------------------------------
(* The handler.                                                            *)

Accept(r) ==
    /\ server \in {"up", "closing"}
    /\ Advance(r, "idle", "accepted")
    /\ born' = [born EXCEPT ![r] = gen]
    /\ UNCHANGED <<serverVars, rid, waiters, emitted, chan, got, elapsed, outcome>>

TakeId(r) ==
    /\ Advance(r, "accepted", "numbered")
    /\ rid' = [rid EXCEPT ![r] = nextId]
    /\ nextId' = nextId + 1
    /\ UNCHANGED <<server, gen, born, waiters, emitted, chan, got, elapsed, outcome>>

Insert(r) ==
    /\ Advance(r, "numbered", "inserted")
    /\ waiters' = [waiters EXCEPT ![born[r]][rid[r]] = r]
    /\ chan' = [q \in Requests |->
                   IF q = r THEN "open"
                   ELSE IF q = waiters[born[r]][rid[r]] /\ chan[q] = "open" THEN "closed"
                   ELSE chan[q]]
    /\ UNCHANGED <<serverVars, callVars, emitted, got, elapsed, outcome>>

Emit(r) ==
    /\ Advance(r, "inserted", "waiting")
    /\ emitted' = emitted \cup {r}
    /\ UNCHANGED <<serverVars, callVars, waiters, chan, got, elapsed, outcome>>

\* Mutant: the event is accepted, yet taken for refused.
EmitMisjudged(r) ==
    /\ Advance(r, "inserted", "removing")
    /\ emitted' = emitted \cup {r}
    /\ outcome' = [outcome EXCEPT ![r] = "refused"]
    /\ UNCHANGED <<serverVars, callVars, waiters, chan, got, elapsed>>

\* 503: no connection to 1C, or its event queue is full.
EmitFails(r) ==
    /\ Advance(r, "inserted", "removing")
    /\ outcome' = [outcome EXCEPT ![r] = "refused"]
    /\ UNCHANGED <<serverVars, callVars, waiters, emitted, chan, got, elapsed>>

ReceiveReply(r) ==
    /\ chan[r] = "sent"
    /\ Advance(r, "waiting", "done")
    /\ chan' = [chan EXCEPT ![r] = "dropped"]
    /\ outcome' = [outcome EXCEPT ![r] = "reply"]
    /\ UNCHANGED <<serverVars, callVars, waiters, emitted, got, elapsed>>

\* 500: the sender was dropped with the map.
ReceiveClosed(r) ==
    /\ chan[r] = "closed"
    /\ Advance(r, "waiting", "done")
    /\ outcome' = [outcome EXCEPT ![r] = "closed"]
    /\ UNCHANGED <<serverVars, callVars, waiters, emitted, chan, got, elapsed>>

TimerElapses(r) ==
    /\ pc[r] = "waiting"
    /\ ~elapsed[r]
    /\ elapsed' = [elapsed EXCEPT ![r] = TRUE]
    /\ UNCHANGED <<serverVars, callVars, pc, waiters, emitted, chan, got, outcome>>

FailTimeout(r) ==
    /\ Advance(r, "waiting", "removing")
    /\ chan' = [chan EXCEPT ![r] = "dropped"]
    /\ outcome' = [outcome EXCEPT ![r] = "timeout"]
    /\ UNCHANGED <<serverVars, callVars, waiters, emitted, got, elapsed>>

\* Mutant: the timers stop with the server.
TimeoutOfRunning(r) == elapsed[r] /\ server = "up" /\ born[r] = gen /\ FailTimeout(r)

\* 504: an answer may come between the poll of the channel and the poll of the
\* timer; it dies with the receiver.
Timeout(r) == elapsed[r] /\ FailTimeout(r)

\* Mutant: the entry stays in the map.
RemoveNothing(r) ==
    /\ Advance(r, "removing", "done")
    /\ chan' = [chan EXCEPT ![r] = "dropped"]
    /\ UNCHANGED <<serverVars, callVars, waiters, emitted, got, elapsed, outcome>>

Remove(r) ==
    /\ Advance(r, "removing", "done")
    /\ waiters' = [waiters EXCEPT ![born[r]][rid[r]] = NoRequest]
    /\ chan' = [chan EXCEPT ![r] = "dropped"]
    /\ UNCHANGED <<serverVars, callVars, emitted, got, elapsed, outcome>>

\* The client goes away while the handler is suspended: in the wait, or for the
\* lock of the map.  Nobody removes its entry.
ClientLeaves(r) ==
    /\ pc[r] \in {"accepted", "numbered", "waiting", "removing"}
    /\ pc' = [pc EXCEPT ![r] = "left"]
    /\ chan' = [chan EXCEPT ![r] = "dropped"]
    /\ UNCHANGED <<serverVars, callVars, waiters, emitted, got, elapsed, outcome>>

-----------------------------------------------------------------------------
(* The 1C thread.                                                          *)

\* Mutant: every start numbers from the beginning.
StartRenumbers ==
    /\ server = "down"
    /\ gen < MaxGen
    /\ server' = "up"
    /\ gen' = gen + 1
    /\ nextId' = FirstId
    /\ UNCHANGED <<callVars, pc, waiters, emitted, chan, got, elapsed, outcome>>

Start ==
    /\ server = "down"
    /\ gen < MaxGen
    /\ server' = "up"
    /\ gen' = gen + 1
    /\ UNCHANGED <<nextId, callVars, pc, waiters, emitted, chan, got, elapsed, outcome>>

\* Mutant: the map is swapped for an empty one and kept alive.
StopSwapsMap ==
    /\ server = "up"
    /\ server' = "closing"
    /\ waiters' = [waiters EXCEPT ![gen] = [i \in Ids |-> NoRequest]]
    /\ UNCHANGED <<gen, nextId, callVars, pc, emitted, chan, got, elapsed, outcome>>

StopClear ==
    /\ server = "up"
    /\ server' = "closing"
    /\ waiters' = [waiters EXCEPT ![gen] = [i \in Ids |-> NoRequest]]
    /\ CloseIfOpen({waiters[gen][i] : i \in Ids})
    /\ UNCHANGED <<gen, nextId, callVars, pc, emitted, got, elapsed, outcome>>

StopShutdown ==
    /\ server = "closing"
    /\ server' = "down"
    /\ UNCHANGED <<gen, nextId, callVars, pc, waiters, emitted, chan, got, elapsed, outcome>>

\* http_send_response for the id in the event of r looks in the map of the
\* running instance only; an id that is not there is an error.
SendResponse(r, a) ==
    /\ server = "up"
    /\ r \in emitted
    /\ LET w == waiters[gen][rid[r]] IN
          /\ w # NoRequest
          /\ waiters' = [waiters EXCEPT ![gen][rid[r]] = NoRequest]
          /\ IF chan[w] = "open"
             THEN /\ chan' = [chan EXCEPT ![w] = "sent"]
                  /\ got' = [got EXCEPT ![w] = <<r, a>>]
             ELSE UNCHANGED <<chan, got>>
    /\ UNCHANGED <<serverVars, callVars, pc, emitted, elapsed, outcome>>

-----------------------------------------------------------------------------
HandlerStep(r) ==
    \/ TakeId(r)
    \/ Insert(r)
    \/ Emit(r)
    \/ EmitFails(r)
    \/ ReceiveReply(r)
    \/ ReceiveClosed(r)
    \/ Timeout(r)
    \/ Remove(r)

Next ==
    \/ \E r \in Requests :
          \/ Accept(r)
          \/ HandlerStep(r)
          \/ TimerElapses(r)
          \/ ClientLeaves(r)
          \/ \E a \in Answers : SendResponse(r, a)
    \/ Start
    \/ StopClear
    \/ StopShutdown

Spec == Init /\ [][Next]_vars

\* The runtime polls a handler that is ready and http_stop returns; nothing
\* obliges 1C to answer.
FairSpec ==
    /\ Spec
    /\ \A r \in Requests : WF_vars(HandlerStep(r))
    /\ WF_vars(StopShutdown)

\* A sleep ends.
TimerFairness == \A r \in Requests : WF_vars(TimerElapses(r))

-----------------------------------------------------------------------------
(* Properties.                                                             *)

TypeOK ==
    /\ server \in {"down", "up", "closing"}
    /\ gen \in 0..MaxGen
    /\ nextId \in 1..(Cardinality(Requests) + 1)
    /\ born \in [Requests -> 0..MaxGen]
    /\ rid \in [Requests -> 0..Cardinality(Requests)]
    /\ pc \in [Requests -> {"idle", "accepted", "numbered", "inserted", "waiting",
                            "removing", "done", "left"}]
    /\ waiters \in [1..MaxGen -> [Ids -> Requests \cup {NoRequest}]]
    /\ emitted \in SUBSET Requests
    /\ chan \in [Requests -> {"none", "open", "sent", "closed", "dropped"}]
    /\ got \in [Requests -> Replies \cup {NoAnswer}]
    /\ elapsed \in [Requests -> BOOLEAN]
    /\ outcome \in [Requests -> {"none", "reply", "refused", "closed", "timeout"}]

\* Requests that still have a sender in the map of some instance.
Entries == {waiters[g][i] : g \in 1..MaxGen, i \in Ids} \ {NoRequest}

\* A client gets the answer that 1C gave to the event of its own request, across
\* restarts, repeated answers and answers that come late.
Correlated ==
    \A r \in Requests : outcome[r] = "reply" => \E a \in Answers : got[r] = <<r, a>>

\* arc42 says that lost and overdue answers are removed from the waiting maps:
\* no entry outlives its handler.
LostAnswersRemoved ==
    \A r \in Entries : pc[r] \notin {"done", "left"}

\* What does hold: a handler that returns, by any path, leaves no entry, and so
\* does one whose client left after 1C answered.
NoLeak ==
    \A r \in Entries : pc[r] # "done" /\ got[r] = NoAnswer

\* As long as sleeps end, every request ends, whatever 1C does and whenever the
\* server is stopped, one that entered the map of a stopped server included.
EveryRequestEnds ==
    TimerFairness => \A r \in Requests :
        pc[r] = "accepted" ~> pc[r] \in {"done", "left"}

\* A request that 1C answered, or that was in the map when the server was
\* stopped, ends without its timer.
AnswerOrStopReleases ==
    \A r \in Requests :
        pc[r] = "waiting" /\ r \notin Entries ~> pc[r] \in {"done", "left"}

Phase(r) ==
    IF pc[r] = "idle" THEN "new" ELSE IF pc[r] \in {"done", "left"} THEN "ended" ELSE "open"

\* To 1C a client that left is no different from one that timed out: an answer it
\* gave may come to nothing.
Result(r) ==
    IF pc[r] = "left" THEN "timeout" ELSE IF pc[r] = "done" THEN outcome[r] ELSE "none"

\* The same abstract exchange as the MCP bridge: one answer, the first accepted
\* one; a 500 or 503 says that no answer was accepted.
Abstract == INSTANCE RequestReply WITH
    Calls    <- Requests,
    Answers  <- Replies,
    answer   <- got,
    phase    <- [r \in Requests |-> Phase(r)],
    result   <- [r \in Requests |-> Result(r)]

ImplementsRequestReply == Abstract!Spec
=============================================================================
