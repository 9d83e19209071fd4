------------------------------ MODULE SseSessions ------------------------------
(***************************************************************************)
(* SSE sessions of the HTTP component (src/http/server.rs): GET /sse opens *)
(* a stream fed by an unbounded channel whose sender sits in the session   *)
(* map under the sessionId of the query or, without one, a number from a   *)
(* counter.  1C feeds, closes and sweeps sessions from its own thread      *)
(* while handlers run; map and counter outlive the server.                 *)
(*                                                                         *)
(* Between two awaits a handler is not interrupted, but it runs in         *)
(* parallel with 1C, so each of its effects is a step.                     *)
(***************************************************************************)
EXTENDS Naturals, Sequences, FiniteSets, Functions

CONSTANTS
    Streams,    \* GET /sse requests
    NamedIds,   \* ids that clients ask for; they may look like numbers
    Agreed,     \* those of them that 1C uses without being told
    NoStream,   \* the session map has no entry
    MaxEvents,  \* bound: events that 1C sends
    MaxGen      \* bound: successful starts of the server

VARIABLES
    server,    \* HttpAddIn.http_server: "down", "up", "closing" inside http_stop
    gen,       \* successful starts
    nextId,    \* sse_session_counter, never reset
    sessions,  \* sse_sessions: id -> whose sender it holds
    pc,        \* where each handler, then its stream, is
    named,     \* the client asked for its id
    sid,       \* session id of each stream (0: none yet)
    queue,     \* the stream's channel
    seen,      \* what its client has received
    opened,    \* streams whose SSE_OPEN 1C has seen
    sent       \* events that sse_send accepted

serverVars  == <<server, gen, nextId>>
streamVars  == <<named, sid>>
channelVars == <<queue, seen>>
vars == <<serverVars, sessions, pc, streamVars, channelVars, opened, sent>>

\* Number 0 is no id; the counter starts at 1.
FirstId == 1

Ids == 1..(Cardinality(Streams) + 1) \cup NamedIds

ASSUME ConstantsAssumption ==
    /\ NoStream \notin Streams
    /\ IsFiniteSet(Streams)
    /\ NamedIds \subseteq Nat \ {0}
    /\ Agreed \subseteq NamedIds
    /\ MaxEvents \in Nat
    /\ MaxGen \in Nat

Endpoint == 0   \* the initial event; 1C's events are numbered from 1

Init ==
    /\ server = "down"
    /\ gen = 0
    /\ nextId = FirstId
    /\ sessions = [i \in Ids |-> NoStream]
    /\ pc = [k \in Streams |-> "idle"]
    /\ named = [k \in Streams |-> FALSE]
    /\ sid = [k \in Streams |-> 0]
    /\ queue = [k \in Streams |-> <<>>]
    /\ seen = [k \in Streams |-> <<>>]
    /\ opened = {}
    /\ sent = 0

Advance(k, from, to) == pc[k] = from /\ pc' = [pc EXCEPT ![k] = to]

-----------------------------------------------------------------------------
(* The handler of GET /sse.                                                *)

AcceptNamed(k, i) ==
    /\ server \in {"up", "closing"}
    /\ Advance(k, "idle", "accepted")
    /\ named' = [named EXCEPT ![k] = TRUE]
    /\ sid' = [sid EXCEPT ![k] = i]
    /\ UNCHANGED <<serverVars, sessions, channelVars, opened, sent>>

\* Mutant: the counter is read, not advanced.
AcceptPeek(k) ==
    /\ server \in {"up", "closing"}
    /\ Advance(k, "idle", "accepted")
    /\ sid' = [sid EXCEPT ![k] = nextId]
    /\ UNCHANGED <<serverVars, sessions, named, channelVars, opened, sent>>

AcceptNumbered(k) ==
    /\ server \in {"up", "closing"}
    /\ Advance(k, "idle", "accepted")
    /\ sid' = [sid EXCEPT ![k] = nextId]
    /\ nextId' = nextId + 1
    /\ UNCHANGED <<server, gen, sessions, named, channelVars, opened, sent>>

\* Mutant: 1C is told before the endpoint is in the channel.
RegisterAnnounced(k) ==
    /\ Advance(k, "accepted", "registered")
    /\ sessions' = [sessions EXCEPT ![sid[k]] = k]
    /\ opened' = opened \cup {k}
    /\ UNCHANGED <<serverVars, streamVars, channelVars, sent>>

\* Mutant: the new stream takes over what the old one has not sent yet.
RegisterInherits(k) ==
    LET old == sessions[sid[k]] IN
    /\ Advance(k, "accepted", "registered")
    /\ sessions' = [sessions EXCEPT ![sid[k]] = k]
    /\ queue' = [queue EXCEPT ![k] = IF old = NoStream THEN <<>> ELSE queue[old]]
    /\ UNCHANGED <<serverVars, streamVars, seen, opened, sent>>

\* HashMap::insert drops the map's sender of an earlier stream with this id.
Register(k) ==
    /\ Advance(k, "accepted", "registered")
    /\ sessions' = [sessions EXCEPT ![sid[k]] = k]
    /\ UNCHANGED <<serverVars, streamVars, channelVars, opened, sent>>

SendEndpoint(k) ==
    /\ Advance(k, "registered", "announced")
    /\ queue' = [queue EXCEPT ![k] = Append(@, Endpoint)]
    /\ UNCHANGED <<serverVars, sessions, streamVars, seen, opened, sent>>

\* SSE_OPEN; nobody looks at whether the platform accepted it.  The handler
\* returns the stream and drops its own clone of the sender.
OpenEvent(k) ==
    /\ Advance(k, "announced", "streaming")
    /\ opened' \in {opened, opened \cup {k}}
    /\ UNCHANGED <<serverVars, sessions, streamVars, channelVars, sent>>

-----------------------------------------------------------------------------
(* The stream.                                                             *)

Deliver(k) ==
    /\ pc[k] = "streaming"
    /\ queue[k] # <<>>
    /\ queue' = [queue EXCEPT ![k] = Tail(@)]
    /\ seen' = [seen EXCEPT ![k] = Append(@, Head(queue[k]))]
    /\ UNCHANGED <<serverVars, sessions, pc, streamVars, opened, sent>>

\* Mutant: a closed channel ends the stream with events still in it.
StreamCut(k) ==
    /\ Advance(k, "streaming", "ended")
    /\ sessions[sid[k]] # k
    /\ queue' = [queue EXCEPT ![k] = <<>>]
    /\ UNCHANGED <<serverVars, sessions, streamVars, seen, opened, sent>>

\* Mutant: a handler keeps its clone until 1C closes the session.
StreamEndsClosed(k) ==
    /\ Advance(k, "streaming", "ended")
    /\ sessions[sid[k]] = NoStream
    /\ queue[k] = <<>>
    /\ UNCHANGED <<serverVars, sessions, streamVars, channelVars, opened, sent>>

\* recv returns None once the channel is empty and its last sender, the one in
\* the map, is gone.
StreamEnds(k) ==
    /\ Advance(k, "streaming", "ended")
    /\ sessions[sid[k]] # k
    /\ queue[k] = <<>>
    /\ UNCHANGED <<serverVars, sessions, streamVars, channelVars, opened, sent>>

\* The client disconnects; the receiver is dropped, the map is left alone.
ClientLeaves(k) ==
    /\ pc[k] \in {"accepted", "streaming"}
    /\ pc' = [pc EXCEPT ![k] = "left"]
    /\ queue' = [queue EXCEPT ![k] = <<>>]
    /\ UNCHANGED <<serverVars, sessions, streamVars, seen, opened, sent>>

-----------------------------------------------------------------------------
(* The 1C thread.  sse_send and sse_close do not look at the server.       *)

\* 1C uses the ids that SSE_OPEN told it, and those agreed with the client.
KnownIds == Agreed \cup {sid[k] : k \in opened}

\* A receiver that is gone is an error.
SseSend(i) ==
    /\ i \in KnownIds
    /\ sent < MaxEvents
    /\ sessions[i] # NoStream
    /\ pc[sessions[i]] # "left"
    /\ sent' = sent + 1
    /\ queue' = [queue EXCEPT ![sessions[i]] = Append(@, sent')]
    /\ UNCHANGED <<serverVars, sessions, pc, streamVars, seen, opened>>

SseClose(i) ==
    /\ i \in KnownIds
    /\ sessions' = [sessions EXCEPT ![i] = NoStream]
    /\ UNCHANGED <<serverVars, pc, streamVars, channelVars, opened, sent>>

Start ==
    /\ server = "down"
    /\ gen < MaxGen
    /\ server' = "up"
    /\ gen' = gen + 1
    /\ UNCHANGED <<nextId, sessions, pc, streamVars, channelVars, opened, sent>>

StopClear ==
    /\ server = "up"
    /\ server' = "closing"
    /\ sessions' = [i \in Ids |-> NoStream]
    /\ UNCHANGED <<gen, nextId, pc, streamVars, channelVars, opened, sent>>

StopShutdown ==
    /\ server = "closing"
    /\ server' = "down"
    /\ UNCHANGED <<gen, nextId, sessions, pc, streamVars, channelVars, opened, sent>>

-----------------------------------------------------------------------------
StreamStep(k) ==
    \/ Register(k)
    \/ SendEndpoint(k)
    \/ OpenEvent(k)
    \/ Deliver(k)
    \/ StreamEnds(k)

Next ==
    \/ \E k \in Streams :
          \/ \E i \in NamedIds : AcceptNamed(k, i)
          \/ AcceptNumbered(k)
          \/ StreamStep(k)
          \/ ClientLeaves(k)
    \/ \E i \in Ids : SseSend(i) \/ SseClose(i)
    \/ Start
    \/ StopClear
    \/ StopShutdown

Spec == Init /\ [][Next]_vars

\* The runtime polls handlers and streams that are ready; clients read.
FairSpec == Spec /\ \A k \in Streams : WF_vars(StreamStep(k))

-----------------------------------------------------------------------------
(* Properties.                                                             *)

TypeOK ==
    /\ server \in {"down", "up", "closing"}
    /\ gen \in 0..MaxGen
    /\ nextId \in 1..(Cardinality(Streams) + 1)
    /\ sessions \in [Ids -> Streams \cup {NoStream}]
    /\ pc \in [Streams -> {"idle", "accepted", "registered", "announced", "streaming",
                           "ended", "left"}]
    /\ named \in [Streams -> BOOLEAN]
    /\ sid \in [Streams -> Ids \cup {0}]
    /\ \A k \in Streams : Range(queue[k]) \cup Range(seen[k]) \subseteq 0..MaxEvents
    /\ opened \subseteq Streams
    /\ sent \in 0..MaxEvents

\* Everything a stream was ever given and may still deliver.
Items(k) == seen[k] \o queue[k]

\* Where the endpoint is among them.
Endpoints(k) == {n \in DOMAIN Items(k) : Items(k)[n] = Endpoint}

\* 1C had the session id of k before k announced it: by agreement, or from another
\* stream, in which case one of the two clients asked for it by name.
KnownBefore(k) ==
    \/ sid[k] \in Agreed
    \/ \E j \in opened \ {k} : sid[j] = sid[k] /\ (named[j] \/ named[k])

\* A stream whose handler went on to SSE_OPEN carries its endpoint, and only once,
\* whoever used its session id; and nothing comes before the endpoint (the session
\* is in the map first) unless 1C had the id from elsewhere.
EndpointFirst ==
    \A k \in Streams :
        /\ pc[k] \in {"announced", "streaming", "ended"} => Endpoints(k) # {}
        /\ \A m, n \in Endpoints(k) : m = n
        /\ Items(k) # <<>> /\ 1 \notin Endpoints(k) => KnownBefore(k)

\* An event that 1C sent goes to one client, once, and in the order of sending,
\* however sessions are reused.
EachEventOnce ==
    \A k \in Streams :
        LET mine == Items(k) IN
        /\ \A m, n \in DOMAIN mine : m < n /\ mine[n] # Endpoint => mine[m] < mine[n]
        /\ \A j \in Streams \ {k} : Range(mine) \cap Range(Items(j)) \subseteq {Endpoint}

\* A stream is pushed out of its session only by one that asked for the id, or
\* if it had asked for the id itself: numbers alone never collide.
OnlyNamesCollide ==
    [][\A i \in Ids :
          LET old == sessions[i]
              new == sessions'[i]
          IN  old # NoStream /\ new \notin {NoStream, old} => named[old] \/ named[new]]_vars

\* An event for which sse_send returned True reaches the client unless the
\* client leaves: a close, a stop or a takeover of the session lets it drain.
AcceptedIsDelivered ==
    \A k \in Streams, n \in 1..MaxEvents :
        n \in Range(queue[k]) ~> (n \in Range(seen[k]) \/ pc[k] = "left")

\* A stream that lost its session, to a close, a stop or another stream, ends.
DetachedStreamEnds ==
    \A k \in Streams :
        pc[k] = "streaming" /\ sessions[sid[k]] # k ~> pc[k] \in {"ended", "left"}

\* arc42 says that a session is removed when its connection breaks.
SessionGoneOnDisconnect ==
    \A k \in Streams : pc[k] = "left" => \A i \in Ids : sessions[i] # k
=============================================================================
