------------------------------ MODULE McpNotify ------------------------------
(***************************************************************************)
(* Notifications of the MCP component (src/mcp/server.rs): the list of     *)
(* initialized clients and the subscribers of each resource, changed by    *)
(* concurrent handlers, and the notifications that 1C sends to copies of   *)
(* these lists.  Both outlive the server that made them.                   *)
(*                                                                         *)
(* A client is one MCP session: one transport, one peer.  A step is one    *)
(* critical section, one event, or one send.                               *)
(***************************************************************************)
EXTENDS Naturals, FiniteSets, SequencesExt

CONSTANTS
    Clients,   \* sessions
    Uris,      \* resources that clients subscribe to
    Requests,  \* notifications/initialized, resources/subscribe and unsubscribe
    MaxGen     \* bound: successful starts of the server

ASSUME ConstantsAssumption ==
    /\ IsFiniteSet(Clients)
    /\ MaxGen \in Nat
    /\ Uris \cap {"none", "list"} = {}

VARIABLES
    server,   \* McpAddIn.server: "down" or "up"
    gen,      \* the latest server instance
    born,     \* instance that accepted each session (0: none yet)
    open,     \* sessions whose transport is open
    sinks,    \* client_sinks
    subs,     \* subscriptions: an entry for some of the URIs
    pc,       \* where the handler of each request is
    req,      \* its kind, client and URI
    calling,  \* the 1C thread is in a call: "none", "list" or the URI it updates
    rest,     \* copy of the list: sinks the call has yet to send to
    \* history, for the properties only
    joined,   \* sessions whose notifications/initialized has been handled
    asked,    \* what a client may take for granted: "in", "out", or nothing
    mixed,    \* running requests that overlapped with one to the opposite end
    due,      \* clients that may count on being sent to, when the call began
    told,     \* clients the call has sent to
    late      \* updates sent to a client since it unsubscribed

serverVars  == <<server, gen>>
clientVars  == <<born, open>>
listVars    == <<sinks, subs>>
callVars    == <<calling, rest, due, told>>
historyVars == <<joined, asked, mixed, late>>
vars == <<serverVars, clientVars, listVars, pc, req, callVars, historyVars>>

Pairs == Clients \X Uris
Asks  == ({"subscribe", "unsubscribe"} \X Clients \X Uris)
         \cup ({"initialized"} \X Clients \X {"none"})

Init ==
    /\ server = "down"
    /\ gen = 0
    /\ born = [c \in Clients |-> 0]
    /\ open = {}
    /\ sinks = <<>>
    /\ subs = <<>>
    /\ pc = [r \in Requests |-> "idle"]
    /\ req = [r \in Requests |-> <<>>]
    /\ calling = "none"
    /\ rest = <<>>
    /\ joined = {}
    /\ asked = [p \in Pairs |-> "nothing"]
    /\ mixed = {}
    /\ due = {}
    /\ told = <<>>
    /\ late = [p \in Pairs |-> 0]

\* What is left of s when only members of C are kept, each at its first place.
Kept(s, C) ==
    CHOOSE t \in BoundedSeq(Clients, Len(s)) :
        /\ ToSet(t) = ToSet(s) \cap C
        /\ \A m, n \in DOMAIN t :
              m < n => \E i \in DOMAIN s : s[i] = t[m] /\ \A j \in 1..i : s[j] # t[n]

\* Drops sessions that are closed, and all but the first entry of a session.
RetainOpenUnique(s) == Kept(s, open)

AddUnique(s, c) == RetainOpenUnique(Append(s, c))

Entry(u) == IF u \in DOMAIN subs THEN subs[u] ELSE <<>>

\* The map with a new list under u; with an empty one, without u.
SetEntry(u, s) ==
    subs' = [v \in DOMAIN subs \cup {u} |-> IF v = u THEN s ELSE subs[v]]
SetOrRemoveEntry(u, s) ==
    IF s = <<>> THEN subs' = [v \in DOMAIN subs \ {u} |-> subs[v]] ELSE SetEntry(u, s)

-----------------------------------------------------------------------------
(* Clients.                                                                *)

Connect(c) ==
    /\ server = "up"
    /\ born[c] = 0
    /\ born' = [born EXCEPT ![c] = gen]
    /\ open' = open \cup {c}
    /\ UNCHANGED <<serverVars, listVars, pc, req, callVars, historyVars>>

\* The session is deleted, expires, or goes with its server.  Nobody looks at
\* the lists.
Close(c) ==
    /\ c \in open
    /\ open' = open \ {c}
    /\ UNCHANGED <<serverVars, born, listVars, pc, req, callVars, historyVars>>

\* Running requests whose order with q decides whether the client is subscribed.
Rivals(q) ==
    {s \in Requests : /\ pc[s] \in {"accepted", "changed"}
                      /\ {req[s][1], q[1]} = {"subscribe", "unsubscribe"}
                      /\ Tail(req[s]) = Tail(q)}

\* A session of an earlier server is unknown to the running one.
Accept(r, q) ==
    LET p == Tail(q)
        settled == IF q[1] = "subscribe" THEN "in" ELSE "out"
    IN
    /\ server = "up"
    /\ q[2] \in open
    /\ born[q[2]] = gen
    /\ pc[r] = "idle"
    /\ pc' = [pc EXCEPT ![r] = "accepted"]
    /\ req' = [req EXCEPT ![r] = q]
    /\ mixed' = mixed \cup Rivals(q) \cup (IF Rivals(q) = {} THEN {} ELSE {r})
    /\ IF p \in Pairs
       THEN /\ asked' = [asked EXCEPT ![p] = IF @ = settled THEN @ ELSE "nothing"]
            /\ late' = [late EXCEPT ![p] = IF q[1] = "subscribe" THEN 0 ELSE @]
       ELSE UNCHANGED <<asked, late>>
    /\ UNCHANGED <<serverVars, clientVars, listVars, callVars, joined>>

-----------------------------------------------------------------------------
(* Handlers.                                                               *)

Change(r, kind) ==
    /\ pc[r] = "accepted"
    /\ req[r][1] = kind
    /\ pc' = [pc EXCEPT ![r] = "changed"]
    /\ UNCHANGED <<serverVars, clientVars, req, callVars, historyVars>>

\* on_initialized
AddSink(r) ==
    /\ Change(r, "initialized")
    /\ sinks' = AddUnique(sinks, req[r][2])
    /\ UNCHANGED subs

\* subscribe; a session closed by now leaves an empty entry.
Subscribe(r) ==
    /\ Change(r, "subscribe")
    /\ SetEntry(req[r][3], AddUnique(Entry(req[r][3]), req[r][2]))
    /\ UNCHANGED sinks

\* Mutant: the entry goes with its first unsubscriber.
UnsubscribeAll(r) ==
    /\ Change(r, "unsubscribe")
    /\ SetOrRemoveEntry(req[r][3], <<>>)
    /\ UNCHANGED sinks

\* A list has no second entry of a session that this retain would keep.
Unsubscribe(r) ==
    /\ Change(r, "unsubscribe")
    /\ SetOrRemoveEntry(req[r][3], Kept(Entry(req[r][3]), open \ {req[r][2]}))
    /\ UNCHANGED sinks

\* The event is raised, whether 1C accepts it or not, and the client answered.
Finish(r) ==
    LET q == req[r]
        p == Tail(q)
    IN
    /\ pc[r] = "changed"
    /\ pc' = [pc EXCEPT ![r] = "done"]
    /\ req' = [req EXCEPT ![r] = <<>>]
    /\ mixed' = mixed \ {r}
    /\ IF p \in Pairs
       THEN /\ asked' = [asked EXCEPT ![p] =
                           IF r \in mixed THEN @
                           ELSE IF q[1] = "subscribe" THEN "in" ELSE "out"]
            /\ UNCHANGED joined
       ELSE joined' = joined \cup {q[2]} /\ UNCHANGED asked
    /\ UNCHANGED <<serverVars, clientVars, listVars, callVars, late>>

-----------------------------------------------------------------------------
(* The 1C thread: mcp.notify_*_changed and mcp.notify_resource_updated.    *)

\* Sessions that may count on being in the list of a call.
Sure(what) ==
    IF what = "list" THEN joined ELSE {c \in Clients : asked[<<c, what>>] = "in"}

BeginCall(what, copy) ==
    /\ server = "up"
    /\ calling = "none"
    /\ calling' = what
    /\ rest' = copy
    /\ due' = Sure(what) \cap open
    /\ told' = <<>>
    /\ UNCHANGED <<serverVars, clientVars, pc, req, historyVars>>

BroadcastListChanged ==
    LET kept == RetainOpenUnique(sinks) IN
    /\ BeginCall("list", kept)
    /\ sinks' = kept
    /\ UNCHANGED subs

\* Mutant: every client hears of every resource.
UpdateEveryone(u) ==
    /\ BeginCall(u, RetainOpenUnique(sinks))
    /\ UNCHANGED listVars

\* Without an entry the call returns at once.
NotifyResourceUpdated(u) ==
    LET kept == RetainOpenUnique(Entry(u)) IN
    /\ BeginCall(u, kept)
    /\ SetOrRemoveEntry(u, kept)
    /\ UNCHANGED sinks

\* Mutant: the first error ends the loop.
SendStops ==
    /\ rest # <<>>
    /\ IF Head(rest) \in open
       THEN /\ told' = Append(told, Head(rest))
            /\ rest' = Tail(rest)
            /\ UNCHANGED late
       ELSE /\ rest' = <<>>
            /\ UNCHANGED <<told, late>>
    /\ UNCHANGED <<serverVars, clientVars, listVars, pc, req, calling, due, joined, asked, mixed>>

\* Sinks are sent to one by one; an error is dropped and the next one is tried.
SendNext ==
    LET c == Head(rest)
        p == <<c, calling>>
    IN
    /\ rest # <<>>
    /\ rest' = Tail(rest)
    /\ told' = IF c \in open THEN Append(told, c) ELSE told
    /\ late' = IF c \in open /\ p \in Pairs /\ asked[p] = "out"
               THEN [late EXCEPT ![p] = @ + 1] ELSE late
    /\ UNCHANGED <<serverVars, clientVars, listVars, pc, req, calling, due, joined, asked, mixed>>

EndCall ==
    /\ calling # "none"
    /\ rest = <<>>
    /\ calling' = "none"
    /\ due' = {}
    /\ told' = <<>>
    /\ UNCHANGED <<serverVars, clientVars, listVars, pc, req, rest, historyVars>>

Start ==
    /\ server = "down"
    /\ gen < MaxGen
    /\ server' = "up"
    /\ gen' = gen + 1
    /\ UNCHANGED <<clientVars, listVars, pc, req, callVars, historyVars>>

\* Nothing here: neither list is cleared.
Stop ==
    /\ server = "up"
    /\ calling = "none"
    /\ server' = "down"
    /\ UNCHANGED <<gen, clientVars, listVars, pc, req, callVars, historyVars>>

-----------------------------------------------------------------------------
Next ==
    \/ \E c \in Clients : Connect(c) \/ Close(c)
    \/ \E r \in Requests :
          \/ \E q \in Asks : Accept(r, q)
          \/ AddSink(r)
          \/ Subscribe(r)
          \/ Unsubscribe(r)
          \/ Finish(r)
    \/ BroadcastListChanged
    \/ \E u \in Uris : NotifyResourceUpdated(u)
    \/ SendNext
    \/ EndCall
    \/ Start
    \/ Stop

Spec == Init /\ [][Next]_vars

-----------------------------------------------------------------------------
(* Properties.                                                             *)

Lists == BoundedSeq(Clients, Cardinality(Clients))

\* Lists hold a session at most once, so they are bounded by the sessions.
TypeOK ==
    /\ server \in {"down", "up"}
    /\ gen \in 0..MaxGen
    /\ born \in [Clients -> 0..MaxGen]
    /\ open \subseteq Clients
    /\ {sinks, rest, told} \subseteq Lists
    /\ DOMAIN subs \subseteq Uris /\ Range(subs) \subseteq Lists
    /\ pc \in [Requests -> {"idle", "accepted", "changed", "done"}]
    /\ req \in [Requests -> Asks \cup {<<>>}]
    /\ calling \in Uris \cup {"none", "list"}
    /\ joined \subseteq Clients
    /\ asked \in [Pairs -> {"nothing", "in", "out"}]
    /\ mixed \subseteq Requests
    /\ due \subseteq Clients
    /\ late \in [Pairs -> Nat]

\* What a client was last told of its subscription is true of the entries: once
\* subscribed it stays until it asks for the opposite or its session closes, whatever
\* other clients and restarts do, and once unsubscribed it is in no later copy.
SubscriptionsAsAnswered ==
    \A c \in Clients, u \in Uris :
        /\ asked[<<c, u>>] = "in" /\ c \in open => Contains(Entry(u), c)
        /\ asked[<<c, u>>] = "out" => ~Contains(Entry(u), c)

\* When a call of 1C returns, every client that could count on the notification
\* and is still there was sent it, although others may have left meanwhile.
EveryoneDueIsTold ==
    [][calling # "none" /\ calling' = "none" => due \cap open \subseteq Range(told)]_vars

\* A copy taken before an unsubscription may still reach the client after it, but
\* only once: there is one call at a time, and the next one takes a new copy.
AtMostOneLate == \A p \in Pairs : late[p] <= 1
=============================================================================
