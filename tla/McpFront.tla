------------------------------- MODULE McpFront -------------------------------
(***************************************************************************)
(* The way of an HTTP request into the MCP component (src/mcp/server.rs):  *)
(* the interceptor, the allow-list of origins, and the handler, which      *)
(* looks in the registry of 1C (src/mcp/registry.rs) and raises an event.  *)
(* 1C replaces the allow-list and the entries of the registry meanwhile,   *)
(* and tells the clients that a list has changed.                          *)
(*                                                                         *)
(* A step is one critical section or one event.  What follows the event is *)
(* in McpBridge and McpTasks, sessions that close are in McpNotify, and    *)
(* which templates match a URI is in McpResources: here every one does.    *)
(***************************************************************************)
EXTENDS Naturals, FiniteSets

CONSTANTS
    Clients,     \* one session for each origin
    Headless,    \* clients that send no Origin header
    Local,       \* clients with a local origin
    Tools, Prompts, Resources, Templates,  \* what 1C may register
    Requests,    \* slots for requests that run at the same time
    MaxChanges   \* bound: calls of 1C that change the allow-list or the registry

\* The registry has a map for each kind, and the name of an entry is no outcome.
ASSUME ConstantsAssumption ==
    /\ Headless \subseteq Clients /\ Local \subseteq Clients \ Headless
    /\ (Tools \cup Prompts) \cap (Resources \cup Templates) = {}
    /\ Tools \cap Prompts = {} /\ Resources \cap Templates = {}
    /\ Templates \cap {"call", "task", "prompt", "resource", "not_found", "wrong_mode", "ambiguous",
                       "refused", "forbidden", "accepted", "bad_request", "no_content", "ok"} = {}
    /\ IsFiniteSet(Templates)
    /\ MaxChanges \in Nat

VARIABLES
    allow,    \* allow_list: the origins it names, and whether it is Any
    catalog,  \* registry: what is registered under each name
    changes,  \* number of changes so far
    open,     \* clients with a session
    sinks,    \* client_sinks
    pc,       \* where each request is: "idle", "arrived", "handler", "emit", "done"
    req,      \* its client, kind and target
    cors,     \* Access-Control-Allow-Origin of its answer: "absent", "*", "origin"
    plan,     \* event the handler has made up its mind to raise
    answer,   \* how it ended
    calling,  \* list that the 1C thread announces, or "none"
    rest,     \* copy of client_sinks: those it has yet to send to
    \* history, for the properties only
    lists,    \* allow-lists in force since the request arrived
    seen,     \* registries since the request arrived
    watched,  \* a client and a list, which the last two are about
    changed,  \* 1C has changed the list since it last announced it
    known     \* what the client knows of it: "nothing" (it was not in client_sinks
              \* when it read it, or was told to read it again), "fresh" or "stale"

serverVars  == <<open, sinks>>
ownerVars   == <<allow, catalog, changes>>
reqVars     == <<pc, req, cors, plan, answer>>
callVars    == <<calling, rest>>
windowVars  == <<lists, seen>>
listVars    == <<watched, changed, known>>
vars == <<serverVars, ownerVars, reqVars, callVars, windowVars, listVars>>

Of(k) == CASE k = "tool"     -> Tools
           [] k = "prompt"   -> Prompts
           [] k = "resource" -> Resources
           [] k = "template" -> Templates
Kinds == {k \in {"tool", "prompt", "resource", "template"} : Of(k) # {}}
Items == UNION {Of(k) : k \in Kinds}

\* TaskSupport of a tool; of anything else, that it is there.
Entries(k) == IF k = "tool" THEN {"forbidden", "optional", "required"} ELSE {"present"}

\* Templates are announced together with resources.
Announced(k) == IF k = "template" THEN "resource" ELSE k

-----------------------------------------------------------------------------
(* The allow-list.                                                         *)

DefaultLocal == [any |-> FALSE, named |-> Local]

\* What 1C passes: an empty text, or the strings of a list ("*" alone is the list
\* of it).  Text that is neither is an error, and nothing changes.
EmptyText == {"empty"}
RawLists  == {EmptyText} \cup SUBSET ((Clients \ Headless) \cup {"*", "blank"})

ParseAllowList(raw) ==
    IF raw = EmptyText THEN DefaultLocal
    ELSE [any |-> "*" \in raw, named |-> IF "*" \in raw THEN {} ELSE raw \ {"blank"}]

Allows(list, c) == c \in Headless \/ list.any \/ c \in list.named

\* add_cors_headers: without an origin to repeat, "*".
CorsOf(list, c) == IF list.any \/ c \in Headless THEN "*" ELSE "origin"

-----------------------------------------------------------------------------
Init ==
    /\ allow = DefaultLocal
    /\ catalog = [i \in Items |-> "none"]
    /\ changes = 0
    /\ open = {}
    /\ sinks = {}
    /\ pc = [r \in Requests |-> "idle"]
    /\ req = [r \in Requests |-> <<>>]
    /\ cors = [r \in Requests |-> "absent"]
    /\ plan = [r \in Requests |-> "none"]
    /\ answer = [r \in Requests |-> "none"]
    /\ calling = "none"
    /\ rest = {}
    /\ lists = [r \in Requests |-> {}]
    /\ seen = [r \in Requests |-> {}]
    /\ watched \in Clients \X Kinds
    /\ changed = FALSE
    /\ known = "nothing"

-----------------------------------------------------------------------------
(* Requests.                                                               *)

\* POST without a session: notifications/initialized, more than 4096 bytes, or
\* initialize; OPTIONS; and what a client with a session may ask for.
Unsessioned == {"orphan", "oversized", "initialize", "preflight"}
Asks ==
    (Unsessioned \cup {"initialized"}) \X {"none"}
    \cup {"list"} \X Kinds
    \cup {"call", "task"} \X Tools
    \cup {"prompt"} \X Prompts
    \cup {"read"} \X Resources

Arrive(r, c, q) ==
    /\ pc[r] = "idle"
    /\ q[1] \in Unsessioned \/ c \in open
    /\ pc' = [pc EXCEPT ![r] = "arrived"]
    /\ req' = [req EXCEPT ![r] = <<c, q[1], q[2]>>]
    /\ lists' = [lists EXCEPT ![r] = {allow}]
    /\ seen' = [seen EXCEPT ![r] = {catalog}]
    /\ UNCHANGED <<serverVars, ownerVars, cors, plan, answer, callVars, listVars>>

\* The request ends: its window closes.
Done(r, how) ==
    /\ pc' = [pc EXCEPT ![r] = "done"]
    /\ answer' = [answer EXCEPT ![r] = how]
    /\ plan' = [plan EXCEPT ![r] = "none"]

\* intercept_orphan_initialized answers before the allow-list is looked at.
Intercept(r) ==
    /\ pc[r] = "arrived"
    /\ req[r][2] \in {"orphan", "oversized"}
    /\ Done(r, IF req[r][2] = "orphan" THEN "accepted" ELSE "bad_request")
    /\ UNCHANGED <<serverVars, ownerVars, req, cors, callVars, windowVars, listVars>>

Filtered(r) == pc[r] = "arrived" /\ req[r][2] \notin {"orphan", "oversized"}

Forbid(r) ==
    /\ Filtered(r)
    /\ ~Allows(allow, req[r][1])
    /\ Done(r, "forbidden")
    /\ UNCHANGED <<serverVars, ownerVars, req, cors, callVars, windowVars, listVars>>

\* The origin and allow_any are kept for the headers of the answer.
Admit(r) ==
    /\ Filtered(r)
    /\ Allows(allow, req[r][1])
    /\ cors' = [cors EXCEPT ![r] = CorsOf(allow, req[r][1])]
    /\ IF req[r][2] = "preflight"
       THEN Done(r, "no_content")
       ELSE /\ pc' = [pc EXCEPT ![r] = "handler"]
            /\ UNCHANGED <<plan, answer>>
    /\ UNCHANGED <<serverVars, ownerVars, req, callVars, windowVars, listVars>>

Handle(r, kind) == pc[r] = "handler" /\ req[r][2] = kind

Initialize(r) ==
    /\ Handle(r, "initialize")
    /\ open' = open \cup {req[r][1]}
    /\ Done(r, "ok")
    /\ UNCHANGED <<sinks, ownerVars, req, cors, callVars, windowVars, listVars>>

\* Mutant: the list holds the latest client only.
AddSinkAlone(r) ==
    /\ Handle(r, "initialized")
    /\ sinks' = {req[r][1]}
    /\ Done(r, "accepted")
    /\ UNCHANGED <<open, ownerVars, req, cors, callVars, windowVars, listVars>>

\* on_initialized
AddSink(r) ==
    /\ Handle(r, "initialized")
    /\ sinks' = sinks \cup {req[r][1]}
    /\ Done(r, "accepted")
    /\ UNCHANGED <<open, ownerVars, req, cors, callVars, windowVars, listVars>>

\* Mutant: the headers are made from the list of the moment of the answer.
ListReadsOriginsAgain(r) ==
    /\ Handle(r, "list")
    /\ Done(r, "ok")
    /\ cors' = [cors EXCEPT ![r] = CorsOf(allow, req[r][1])]
    /\ UNCHANGED <<serverVars, ownerVars, req, callVars, windowVars, listVars>>

\* list_tools, list_prompts, list_resources, list_resource_templates
List(r) ==
    LET c == req[r][1] IN
    /\ Handle(r, "list")
    /\ known' = IF watched # <<c, req[r][3]>> THEN known
                ELSE IF c \in sinks THEN "fresh" ELSE "nothing"
    /\ Done(r, "ok")
    /\ UNCHANGED <<serverVars, ownerVars, req, cors, callVars, windowVars, watched, changed>>

\* resolve_resource: a resource of that URI, or else the only template.
Resolve(u) ==
    LET there == {m \in Templates : catalog[m] # "none"} IN
    IF catalog[u] # "none" THEN "resource"
    ELSE IF there = {} THEN "not_found"
    ELSE IF Cardinality(there) = 1 THEN CHOOSE m \in there : TRUE
    ELSE "ambiguous"

\* Mutant: a tool is called in the mode that the client asked for.
FindInAnyMode(kind, i) ==
    IF kind = "read" THEN Resolve(i) ELSE IF catalog[i] = "none" THEN "not_found" ELSE kind

\* What a handler finds in the registry: the event it will raise, or an error.
Find(kind, i) ==
    IF kind = "read" THEN Resolve(i)
    ELSE IF catalog[i] = "none" THEN "not_found"
    ELSE IF <<kind, catalog[i]>> \in {<<"call", "required">>, <<"task", "forbidden">>}
    THEN "wrong_mode"
    ELSE kind

\* call_tool, enqueue_task, get_prompt, read_resource: the registry is unlocked
\* when the handler goes on to the map of requests or of tasks.
LookUp(r) ==
    LET found == Find(req[r][2], req[r][3]) IN
    /\ \E kind \in {"call", "task", "prompt", "read"} : Handle(r, kind)
    /\ IF found \in {"not_found", "wrong_mode", "ambiguous"}
       THEN Done(r, found)
       ELSE /\ pc' = [pc EXCEPT ![r] = "emit"]
            /\ plan' = [plan EXCEPT ![r] = found]
            /\ UNCHANGED answer
    /\ UNCHANGED <<serverVars, ownerVars, req, cors, callVars, windowVars, listVars>>

\* 1C gets the event, or its queue is full.
Emit(r) ==
    /\ pc[r] = "emit"
    /\ Done(r, plan[r]) \/ Done(r, "refused")
    /\ UNCHANGED <<serverVars, ownerVars, req, cors, callVars, windowVars, listVars>>

\* The slot is free again.
Leave(r) ==
    /\ pc[r] = "done"
    /\ pc' = [pc EXCEPT ![r] = "idle"]
    /\ req' = [req EXCEPT ![r] = <<>>]
    /\ cors' = [cors EXCEPT ![r] = "absent"]
    /\ answer' = [answer EXCEPT ![r] = "none"]
    /\ lists' = [lists EXCEPT ![r] = {}]
    /\ seen' = [seen EXCEPT ![r] = {}]
    /\ UNCHANGED <<serverVars, ownerVars, plan, callVars, listVars>>

-----------------------------------------------------------------------------
(* The 1C thread.                                                          *)

Running(r) == pc[r] \notin {"idle", "done"}

OwnerCall ==
    /\ calling = "none"
    /\ changes < MaxChanges
    /\ changes' = changes + 1
    /\ UNCHANGED <<serverVars, reqVars, callVars>>

\* mcp_set_allowed_origins
SetAllowedOrigins(raw) ==
    /\ OwnerCall
    /\ allow' = ParseAllowList(raw)
    /\ lists' = [r \in Requests |-> IF Running(r) THEN lists[r] \cup {allow'} ELSE lists[r]]
    /\ UNCHANGED <<catalog, seen, listVars>>

\* The registry gets the entries of g; clients are owed an announcement.
Replace(k, g) ==
    /\ OwnerCall
    /\ catalog' = [i \in Items |-> IF i \in DOMAIN g THEN g[i] ELSE catalog[i]]
    /\ seen' = [r \in Requests |-> IF Running(r) THEN seen[r] \cup {catalog'} ELSE seen[r]]
    /\ changed' = (changed \/ k = watched[2])
    /\ known' = IF k = watched[2] /\ known = "fresh" THEN "stale" ELSE known
    /\ UNCHANGED <<allow, lists, watched>>

\* register_tools and the others: the entries of the array up to the first bad
\* one, the last of each name.  An error does not take them back.
Register(k, batch) == Replace(k, batch)

\* unregister_tool and the others, clear_tools and the others.
Unregister(k, i) == Replace(k, [x \in {i} |-> "none"])
Clear(k)         == Replace(k, [i \in Of(k) |-> "none"])

\* notify_tools_changed, notify_resources_changed, notify_prompts_changed: the call
\* copies the list of clients, and sends to one after the other.
BeginNotify(k) ==
    /\ calling = "none"
    /\ k # "template"
    /\ calling' = k
    /\ rest' = sinks
    /\ UNCHANGED <<serverVars, ownerVars, reqVars, windowVars, listVars>>

SendNext ==
    \E c \in rest :
        /\ rest' = rest \ {c}
        /\ known' = IF c = watched[1] /\ Announced(watched[2]) = calling THEN "nothing" ELSE known
        /\ UNCHANGED <<serverVars, ownerVars, reqVars, calling, windowVars, watched, changed>>

EndNotify ==
    /\ calling # "none"
    /\ rest = {}
    /\ calling' = "none"
    /\ changed' = (changed /\ Announced(watched[2]) # calling)
    /\ UNCHANGED <<serverVars, ownerVars, reqVars, rest, windowVars, watched, known>>

-----------------------------------------------------------------------------
Batches(k) == UNION {[S -> Entries(k)] : S \in SUBSET Of(k) \ {{}}}

Next ==
    \/ \E r \in Requests :
          \/ \E c \in Clients, q \in Asks : Arrive(r, c, q)
          \/ Intercept(r)
          \/ Forbid(r)
          \/ Admit(r)
          \/ Initialize(r)
          \/ AddSink(r)
          \/ List(r)
          \/ LookUp(r)
          \/ Emit(r)
          \/ Leave(r)
    \/ \E raw \in RawLists : SetAllowedOrigins(raw)
    \/ \E k \in Kinds :
          \/ \E batch \in Batches(k) : Register(k, batch)
          \/ \E i \in Of(k) : Unregister(k, i)
          \/ Clear(k)
          \/ BeginNotify(k)
    \/ SendNext
    \/ EndNotify

Spec == Init /\ [][Next]_vars

-----------------------------------------------------------------------------
(* Properties.                                                             *)

\* A request is judged by one allow-list, in force at some moment since it
\* arrived: the list that lets it in also decides the headers of its answer, and
\* a request that is refused was refused by a list.
JudgedByOneList ==
    \A r \in Requests :
        LET c == req[r][1] IN
        /\ cors[r] # "absent" =>
              \E list \in lists[r] : Allows(list, c) /\ cors[r] = CorsOf(list, c)
        /\ answer[r] = "forbidden" => \E list \in lists[r] : ~Allows(list, c)

\* What the registry g has to say for an answer to a request about i.
Warrants(g, how, i) ==
    LET there == {m \in Templates : g[m] # "none"} IN
    CASE how = "call"       -> g[i] \in {"forbidden", "optional"}
      [] how = "task"       -> g[i] \in {"optional", "required"}
      [] how \in {"prompt", "resource"} -> g[i] = "present"
      [] how \in Templates  -> g[i] = "none" /\ there = {how}
      [] how = "ambiguous"  -> g[i] = "none" /\ Cardinality(there) > 1
      [] how = "not_found"  -> g[i] = "none" /\ (i \in Resources => there = {})
      [] how = "wrong_mode" -> g[i] \in {"forbidden", "required"}
      [] OTHER              -> TRUE

\* An event reaches 1C, and an error its client, only if one registry in force
\* since the request arrived calls for it: a tool in a mode it supports, a
\* template only when no resource and no other template has the URI.
AnswerWarranted ==
    \A r \in Requests :
        pc[r] = "done" => \E g \in seen[r] : Warrants(g, answer[r], req[r][3])

\* A client that has read a list after it was added to client_sinks has the
\* current one, or was told to read it again, or 1C has not announced its changes.
ListIsCurrent == known = "stale" => changed
=============================================================================
