# TLA+ models of web-transport-addin

The add-in is a native component of the 1C:Enterprise platform. It lets a 1C
client process serve HTTP, SSE and MCP, be a WebSocket client, and keep a tunnel
to a session manager. All of its work crosses one boundary: background tasks of
a tokio runtime raise *external events* in 1C, and the single 1C thread calls
*methods* of the component, each of which blocks until it returns. What is hard
in this code is what happens across that boundary: an event and the answer to it
are two calls with any amount of time, restarts, timeouts and disconnects
between them.

Paths below are relative to the repository (`src/mcp/server.rs` is the Rust file
of that name). `PROJECT.json` maps every definition to the lines it models.

## Inventory

| component | code | state | operations | modelled in |
|---|---|---|---|---|
| MCP request bridge | `mcp/addin.rs`, `mcp/server.rs` | `response_map`, `progress_resets`, `request_counter`, a handler per call | tools/call, resources/read, prompts/get; start, stop, send response, notify progress | `McpBridge` |
| MCP tasks | same | `tasks` | enqueue, list, poll, result, complete, set status, cancel, sweep | `McpTasks` (task progress left out) |
| MCP notifications | same | `client_sinks`, `subscriptions` | initialized, subscribe, unsubscribe, list changed, resource updated | `McpNotify` (client notifications that only raise an event left out) |
| MCP registry | `mcp/registry.rs`, `mcp/resource_template.rs` | tools, resources, templates, prompts | register in batches, unregister, clear, list, look up, resolve | `McpResources` (templates and matching), `McpFront` (against requests) |
| MCP transport filters | `mcp/server.rs` | `allow_list` | intercept, admit, forbid, CORS headers; set allowed origins | `McpFront` |
| HTTP request bridge | `http/addin.rs`, `http/server.rs` | `response_map` per server, `http_request_counter` | handle request; start, stop, send response | `HttpBridge` |
| SSE sessions | same | `sse_sessions`, `sse_session_counter`, a channel per stream | open, send, close, sweep, end of stream | `SseSessions` |
| Session tunnel | `session/addin.rs`, `session_integration.rs`, `reconnect.rs`, `tunnel.rs` | the run held by the component, its token and queue, attempt counter | start, send, stop; reconnect loop, pump | `SessionTunnel` |
| Event pacer and host | `addin_host.rs` | time of the last event | raise an event, at most three attempts, at least 150 ms apart | `SessionTunnel` |
| Session parameters | `session_params.rs` | none | precedence of constant, launch string, startup parameter | not modelled |
| WebSocket client | `ws_client.rs`, `ws/addin.rs` | one connection | connect, send, receive, disconnect | `WsClient` |
| Stateless HTTP routes, library entry, logging, tests | `http/mcp_handler.rs`, `lib.rs`, `addin_error.rs`, `harness_tests.rs` | none | | not modelled |

How they interact. The MCP bridge, the tasks and the notifications live in one
`McpAddIn`: `mcp_stop` clears the response map and the tasks in one call, leaves
sinks and subscriptions alone, and requests and tasks take numbers from one
counter (`TakeTaskId` in `McpBridge`, so that `McpTasks` may take a task for its
own number). A request reaches the bridge or the tasks through the interceptor,
the allow-list and a look-up in the registry: `McpFront` is that way in, with the
1C thread that changes the allow-list and the registry beside it; what a template
matches is in `McpResources`. HTTP requests and SSE sessions live in one
`HttpAddIn`; `http_stop` clears both maps, but the response map belongs to the
server instance and the session map to the component. Every component raises its
events through the platform, which may refuse them; only the session component
goes through the pacer. No component calls another one, so the modules share no
variables; `McpBridge` and `HttpBridge` share what they promise, `RequestReply`.

### What is hard, and what makes each component correct

* **Bridges.** Numbering, the insertion of the sender and the event are separate
  steps of a handler; a stop, an answer or a timer may come between any two.
  Correct: 1C's answer always finds the handler that waits for it
  (`Reachable`, of the MCP bridge), reaches the call whose number it names (`Correlated`), and
  nothing stays in the maps (`NoLeak`); every call ends (`EveryCallEnds`,
  `EveryRequestEnds`), and an answer or a stop releases it without the timer
  (`AnswerOrStopReleases`). Together: the bridge implements `RequestReply`.
* **Tasks.** An entry is created, read again and removed in three critical
  sections, while 1C and the client both write status and result, and the last
  writer wins. Correct: a task that somebody was told of exists and a failed one
  does not (`TableMatchesAnswers`), status and result agree
  (`StatusMatchesResult`), and a client that polls a final status gets a result
  from then on (`PolledTaskHasResult`).
* **Way in.** The allow-list is read once and used twice, for admission and for
  the headers; the registry is unlocked between the look-up and the event; a
  list is read, changed and announced by different threads. Correct:
  `JudgedByOneList`, `AnswerWarranted`, `ListIsCurrent`.
* **Notifications.** 1C sends to copies of lists that handlers change meanwhile.
  Correct: `SubscriptionsAsAnswered`, `EveryoneDueIsTold`, `AtMostOneLate`.
* **Registry.** `compile` must accept exactly the templates it supports, a batch
  that fails must leave what came before the failure and nothing else, and what
  `capture` gives to 1C must rebuild the URI (`CompileExact`, `CaptureSound`,
  `BuiltIsFound`).
* **SSE.** 1C may send before the endpoint event is queued, if it has the id
  already, and two streams may have one id. Correct: `EndpointFirst`, `EachEventOnce`, `OnlyNamesCollide`,
  `AcceptedIsDelivered`, `DetachedStreamEnds`.
* **Session.** Events block the worker thread, so an aborted run goes on for a
  while; the link breaks at any point of the pump. Correct: `SentOnceInOrder`,
  `ViewAgrees`, `GiveUpOnlyAtLimit`, `KeepsTrying`, `DroppedRunEnds`,
  `AtMostOneStale`, `NoOrphan`.
* **WebSocket client.** A timer drops the future that reads a frame, and a
  connect replaces the connection only when it has succeeded. Correct:
  `EachFrameOnce`, `KeptUntilReplaced`, and `CallsReturn`: 1C hangs only in a
  call that asks for it.

The `hazards` of `PROJECT.json` give the line of each and what covers it.

## Modules

| module | what it is |
|---|---|
| `RequestReply` | the abstract exchange: a call opens, is given its first answer, ends once. An error other than a timeout says that no answer was accepted |
| `McpBridge` | the MCP bridge; refines `RequestReply` |
| `McpBridgeProofs` | its theorems |
| `HttpBridge` | the HTTP bridge; refines `RequestReply` |
| `SessionTunnel` | the session component with its pacer |
| `McpFront`, `McpTasks`, `McpNotify`, `McpResources`, `SseSessions`, `WsClient` | one component each |
| `HttpBridgeProofs`, `SessionTunnelProofs`, `McpFrontProofs`, `McpNotifyProofs`, `SseSessionsProofs`, `WsClientProofs` | the theorems of each |
| `McpTablesProofs` | the theorems of `McpResources` and `McpTasks` |
| `MCMcpNotify`, `MCMcpResources` | symmetry sets and inputs for TLC |

`HttpBridge`, `SseSessions`, `McpNotify` and `McpTasks` state a type invariant
that no run checks: it is proved. `McpFront` and `WsClient` have none; the types
their proofs rest on are in the proof modules (`Typed`).

Every module takes steps as small as the code's: what a handler does between two
awaits, or one critical section, one atomic operation, or one call into the
platform, where another thread could come between. The comment above an action
names what it models; definitions marked *Mutant* are plausible bugs, used only
to show that a property would notice them.

**`McpBridge`.** `pc[r]` is where the handler of call `r` is in
`dispatch_request`; `waiters` is `response_map`, `resets` is `progress_resets`
(the requests with a sender registered), `chan[r]` the oneshot channel and
`resetq[r]` the progress channel of capacity one. A handler that loses its client
goes on: rmcp spawns it. `Timeout` may win although an answer is there, because
`select!` polls in random order and `timeout` polls the channel before the timer.
`SendResponse` answers any number whose event 1C has seen, now or long ago.
`StopClear` and `StopShutdown` are the two halves of `mcp_stop`, and requests are
still accepted between them.

**`HttpBridge`** differs where the code does: a response map per server instance,
no renewal of the timeout, and `ClientLeaves`, which drops the handler at an
await, with nobody to remove its entry. Dropping is possible where the handler
is suspended: before it, at the lock of the map, and in the wait.

**`McpTasks`** has the handler of a task-augmented call (`Accept` to `EmitTask`
or `RemoveEntry`), the client's cancellation, and 1C's completion and status
changes, each of which overwrites what is there. `mcp_start` sweeps the table
before it binds the address, so a failed start sweeps too. `TasksSpec`,
`TasksInit` and `TasksNext` have their names because one module proves things
about tasks and about templates. `PollTask` remembers
that a client was shown a final status that 1C had not set by hand; `Succeeds`
is `parse_mcp_response`, which looks at an error member before the status code.

**`McpFront`.** A request goes through `arrived` (the layers), `handler` (the
look-up) and `emit` (the event). `cors[r]` is what the layer keeps of the
allow-list for the headers of the answer. `lists[r]` and `seen[r]` are history:
the allow-lists and registries in force since the request arrived, so that
`JudgedByOneList` and `AnswerWarranted` say that each step is explained by one of
them. What 1C is asked may be out of date when it is asked: the code unlocks the
registry first, and no property rules it out. `known` is what one client knows of one list (`watched`), and `changed`
whether 1C owes an announcement. rmcp's own check of a tool before the handler,
with the same `get_tool`, is left out: it only refuses more.

**`McpNotify`.** `sinks` and `subs` are `client_sinks` and `subscriptions`. A
call of 1C prunes a list under its lock, copies it (`rest`) and sends to the
copy. A session takes a subscription for granted (`asked`) when its request has
been answered and no opposite one overlapped it; two that overlap may take effect
in either order, and their events may reach 1C in the other one. `Kept` is the
`retain` of both the prunings and an unsubscription; that the latter does not
look for second entries makes no difference, because no list has any
(`TypeCorrect`).

**`McpResources`.** `Compile` and `Capture` translate the matcher over sequences
of characters; an operator that may find nothing returns a set. A position is the
number of characters before it, as the code's cursor is. The loops are recursive
functions from the round to what the code's variables may be after it (`Round`,
`Take`); compile's goes round as often as the text has characters, which is
enough, since a round without an expression changes nothing. The reference
(`WellFormed`, `Unparse`, `Substitute`) says what a template is without scanning
it. Matching is by first occurrence and does not backtrack, so a URI whose values
contain the literal that follows them may not match; `BuiltIsFound` is about
values that do not. `last` is history: the last batch, its outcome and the texts
registered before it; a call that takes texts out starts it anew, so that
`CompileExact` can say what is registered after each batch.

**`SseSessions`.** A stream's channel is `queue`, what its client got is `seen`.
Ids are numbers: those of the counter, and those that clients ask for, which may
look like numbers of the counter. `opened` are the streams whose `SSE_OPEN` 1C has
seen, and it uses their ids, as `docs/http.md:36` has it, and besides any that
clients ask for and have agreed with it (`Agreed`); that it guesses others is left
out. So 1C can send to a stream between the map's insert and the endpoint when the
id is agreed or was announced by another stream, and then its event comes first.
`EndpointFirst` covers these streams too: each has its endpoint exactly once,
and where an event comes first, the id was 1C's before.

**`SessionTunnel`.** `pc[g]` is where the task of run `g` is in
`run_with_reconnect` and `run_tunnel`; `Suspended` are the places where an abort
takes effect. `Accepted` and `Refused` are one call of the platform inside a
blocking `external_event`, of which there are at most three; `Rest` is the
interval that the run's pacer waits before a call, and `quiet` that it has
passed. The `select!` of the pump is biased: token, then incoming frames,
then 1C's messages. `End` resets what the model remembers of a run that is gone,
so that two runs in a row are not told apart by their past.

**`WsClient`.** `conn` is the `Option` that holds the connection, `call` the
method that the 1C thread is blocked in. `wire` is what the server has sent and
the client not read: a frame that is being read when the timer fires stays in the
buffer of tungstenite. A call of `send` has no timer, and may hang.

## Runs

| run | question | bounds |
|---|---|---|
| `mcp_bridge` | answers, maps and refinement in every interleaving; does every call end, and at once when it can | two calls, one token, one body, two numbers, two servers |
| `mcp_front` | is a request judged and looked up consistently while 1C changes both; are lists current | two clients (a local site, a tool without an origin), one tool, one resource, two templates, one request at a time, two changes |
| `mcp_tasks` | status, result and existence of tasks | two tasks; no other bound |
| `mcp_notify` | subscriptions and copies of lists | two sessions, two resources, three requests, two servers |
| `mcp_resources` | compile and capture against their reference | 52 texts, URIs of up to four characters, two templates at a time |
| `http_bridge` | as `mcp_bridge` but `Reachable`, with disconnects | two requests, two answers, two servers |
| `http_waiter_leak` | are entries of lost requests removed (they are not) | one server |
| `sse_sessions` | order, delivery, end of streams | two streams, ids 1 and 4 by name and 4 agreed, two events, two servers |
| `sse_disconnect` | is the session removed on disconnect (it is not) | one event, one server |
| `session_tunnel` | messages, 1C's view, giving up, ending, what a dropped run still does | one run, three messages, two failures in a row, no limit or a limit of two |
| `session_zombie` | can a dropped run speak over its successor (it can) | two runs |
| `ws_client` | frames, connections, calls that hang | two connections, three frames each |

Why these bounds are enough to be of use. Two calls are what it takes to mix up
answers, to share a token, or to collide in a map. Two servers give a restart with a handler of the old server
alive; what would need a third has not been found. Two streams suffice for a
takeover, two events for order; id 1 collides with the counter and 4 never does;
4 is agreed with 1C, and 1 it learns from streams.
Three messages cover one that has been sent, one in flight and one that waits;
two failures reach the limit and, without one, go past it. Three requests are a
subscription of each session and an unsubscription of one. In `mcp_front` requests
do not touch each other's state, so one at a time shows what 1C's calls do to
it; the second change takes back or repeats the first, and two templates make a
URI ambiguous. Prompts are looked up as tools without a mode are, and are not
instantiated. Two runs of the session component share nothing but the handle and
the number of runs: with one run, TLC takes every step that a run can take after
it was dropped, and the proofs below show the properties about several runs for
any number of them. Templates of two
tokens include every pair of neighbours, well formed or not; longer ones are
listed for repeated variables and for values between literals.

The bridges, streams and sessions stop when their bounded inputs are used up, and
without clients so does the program: deadlock is checked only for `McpTasks` and
`McpResources`, which never stop.

### Fairness

* Handlers, streams and tasks that are ready are polled: weak fairness of
  `HandlerStep`, `StreamStep`, `TaskStep`. tokio's scheduler is fair to ready
  tasks.
* In `McpBridge` also of receiving what is in the channel: the branches of
  `select!` are polled in random order, so a stream of progress signals does not
  hide an answer for ever. The pump's `select!` is biased and gets no such
  assumption.
* The 1C thread that waits for a frame or an upgrade is woken by a frame, an end
  or its timer (`WsClient`); nothing is assumed of a send.
* Sleeps end (`TimerFairness`), stated as a premise of the two properties that
  need it, so that `AnswerOrStopReleases` is shown without it.
* 1C's thread returns from a call it is in (`StopShutdown`, `FinishDrop`).
* Nothing else: 1C need not answer, clients need not read, except in
  `SseSessions`, where a client reads until it leaves; and the network owes
  nothing: a connect, a send or a close may hang for ever (`NetworkStep`).

A call whose progress 1C signals for ever does not end; `EveryCallEnds` says so.

## Proofs

Every safety property that a passing run checks is a theorem, and so is the
refinement of both bridges. Each proof module has the
same plan: an inductive invariant (`IInv`, or a smaller one where it suffices),
one lemma per conjunct or per action that says what a step does to it, a theorem
`Invariance`, and the properties as consequences.

**`McpBridgeProofs`**, for every set of calls, tokens and bodies and every bound
on numbers and starts: `TypeCorrect`; `CorrelatedAlways`, `NoLeakAlways` and
`ReachableAlways`; and `Refinement`, each step of the bridge being a step of
`RequestReply` or a stutter.

None of the three invariants is inductive. That an answer is for the call's own
number needs that an entry `waiters[i] = r` implies `rid[r] = i`, which survives
an insertion only if no two handlers have the same number, which survives
`TakeId` only if all numbers handed out are below `nextId`; that nothing is left
behind needs to know at which stages of a handler an entry may exist; and that an
answer is accepted at most once needs the state of each channel tied to the stage
of its handler and to the map. `IInv` is the conjunction of these.

**`HttpBridgeProofs`**: the same theorems but `ReachableAlways`, which the code
does not promise. The argument differs where the code does. An entry is found by
instance and number, so an open channel must be the entry of its own handler in
the map of the instance that accepted it (`ChannelOf`), and an entry of a handler
that left must not be mistaken for one that waits (`EntryOf`). Nothing caps the
counter but the number of requests, so `CounterOK` ties it to their cardinality.

**`SessionTunnelProofs`**, for every number of runs and messages and every set of
limits:

* `TypeCorrect` includes that no event is refused three times and still tried,
  and that the counters stay within their bounds;
* `NoRunIsOrphaned`: `NoOrphan`, inductive with the fact that a handle is there
  whenever a drop is under way (`Held`);
* `OneStaleEvent`: `AtMostOneStale`. Not inductive: a run that raised its last
  event must never be polled to another. `LastEvent` names the stages where such
  a run can be, and says that it is aborted; with `aborted \subseteq cancelled`,
  its next look at the token is its last;
* `ViewIsTrue`: `ViewAgrees`, from what was last said at each stage of a run
  (`View`);
* `GivesUpAtLimit`: `GiveUpOnlyAtLimit`, from the equality of the code's counter
  with the failures in a row, plus the attempt under way (`Counted`,
  `WithinLimit`, `GivesUp`);
* `MessagesSentOnce`: `SentOnceInOrder`. `InTransit` gives each message its place:
  of those that 1C sent, an initial part has left, at most one is in the air, and
  the queue holds the rest, each at the position its number says.

`IInv` has types, `Held`, and for each run `RunOK`. A step of a run leaves the
conjuncts of the others alone (`OthersUntouched`), so the proof has one case per
action for the run itself (`OwnStep`) and one for the caller's actions.

**`McpTablesProofs`**, first about resources and templates, for every alphabet,
every set of batches, URIs and values, and any number of templates:
`CompileExactHolds`, `CaptureSoundHolds`, `BuiltIsFoundHolds`. The invariant of
the state is small: there are finitely many templates, each with a matcher that
`Compile` returned for it, and the last call failed if a text of it did not
compile, and added the texts before that one. What has to be shown is what the two loops compute, for a text of any
length.

* The library's induction takes an operator as a parameter, which the prover
  cannot instantiate. `UpTo` is induction over a set of rounds instead, from the
  least round that is not in it (`LeastNumber`, which comes from the
  well-foundedness of finite subsets). `Recursion` shows with it that a function
  that is computed from round to round exists and is unique, so that the model's
  recursive functions are what their equations say (`CompileLoop`, `CaptureLoop`),
  and so is the library's `FlattenSeq` (`FlattenLoop`).
* Both loops cut a text into pieces, and so does the reference when it puts them
  together. `Cuts` says this once: positions that grow from 0, and between two of
  them the piece. A text with cuts that reach its end is its pieces, flattened
  (`CutsFlatten`), and a flattened sequence has such cuts (`FlattenCuts`).
* compile's loop keeps `ReadTo`: the text up to the cursor is cut into what the
  segments look like, its braces are in pairs, a variable is last, and no two
  variables are neighbours. `CompileSound` follows; for `CompileComplete`, the
  first brace behind the cursor of a text that is well formed opens a pair that
  compile accepts (`NextOpens`, `RoundGoesOn`), and behind the last pair there is
  none (`FinishEnds`).
* capture's loop keeps `ReadSoFar`: the URI up to the cursor is cut into the
  segments with the captured values put in (`CaptureRebuilds`). The other way
  round, the cuts of a URI built from a template are where capture goes
  (`TakesBack`): a literal is there, and the literal behind a variable, which is
  not empty because neighbours alternate, cannot be found earlier, because its
  first character would be one of the value's.
* A set stands for a result that may fail; `CompileOne` and `CaptureOne` say that
  there is never more than one, so the registry's choice among the results of
  compile is none (`MatchersAreCompiled`).

Then about tasks, for any set of them: `TableAgrees`, `StatusAgrees`,
`PolledHasResult`. An entry exists only at certain stages of its handler
(`Staged`), and at those stages unless the table was swept (`Unswept`), so that
the handler's later critical sections find what the first one made or nothing at
all. Every writer of a final status writes the matching result (`Final`), in
whatever order they come.

**`McpNotifyProofs`**: `SubscriptionsHold`, `OneLateUpdate`, `DueAreTold`, for any
number of sessions, resources, requests and restarts.

* What a client was told is true of the entries because what a handler changed is
  still so when its client is answered (`InEffect`), unless an opposite request
  overlapped it; `Overlaps` says that both of such a pair are marked, and
  `Pending` that while a request runs its client does not count on the opposite.
  Prunings keep open sessions, and a session is opened once (`Known`).
* A client that was sent an update too late is not in the rest of the copy
  (`LateOnce`), and the next copy is of an entry without it.
* A client that is due has been sent to or is still in the copy (`Served`), since
  the copy is of a list that had it (`Joined`, and the first theorem).
* `TypeCorrect` includes that no list and no copy has a session twice
  (`EachOnce`), so that lists are bounded by the sessions, however often those
  subscribe.

`Kept` is a choice. That there is something to choose (`KeptOfAll`) is shown
along the list: were there a first position up to which it fails, it would not
fail one before (`LeastNumber`, from the well-foundedness of finite subsets).

**`McpFrontProofs`**: `OneListJudges`, `AnswersWarranted`, `ListsAreCurrent`. What
a request was admitted by and looked up in is among the allow-lists and registries
in force since it arrived, because these histories grow with every change
(`RequestOf`);
`FindWarranted` and `ResolveWarranted` are about the look-up itself. An old copy
of a list is among those that a running announcement has yet to tell (`Told`).

**`SseSessionsProofs`**: `EndpointIsFirst`, `EventsOnce`, `NamesCollide`. The
events of a stream's channel grow by position and no two streams have one in
common (`OrderOf`). The endpoint goes in once, when the handler is at it, and if
something was there before, 1C had the id from elsewhere (`FirstOf`, `Elsewhere`):
1C cannot have it from the stream itself, which is past its endpoint when it is
announced (`Known`). This holds for shared and agreed ids as for any other; that
1C sends to announced and agreed ids only is the assumption it rests on. A session is held by a stream of its id (`Held`), and ids from the
counter are unshared (`NumberOf`, `CounterOK`).

**`WsClientProofs`**: `FramesKept`, `ConnectionKept`. What 1C got is the beginning
of what was sent and what waits is the rest, by position (`InOrder`).

**Assumptions.** Those of the modules' constants, and nothing else. Bounds are
naturals. The values that stand for nothing are none of the real ones: that
`NoRequest` is no request is what lets an empty entry be told from a full one.
The kinds of registry entries of `McpFront` are told apart by name, and none of
its templates is one of the words for an outcome; no resource of `McpNotify` is
called `"list"` or `"none"`, words of the model. The texts of `McpResources` are
sequences of its alphabet, which has the two braces, and no name has one
(`is_supported_variable_char` accepts letters, digits and three marks). Requests (`HttpBridge`), streams
and sessions (`McpNotify`) are finite sets, since counters and lists are compared
with how many there are; templates are, since the code counts those that match.

**Only model-checked.** Liveness, that is the nine properties of that kind in the
runs: the prover has no rule for it here. The findings are shown by
counterexamples.

## Findings

Each is a run that TLC refutes, with the sentence that it contradicts in
`PROJECT.json`.

* **A lost HTTP request stays in the response map** (`http_waiter_leak`).
  `handle_http_request` removes its entry after a timeout or a refused event,
  but a client that disconnects drops it at its await. The entry remains until 1C
  answers it or the server stops. `docs/architecture/arc42/architecture.md:380`
  says that lost answers are removed from the maps.
* **An SSE session outlives its client** (`sse_disconnect`). Nothing in the
  stream removes its session; `architecture.md:277` says that a broken connection
  does.
* **A dropped run may speak over its successor** (`session_zombie`). An abort does
  not interrupt `external_event`, so after `session.start` has replaced a run, the
  old one can still deliver the event it was in. `session/addin.rs:82-83` says
  that the new connect does not start on top of a zombie task. `AtMostOneStale`
  is what does hold: one event, no more.

Behaviour worth knowing that no document contradicts: a request or a stream
accepted while the server stops enters a map after its sweep; the MCP one is found
by the next server, the HTTP one ends by its timeout, and the stream stays,
holding up the graceful shutdown. A batch of templates that fails leaves those
before the failing one registered. A client of an SSE stream whose id 1C has already
may see an event before its endpoint. A state event of the session that the
platform refuses three times is not repeated: 1C's view stays wrong until the next
one. A request may be passed to 1C for an entry that 1C has just removed. A session that closes between its subscription
and the lock leaves an empty entry in `subscriptions` until the next change or update of that
resource.

## Not modelled

* `normalize_protocol_version` and the stateless routes: functions of one request
  that no other step depends on. `session_params.rs`: the precedence of three
  texts, a matter of scanning them. `set_server_info`: one value, read and
  written whole. Task progress: it changes the text and the time of an entry.
* The lengths of delays (backoff, 150 ms pacing) and of payloads.
* JSON, schemas, headers, logging, error texts.
* rmcp, axum, tokio, the platform: modelled from how the code uses them, and
  marked external in the map. A send to an MCP session is assumed to return.

## Plan

1. Done: models of the MCP and HTTP bridges and their abstract exchange, the way
   into the MCP server, tasks, notifications, resource templates, SSE, the session
   tunnel with its pacer, and the WebSocket client.
2. Done: proofs of all their safety properties, for every value of the constants.
3. Left: theorems beyond the runs, such as when an entry of a lost HTTP request is
   gone and what a swept task can still be asked; progress of tasks; the templates
   whose values contain the literal behind them, about which only soundness is
   shown.
