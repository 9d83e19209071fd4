------------------------------- MODULE McpTasks -------------------------------
(***************************************************************************)
(* MCP tasks (src/mcp/server.rs, src/mcp/addin.rs): a task-augmented       *)
(* tools/call stores an entry, tells 1C, and returns at once; the client   *)
(* polls or cancels the task, 1C reports on it and completes it, and stops *)
(* and starts of the server sweep the table.                               *)
(*                                                                         *)
(* McpBridge shows that numbers are never shared, so a task stands for its *)
(* own id here.  Each step is one critical section of the tasks lock, or   *)
(* one event.                                                              *)
(***************************************************************************)
EXTENDS Naturals

CONSTANT Tasks   \* task-augmented calls that pass prepare_tool_call

VARIABLES
    server,   \* McpAddIn.server: "down", "up", "closing" inside mcp_stop
    stage,    \* where the enqueue_task handler of each task is
    live,     \* ids with an entry in the tasks map
    status,   \* TaskEntry.task.status
    result,   \* TaskEntry.result: "none", "ok", "error", "cancelled"
    hasToken, \* the event carried the task's progress token
    \* history, for the properties only
    swept,    \* the table was cleared after the entry was made
    forced,   \* the status was last set by mcp_set_task_status
    polled    \* a client was shown a final status, not a forced one, of this entry

entryVars == <<live, status, result>>
taskVars == <<server, stage, entryVars, hasToken, swept, forced, polled>>

\* The words that parse_task_status accepts.
Statuses == {"working", "input_required", "completed", "failed", "cancelled"}

TasksInit ==
    /\ server = "down"
    /\ stage = [t \in Tasks |-> "idle"]
    /\ live = {}
    /\ status = [t \in Tasks |-> "working"]
    /\ result = [t \in Tasks |-> "none"]
    /\ hasToken = [t \in Tasks |-> FALSE]
    /\ swept = [t \in Tasks |-> FALSE]
    /\ forced = [t \in Tasks |-> FALSE]
    /\ polled = [t \in Tasks |-> FALSE]

Advance(t, from, to) == stage[t] = from /\ stage' = [stage EXCEPT ![t] = to]

SetEntry(t, s, r) ==
    /\ t \in live
    /\ status' = [status EXCEPT ![t] = s]
    /\ result' = [result EXCEPT ![t] = r]
    /\ forced' = [forced EXCEPT ![t] = FALSE]
    /\ UNCHANGED <<server, stage, live, hasToken, swept, polled>>

Sweep == live' = {} /\ swept' = [t \in Tasks |-> TRUE]

-----------------------------------------------------------------------------
(* The handler of the call.                                                *)

Accept(t) ==
    /\ server \in {"up", "closing"}
    /\ Advance(t, "idle", "accepted")
    /\ UNCHANGED <<server, entryVars, hasToken, swept, forced, polled>>

CreateEntry(t) ==
    /\ Advance(t, "accepted", "created")
    /\ live' = live \cup {t}
    /\ status' = [status EXCEPT ![t] = "working"]
    /\ result' = [result EXCEPT ![t] = "none"]
    /\ swept' = [swept EXCEPT ![t] = FALSE]
    /\ UNCHANGED <<server, hasToken, forced, polled>>

\* A second critical section; the entry may have been swept in between.
ReadToken(t) ==
    /\ Advance(t, "created", "ready")
    /\ hasToken' = [hasToken EXCEPT ![t] = t \in live]
    /\ UNCHANGED <<server, entryVars, swept, forced, polled>>

\* The event is queued and the client gets the task.
EmitTask(t) ==
    /\ Advance(t, "ready", "returned")
    /\ UNCHANGED <<server, entryVars, hasToken, swept, forced, polled>>

EmitFails(t) ==
    /\ Advance(t, "ready", "failing")
    /\ UNCHANGED <<server, entryVars, hasToken, swept, forced, polled>>

\* Mutant: the client gets the error, the entry stays.
RemoveNothing(t) ==
    /\ Advance(t, "failing", "failed")
    /\ UNCHANGED <<server, entryVars, hasToken, swept, forced, polled>>

RemoveEntry(t) ==
    /\ Advance(t, "failing", "failed")
    /\ live' = live \ {t}
    /\ UNCHANGED <<server, status, result, hasToken, swept, forced, polled>>

-----------------------------------------------------------------------------
(* Clients.  A handler of an earlier request may still run after a stop, so *)
(* a cancellation does not look at the server.                              *)

\* Mutant: a result that came first is kept.
CancelKeepsResult(t) ==
    SetEntry(t, "cancelled", IF result[t] = "none" THEN "cancelled" ELSE result[t])

\* tasks/get and tasks/list show the entry as it is.
PollTask(t) ==
    /\ t \in live
    /\ polled' = [polled EXCEPT ![t] =
                    @ \/ (status[t] \in {"completed", "failed", "cancelled"} /\ ~forced[t])]
    /\ UNCHANGED <<server, stage, entryVars, hasToken, swept, forced>>

\* tasks/result has something to return, be it an error.
HasResult(t) == t \in live /\ result[t] # "none"

\* tasks/cancel overwrites whatever the entry says, a finished task included.
CancelTask(t) == SetEntry(t, "cancelled", "cancelled")

-----------------------------------------------------------------------------
(* The 1C thread.                                                          *)

Codes  == {99, 200, 400}
Bodies == {"empty", "no_json", "error", "result", "other"}

\* parse_mcp_response: an error member outweighs the status code, and the code
\* outweighs a result member.
Succeeds(code, body) == body \in {"result", "other"} /\ code < 400

\* mcp_complete_task overwrites too, a cancelled task included.
CompleteTask(t, code, body) ==
    /\ code \in 100..599
    /\ server = "up"
    /\ IF Succeeds(code, body)
       THEN SetEntry(t, "completed", "ok")
       ELSE SetEntry(t, "failed", "error")

\* Mutant: setting a status starts the task afresh.
SetStatusClears(t, s) ==
    /\ server = "up"
    /\ t \in live
    /\ status' = [status EXCEPT ![t] = s]
    /\ result' = [result EXCEPT ![t] = "none"]
    /\ forced' = [forced EXCEPT ![t] = TRUE]
    /\ UNCHANGED <<server, stage, live, hasToken, swept, polled>>

\* Any status may follow any other; the result is left alone.
SetTaskStatus(t, s) ==
    /\ server = "up"
    /\ t \in live
    /\ status' = [status EXCEPT ![t] = s]
    /\ forced' = [forced EXCEPT ![t] = TRUE]
    /\ UNCHANGED <<server, stage, live, result, hasToken, swept, polled>>

\* mcp_start clears the table before it binds the address; the bind may fail.
Start ==
    /\ server = "down"
    /\ server' \in {"up", "down"}
    /\ Sweep
    /\ UNCHANGED <<stage, status, result, hasToken, forced, polled>>

StopClear ==
    /\ server = "up"
    /\ server' = "closing"
    /\ Sweep
    /\ UNCHANGED <<stage, status, result, hasToken, forced, polled>>

StopShutdown ==
    /\ server = "closing"
    /\ server' = "down"
    /\ UNCHANGED <<stage, entryVars, hasToken, swept, forced, polled>>

-----------------------------------------------------------------------------
TasksNext ==
    \/ \E t \in Tasks :
          \/ Accept(t)
          \/ CreateEntry(t)
          \/ ReadToken(t)
          \/ EmitTask(t)
          \/ EmitFails(t)
          \/ RemoveEntry(t)
          \/ CancelTask(t)
          \/ PollTask(t)
          \/ \E code \in Codes, body \in Bodies : CompleteTask(t, code, body)
          \/ \E s \in Statuses : SetTaskStatus(t, s)
    \/ Start
    \/ StopClear
    \/ StopShutdown

TasksSpec == TasksInit /\ [][TasksNext]_taskVars

-----------------------------------------------------------------------------
(* Properties.                                                             *)

TasksTypeOK ==
    /\ server \in {"down", "up", "closing"}
    /\ stage \in [Tasks -> {"idle", "accepted", "created", "ready", "returned",
                            "failing", "failed"}]
    /\ live \in SUBSET Tasks
    /\ status \in [Tasks -> {"working", "input_required", "completed", "failed",
                             "cancelled"}]
    /\ result \in [Tasks -> {"none", "ok", "error", "cancelled"}]
    /\ hasToken \in [Tasks -> BOOLEAN]
    /\ swept \in [Tasks -> BOOLEAN]
    /\ forced \in [Tasks -> BOOLEAN]
    /\ polled \in [Tasks -> BOOLEAN]

\* The table agrees with the answers: a task that the client and 1C were told of
\* can be found by both until a stop or a start sweeps the table, and its event
\* names its progress token; a task whose call failed is gone for good.
TableMatchesAnswers ==
    \A t \in Tasks :
        /\ stage[t] = "returned" /\ ~swept[t] => t \in live /\ hasToken[t]
        /\ stage[t] = "failed" => t \notin live

\* What tasks/get says and what tasks/result returns agree in every order of
\* cancellation and completion, unless 1C set the status itself.
StatusMatchesResult ==
    \A t \in live : ~forced[t] =>
        <<status[t], result[t]>> \in
            {<<"working", "none">>, <<"completed", "ok">>, <<"failed", "error">>,
             <<"cancelled", "cancelled">>}

\* A client that was shown a final status gets a result from then on, for as long
\* as the task exists, whatever cancellations, completions and statuses follow.
PolledTaskHasResult == \A t \in live : polled[t] => HasResult(t)
=============================================================================
