------------------------------ MODULE A2ATasks ------------------------------
(***************************************************************************)
(* The task server of an A2A agent (agents/a2a_servers: task_manager.py    *)
(* and the JSON-RPC handlers of server.py).                                *)
(*                                                                         *)
(* One event loop runs everything, so a step goes from one await to the    *)
(* next.  Every task has one queue of updates; only the response of its    *)
(* sendSubscribe takes from it, and not before the skill's handler is      *)
(* done.  Its client may disconnect, which cancels the response, the       *)
(* handler included; no one else then ever ends that task.                 *)
(***************************************************************************)
EXTENDS Integers, Sequences

CONSTANTS Tasks

VARIABLES
  stored,    \* the tasks in TaskManager._tasks
  tasks,     \* the Task objects: state, artifacts, queue of updates
  calls      \* where the tasks/send or tasks/sendSubscribe of a task is

vars == <<stored, tasks, calls>>

Terminal == {"completed", "failed", "canceled"}

\* valid_transitions
Succeeds == {"completed", "input-required", "canceled"}                \* mutant
FromWorking == {"completed", "failed", "input-required", "canceled"}
Allowed ==
  ({"working"} \X FromWorking) \cup ({"submitted", "input-required"} \X {"working", "canceled"})

Init ==
  /\ stored = {}
  /\ tasks = [t \in Tasks |-> [state |-> "none", artifacts |-> 0, updates |-> <<>>]]
  /\ calls = [t \in Tasks |-> "none"]

\* update_state: nothing for an unknown task or a transition that is not allowed.
UpdateState(t, task, new) ==
  IF t \in stored /\ <<task.state, new>> \in Allowed
  THEN [state |-> new, artifacts |-> task.artifacts, updates |-> Append(task.updates, new)]
  ELSE task

\* add_artifact: in any state.
AddArtifact(t, task) ==
  IF t \in stored
  THEN [state |-> task.state, artifacts |-> task.artifacts + 1, updates |-> Append(task.updates, "artifact")]
  ELSE task

Take(task) == [task EXCEPT !.updates = Tail(@)]
-----------------------------------------------------------------------------
(* The requests *)

\* tasks/send: created, working, and the handler is awaited.
Send(t) ==
  /\ tasks[t].state = "none"
  /\ stored' = stored \cup {t}
  /\ tasks' = [tasks EXCEPT ![t] = [state |-> "working", artifacts |-> 0, updates |-> <<"working">>]]
  /\ calls' = [calls EXCEPT ![t] = "send"]

\* tasks/sendSubscribe: created; the generator starts with the response.
SendSubscribe(t) ==
  /\ tasks[t].state = "none"
  /\ stored' = stored \cup {t}
  /\ tasks' = [tasks EXCEPT ![t].state = "submitted"]
  /\ calls' = [calls EXCEPT ![t] = "response"]

StartStream(t) ==
  /\ calls[t] = "response"
  /\ tasks' = [tasks EXCEPT ![t] = UpdateState(t, @, "working")]
  /\ calls' = [calls EXCEPT ![t] = "subscribe"]
  /\ UNCHANGED stored

\* The handler is done: artifact and completed, or failed; a task canceled meanwhile
\* keeps its state and gets the artifact.  The stream of a sendSubscribe begins: the
\* loop of stream_updates, which would wait for updates while the task is not over, is
\* passed at once (StreamsAreOver), and there is no stream of a task cleaned up.
HandlerEnds(t, ok) ==
  /\ calls[t] \in {"send", "subscribe"}
  /\ tasks' = [tasks EXCEPT ![t] =
       IF ok THEN UpdateState(t, AddArtifact(t, @), "completed")
       ELSE UpdateState(t, @, "failed")]
  /\ calls' = [calls EXCEPT ![t] = IF @ = "subscribe" /\ t \in stored THEN "drain" ELSE "done"]
  /\ UNCHANGED stored

\* The response of a sendSubscribe: the updates left in the queue, then the task.
Respond(t) ==
  /\ calls[t] = "drain"
  /\ IF tasks[t].updates = <<>>
     THEN calls' = [calls EXCEPT ![t] = "done"] /\ UNCHANGED tasks
     ELSE tasks' = [tasks EXCEPT ![t] = Take(@)] /\ UNCHANGED calls
  /\ UNCHANGED stored

\* The client is gone.
Disconnect(t) ==
  /\ calls[t] \in {"response", "subscribe", "drain"}
  /\ calls' = [calls EXCEPT ![t] = "gone"]
  /\ UNCHANGED <<stored, tasks>>

\* tasks/cancel
Cancel(t) ==
  /\ t \in stored /\ tasks[t].state \notin Terminal
  /\ tasks' = [tasks EXCEPT ![t] = UpdateState(t, @, "canceled")]
  /\ UNCHANGED <<stored, calls>>

\* cleanup_completed: an old task in a terminal state.
Cleanup(t) ==
  /\ t \in stored /\ tasks[t].state \in Terminal
  /\ stored' = stored \ {t}
  /\ UNCHANGED <<tasks, calls>>
-----------------------------------------------------------------------------
Next ==
  \E t \in Tasks :
    \/ Send(t) \/ SendSubscribe(t) \/ StartStream(t) \/ Respond(t)
    \/ \E ok \in BOOLEAN : HandlerEnds(t, ok)
    \/ Disconnect(t) \/ Cancel(t) \/ Cleanup(t)

Spec == Init /\ [][Next]_vars
-----------------------------------------------------------------------------
(* Properties *)

\* The shape of the tasks and of the calls.
TypeOK ==
  /\ stored \subseteq Tasks
  /\ \A t \in Tasks :
       /\ tasks[t].state \in {"none", "submitted", "working"} \cup Terminal
       /\ tasks[t].artifacts \in 0 .. 1
       /\ \A i \in DOMAIN tasks[t].updates :
            tasks[t].updates[i] \in {"working", "artifact"} \cup Terminal
  /\ calls \in [Tasks -> {"none", "response", "send", "subscribe", "drain", "done", "gone"}]

\* No stream waits, one heartbeat after the other, for a task that nobody will end: when
\* it begins the task is over, also one that was canceled before its handler began.
StreamsAreOver == \A t \in Tasks : calls[t] = "drain" => tasks[t].state \in Terminal
=============================================================================
