-------------------------- MODULE ActionExecution --------------------------
(***************************************************************************)
(* The execution of a paid WebMCP action and its cancellation              *)
(* (services/action_executor.py).                                          *)
(*                                                                         *)
(* The executor commits three times, and the buyer may cancel in between,  *)
(* more than once.  Nothing is locked: each works on the row as it read    *)
(* it, and an UPDATE carries only the columns whose values differ from     *)
(* that.  The money of this table is a column, payment_status; no ledger   *)
(* entry goes with it.                                                     *)
(***************************************************************************)
CONSTANTS
  Executions, Cancellers, NoExecution

VARIABLES
  actions,    \* the table action_executions
  executors,  \* where execute_action is: pc, and the row as it knows it
  cancels     \* where cancel_execution is

vars == <<actions, executors, cancels>>

NoAction == [status |-> "none", payment |-> "held", verified |-> FALSE]
NotRunning == [pc |-> "idle", view |-> NoAction]
NoCancel == [pc |-> "idle", of |-> NoExecution, view |-> NoAction]

Init ==
  /\ actions = [x \in Executions |-> NoAction]
  /\ executors = [x \in Executions |-> NotRunning]
  /\ cancels = [c \in Cancellers |-> NoCancel]

\* The row after an UPDATE of what is new to the one who writes.
Write(row, view, new) ==
  [f \in DOMAIN row |-> IF new[f] = view[f] THEN row[f] ELSE new[f]]

\* The payment of a completed execution.
WhileHeld(view, valid) == IF view.payment = "held" /\ valid THEN "captured" ELSE "released"  \* mutant
Payment(view, valid) == IF valid THEN "captured" ELSE "released"
-----------------------------------------------------------------------------
(* execute_action *)

\* The checks have passed: the row, with the funds held.
Create(x) ==
  /\ actions[x].status = "none"
  /\ actions' = [actions EXCEPT ![x].status = "pending"]
  /\ executors' = [executors EXCEPT ![x].pc = "created"]
  /\ UNCHANGED cancels

\* The refresh reads what the row is by now.
Refresh(x) ==
  /\ executors[x].pc = "created"
  /\ executors' = [executors EXCEPT ![x] = [pc |-> "refreshed", view |-> actions[x]]]
  /\ UNCHANGED <<actions, cancels>>

Update(x, new, pc) ==
  /\ actions' = [actions EXCEPT ![x] = Write(@, executors[x].view, new)]
  /\ executors' = [executors EXCEPT ![x] = [pc |-> pc, view |-> new]]
  /\ UNCHANGED cancels

Start(x) ==
  /\ executors[x].pc = "refreshed"
  /\ Update(x, [executors[x].view EXCEPT !.status = "executing"], "executing")

\* The tool has answered, and its proof is verified.
Complete(x, valid) ==
  LET view == executors[x].view IN
  /\ executors[x].pc = "executing"
  /\ Update(x, [status |-> "completed", verified |-> valid, payment |-> Payment(view, valid)],
            "committed")

\* The handler of the exceptions of the tool, of the proof, and of what follows the
\* commit: the refresh and the broadcast.
Fail(x) ==
  /\ executors[x].pc \in {"executing", "committed"}
  /\ Update(x, [executors[x].view EXCEPT !.status = "failed", !.payment = "released"], "done")

\* The answer; or the process stops, or a commit fails, and the row stays as it is.
Leave(x) ==
  /\ executors[x].pc \notin {"idle", "done"}
  /\ executors' = [executors EXCEPT ![x] = [NotRunning EXCEPT !.pc = "done"]]
  /\ UNCHANGED <<actions, cancels>>
-----------------------------------------------------------------------------
(* cancel_execution *)

Read(c, x) ==
  /\ cancels[c].pc = "idle" /\ actions[x].status = "pending"
  /\ cancels' = [cancels EXCEPT ![c] = [pc |-> "write", of |-> x, view |-> actions[x]]]
  /\ UNCHANGED <<actions, executors>>

Cancel(c) ==
  LET x == cancels[c].of
      view == cancels[c].view IN
  /\ cancels[c].pc = "write"
  /\ actions' = [actions EXCEPT ![x] =
       Write(@, view, [view EXCEPT !.status = "failed", !.payment = "released"])]
  /\ cancels' = [cancels EXCEPT ![c] = NoCancel]
  /\ UNCHANGED executors
-----------------------------------------------------------------------------
Next ==
  \/ \E x \in Executions :
       \/ Create(x) \/ Refresh(x) \/ Start(x) \/ Fail(x) \/ Leave(x)
       \/ \E valid \in BOOLEAN : Complete(x, valid)
  \/ \E c \in Cancellers : Cancel(c) \/ \E x \in Executions : Read(c, x)

Spec == Init /\ [][Next]_vars
-----------------------------------------------------------------------------
(* Properties *)

Rows == [status : {"none", "pending", "executing", "completed", "failed"},
         payment : {"held", "captured", "released"}, verified : BOOLEAN]

\* The shape of the rows and of what the handlers know of them.
TypeOK ==
  /\ actions \in [Executions -> Rows]
  /\ executors \in [Executions ->
       [pc : {"idle", "created", "refreshed", "executing", "committed", "done"}, view : Rows]]
  /\ cancels \in [Cancellers ->
       [pc : {"idle", "write"}, of : Executions \cup {NoExecution}, view : Rows]]

\* Status and payment agree although different handlers write the columns over each
\* other from what they read before: a completed execution has captured its funds
\* exactly when its proof was verified and has released them otherwise, a failed or
\* canceled one has released them, and funds are captured for no other execution.
OutcomeMatchesPayment ==
  \A x \in Executions : LET row == actions[x] IN
    /\ row.status = "completed" => row.payment = IF row.verified THEN "captured" ELSE "released"
    /\ row.status = "failed" => row.payment = "released"
    /\ row.payment = "captured" => row.status = "completed"
=============================================================================
