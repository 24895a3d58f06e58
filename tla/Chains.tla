------------------------------- MODULE Chains -------------------------------
(***************************************************************************)
(* Executions of agent chains and their settlement                         *)
(* (chain_registry_service.execute_chain, chain_settlement_service).       *)
(*                                                                         *)
(* A request is answered at once and the workflow runs in a background     *)
(* task, whose outcome Orchestration models: here it ends with a status    *)
(* and the nodes that completed.  A settlement pays these one after the    *)
(* other, each by a transfer of the token ledger under a key made of the   *)
(* execution and the node.  Of Ledger's transfer only this matters here:   *)
(* a key that is found is a replay, an error of its own (ValueError) is    *)
(* recorded and the next node is paid, and a key that another settlement   *)
(* commits in between fails the insert, which ends the settlement.         *)
(***************************************************************************)
EXTENDS Integers

CONSTANTS
  Requests,     \* concurrent requests with one idempotency key
  Execs,        \* ids of executions
  Nodes,        \* the agent_call nodes of the template
  Priced,       \* those whose agent has a listed price
  Settlers, NoExec, NoNode

VARIABLES
  requests,     \* where execute_chain is
  chains,       \* the table chain_executions
  runs,         \* executions whose background task is alive
  settlements,  \* where settle_chain_execution is
  transfers     \* the committed ledger rows of each execution and node

vars == <<requests, chains, runs, settlements, transfers>>

NoRow == [key |-> FALSE, status |-> "free", completed |-> {}]
NotSettling == [pc |-> "idle", exec |-> NoExec, todo |-> {}, node |-> NoNode, failed |-> FALSE]

Init ==
  /\ requests = [r \in Requests |-> "idle"]
  /\ chains = [e \in Execs |-> NoRow]
  /\ runs = {}
  /\ settlements = [s \in Settlers |-> NotSettling]
  /\ transfers = [e \in Execs |-> [n \in Nodes |-> 0]]

\* The unique idempotency keys, of executions and of the ledger.
KeyUsed == \E e \in Execs : chains[e].key
NoIndex(e, n) == FALSE                                                 \* mutant
KeyTaken(e, n) == transfers[e][n] > 0
-----------------------------------------------------------------------------
(* execute_chain *)

\* No execution has the key, or the request has none; the resolved workflow is made.
Ask(r, keyed) ==
  /\ requests[r] = "idle" /\ keyed => ~KeyUsed
  /\ requests' = [requests EXCEPT ![r] = IF keyed THEN "keyed" ELSE "free"]
  /\ UNCHANGED <<chains, runs, settlements, transfers>>

\* The row, and the task; or another request has the key by now, and its row is the answer.
Insert(r) ==
  /\ requests[r] # "idle"
  /\ requests' = [requests EXCEPT ![r] = "idle"]
  /\ IF requests[r] = "keyed" /\ KeyUsed THEN UNCHANGED <<chains, runs>>
     ELSE \E e \in Execs :
       /\ chains[e].status = "free"
       /\ chains' = [chains EXCEPT ![e] = [key |-> requests[r] = "keyed",
                                           status |-> "pending", completed |-> {}]]
       /\ runs' = runs \cup {e}
  /\ UNCHANGED <<settlements, transfers>>

\* _run_chain: execute_workflow has returned, also because the execution was paused or
\* cancelled, and its status is copied; a workflow that is resumed later is not waited for.
Outcomes == {"completed", "failed", "paused", "cancelled"}
RunEnds(e, status, done) ==
  /\ e \in runs /\ chains[e].status = "pending"
  /\ chains' = [chains EXCEPT ![e].status = status, ![e].completed = done]
  /\ UNCHANGED <<requests, runs, settlements, transfers>>

\* The template's statistics; an exception here marks the execution failed after all.
Statistics(e, ok) ==
  /\ e \in runs /\ chains[e].status # "pending"
  /\ chains' = IF ok THEN chains ELSE [chains EXCEPT ![e].status = "failed"]
  /\ runs' = runs \ {e}
  /\ UNCHANGED <<requests, settlements, transfers>>

\* The process stops: a task is not started again.
Stop(e) ==
  /\ e \in runs /\ runs' = runs \ {e}
  /\ UNCHANGED <<requests, chains, settlements, transfers>>
-----------------------------------------------------------------------------
(* settle_chain_execution *)

At(s, pc) == settlements[s].pc = pc

Begin(s, e) ==
  /\ At(s, "idle") /\ chains[e].status = "completed"
  /\ settlements' = [settlements EXCEPT ![s] =
       [NotSettling EXCEPT !.pc = "next", !.exec = e, !.todo = chains[e].completed]]
  /\ UNCHANGED <<requests, chains, runs, transfers>>

\* The next node: without a price, or its key is found, or it has to be paid.
Select(s, n) ==
  LET e == settlements[s].exec IN
  /\ At(s, "next") /\ n \in settlements[s].todo
  /\ settlements' = [settlements EXCEPT
       ![s].todo = @ \ {n},
       ![s].pc = IF n \notin Priced \/ KeyTaken(e, n) THEN "next" ELSE "transfer",
       ![s].node = IF n \notin Priced \/ KeyTaken(e, n) THEN NoNode ELSE n]
  /\ UNCHANGED <<requests, chains, runs, transfers>>

\* The transfer is committed, or finds its key taken and raises through the settlement,
Pay(s) ==
  LET e == settlements[s].exec
      n == settlements[s].node IN
  /\ At(s, "transfer")
  /\ IF KeyTaken(e, n)
     THEN settlements' = [settlements EXCEPT ![s] = NotSettling] /\ UNCHANGED transfers
     ELSE /\ settlements' = [settlements EXCEPT ![s].pc = "next", ![s].node = NoNode]
          /\ transfers' = [transfers EXCEPT ![e][n] = @ + 1]
  /\ UNCHANGED <<requests, chains, runs>>

\* or it raises ValueError: no account, not enough balance.
Fail(s) ==
  /\ At(s, "transfer")
  /\ settlements' = [settlements EXCEPT ![s].pc = "next", ![s].node = NoNode, ![s].failed = TRUE]
  /\ UNCHANGED <<requests, chains, runs, transfers>>

Answer(s) ==
  /\ At(s, "next") /\ settlements[s].todo = {}
  /\ settlements' = [settlements EXCEPT ![s].pc =
                       IF settlements[s].failed THEN "partial" ELSE "settled"]
  /\ UNCHANGED <<requests, chains, runs, transfers>>

\* The answer is given; or the process stopped, or the database failed.
Leave(s) ==
  /\ ~At(s, "idle")
  /\ settlements' = [settlements EXCEPT ![s] = NotSettling]
  /\ UNCHANGED <<requests, chains, runs, transfers>>
-----------------------------------------------------------------------------
Next ==
  \/ \E r \in Requests : Insert(r) \/ \E keyed \in BOOLEAN : Ask(r, keyed)
  \/ \E e \in Execs :
       \/ \E done \in SUBSET Nodes, status \in Outcomes : RunEnds(e, status, done)
       \/ \E ok \in BOOLEAN : Statistics(e, ok)
       \/ Stop(e)
  \/ \E s \in Settlers :
       \/ \E e \in Execs : Begin(s, e)
       \/ \E n \in Nodes : Select(s, n)
       \/ Pay(s) \/ Fail(s) \/ Answer(s) \/ Leave(s)

Spec == Init /\ [][Next]_vars
-----------------------------------------------------------------------------
(* Properties *)

\* The shape of the tables and of the settlements under way.
TypeOK ==
  /\ requests \in [Requests -> {"idle", "keyed", "free"}]
  /\ chains \in [Execs -> [key : BOOLEAN, completed : SUBSET Nodes,
                           status : {"free", "pending"} \cup Outcomes]]
  /\ runs \subseteq Execs
  /\ settlements \in [Settlers ->
       [pc : {"idle", "next", "transfer", "settled", "partial"}, exec : Execs \cup {NoExec},
        todo : SUBSET Nodes, node : Nodes \cup {NoNode}, failed : BOOLEAN]]
  /\ transfers \in [Execs -> [Nodes -> Nat]]

\* A node is paid once at most, and only after it completed in its own execution; and
\* a settlement that answers "settled" has left every node that has a price paid,
\* whoever paid it: among concurrent settlements of one execution, repeated ones, and
\* ones that were ended by another's key, by an error or by a crash half way.
SettledMeansPaid ==
  /\ \A e \in Execs, n \in Nodes :
       /\ transfers[e][n] <= 1
       /\ transfers[e][n] = 1 => n \in chains[e].completed \cap Priced
  /\ \A s \in Settlers : At(s, "settled") =>
       LET e == settlements[s].exec IN
       \A n \in chains[e].completed \cap Priced : transfers[e][n] = 1
=============================================================================
