----------------------------- MODULE Federation -----------------------------
(***************************************************************************)
(* The health of federated MCP servers (mcp_federation_service.py,         *)
(* mcp_health_monitor.py, the endpoints of api/v3_mcp_federation.py).      *)
(*                                                                         *)
(* Tool calls, refreshes, health requests and the monitor's rounds all     *)
(* read a server's row, call the server, and write a score computed from   *)
(* what they read; a column is written only if it differs from that.  A    *)
(* row read again in the same session is the same object, not read anew.   *)
(***************************************************************************)
EXTENDS Integers

CONSTANTS
  Servers,      \* of one namespace
  Jobs,         \* requests under way
  NoServer,
  MaxFailures   \* bound: failed calls per server

VARIABLES
  servers,      \* the table mcp_servers: health_score, status
  jobs,         \* where a request is: its kind, server, and the row as it knows it
  monitor,      \* where _run_health_checks is: the rows it has read
  failures      \* history: failed calls of each server

vars == <<servers, jobs, monitor, failures>>

NoRow == [score |-> 100, status |-> "none"]
NoJob == [kind |-> "idle", server |-> NoServer, view |-> NoRow]

Init ==
  /\ servers = [v \in Servers |-> NoRow]
  /\ jobs = [j \in Jobs |-> NoJob]
  /\ monitor = <<>>
  /\ failures = [v \in Servers |-> 0]

In(statuses) == {v \in Servers : servers[v].status \in statuses}
Known == In({"active", "degraded", "inactive"})

AtLeast0(n) == IF n < 0 THEN 0 ELSE n
AtMost100(n) == IF n > 100 THEN 100 ELSE n
Or(score, default) == IF score = 0 THEN default ELSE score

\* The row after an UPDATE; nothing happens to a row that was deleted.
Write(row, view, new) ==
  IF row.status = "gone" THEN row
  ELSE [f \in DOMAIN row |-> IF new[f] = view[f] THEN row[f] ELSE new[f]]

\* update_health_score, and the monitor's verdicts.
HalfIsOut(score) ==                                                    \* mutant
  [score |-> score, status |-> IF score <= 50 THEN "inactive" ELSE "active"]
Rated(score) ==
  [score |-> score, status |-> IF score = 0 THEN "inactive"
                               ELSE IF score < 50 THEN "degraded" ELSE "active"]
Lowered(view, points) == Rated(AtLeast0(view.score - points))

Checked(view, result) ==
  CASE result = "healthy" -> [score |-> AtMost100(Or(view.score, 50) + 10), status |-> "active"]
    [] result = "unhealthy" -> LET n == AtLeast0(Or(view.score, 100) - 15) IN
                               [score |-> n, status |-> IF n > 20 THEN "degraded" ELSE "inactive"]
    [] result = "error" -> LET n == AtLeast0(Or(view.score, 100) - 20) IN
                           [score |-> n, status |-> IF n > 0 THEN "degraded" ELSE "inactive"]
-----------------------------------------------------------------------------
Register(v) ==
  /\ servers[v].status = "none"
  /\ servers' = [servers EXCEPT ![v].status = "active"]
  /\ UNCHANGED <<jobs, monitor, failures>>

Unregister(v) ==
  /\ v \in Known
  /\ servers' = [servers EXCEPT ![v] = [NoRow EXCEPT !.status = "gone"]]
  /\ UNCHANGED <<jobs, monitor, failures>>

\* route_tool_call: the active server with the highest score; refresh_server_tools and
\* the health request: any server.
Begin(j, kind, v) ==
  /\ jobs[j].kind = "idle"
  /\ IF kind = "route"
     THEN v \in In({"active"}) /\ \A w \in In({"active"}) : servers[v].score >= servers[w].score
     ELSE v \in Known
  /\ jobs' = [jobs EXCEPT ![j] = [kind |-> kind, server |-> v, view |-> servers[v]]]
  /\ UNCHANGED <<servers, monitor, failures>>

\* The server answers: a refresh makes it healthy.
Succeed(j) ==
  LET v == jobs[j].server IN
  /\ jobs[j].kind \in {"route", "refresh", "health"}
  /\ servers' = IF jobs[j].kind = "route" THEN servers
                ELSE [servers EXCEPT ![v] =
                        Write(@, jobs[j].view, [score |-> 100, status |-> "active"])]
  /\ jobs' = [jobs EXCEPT ![j] = NoJob]
  /\ UNCHANGED <<monitor, failures>>

\* It answers with an HTTP error, or not at all.
Points(kind, http) == (IF http THEN 10 ELSE 20) + (IF kind = "route" THEN 0 ELSE 10)

Fail(j, http) ==
  LET v == jobs[j].server
      new == Lowered(jobs[j].view, Points(jobs[j].kind, http)) IN
  /\ jobs[j].kind \in {"route", "refresh", "health"} /\ failures[v] < MaxFailures
  /\ failures' = [failures EXCEPT ![v] = @ + 1]
  /\ servers' = [servers EXCEPT ![v] = Write(@, jobs[j].view, new)]
  /\ jobs' = [jobs EXCEPT ![j] = IF @.kind = "health"
                                 THEN [@ EXCEPT !.kind = "failed", !.view = new] ELSE NoJob]
  /\ UNCHANGED monitor

\* The health request lowers the score of a failed refresh once more.
LowerAgain(j) ==
  /\ jobs[j].kind = "failed"
  /\ servers' = [servers EXCEPT ![jobs[j].server] =
                   Write(@, jobs[j].view, Lowered(jobs[j].view, 20))]
  /\ jobs' = [jobs EXCEPT ![j] = NoJob]
  /\ UNCHANGED <<monitor, failures>>

\* The process stops, or the database fails.
Leave(j) ==
  /\ jobs[j].kind # "idle"
  /\ jobs' = [jobs EXCEPT ![j] = NoJob]
  /\ UNCHANGED <<servers, monitor, failures>>
-----------------------------------------------------------------------------
\* A round of the monitor: the rows of active and degraded servers,
ReadAll ==
  /\ monitor = <<>> /\ In({"active", "degraded"}) # {}
  /\ monitor' = [v \in In({"active", "degraded"}) |-> servers[v]]
  /\ UNCHANGED <<servers, jobs, failures>>

\* then all results in one commit, which fails as a whole if one row is gone.
WriteAll(results) ==
  LET failed == {v \in DOMAIN monitor : results[v] # "healthy"} IN
  /\ monitor # <<>> /\ \A v \in failed : failures[v] < MaxFailures
  /\ failures' = [v \in Servers |-> IF v \in failed THEN failures[v] + 1 ELSE failures[v]]
  /\ servers' = IF \E v \in DOMAIN monitor : servers[v].status = "gone" THEN servers
                ELSE [v \in Servers |-> IF v \notin DOMAIN monitor THEN servers[v]
                                        ELSE Write(servers[v], monitor[v],
                                                   Checked(monitor[v], results[v]))]
  /\ monitor' = <<>>
  /\ UNCHANGED jobs
-----------------------------------------------------------------------------
Next ==
  \/ \E v \in Servers : Register(v) \/ Unregister(v)
  \/ \E j \in Jobs :
       \/ \E kind \in {"route", "refresh", "health"}, v \in Servers : Begin(j, kind, v)
       \/ Succeed(j) \/ LowerAgain(j) \/ Leave(j)
       \/ \E http \in BOOLEAN : Fail(j, http)
  \/ ReadAll
  \/ \E results \in [Servers -> {"healthy", "unhealthy", "error"}] : WriteAll(results)

Spec == Init /\ [][Next]_vars
-----------------------------------------------------------------------------
(* Properties *)

Rows == [score : 0 .. 100, status : {"none", "active", "degraded", "inactive", "gone"}]

\* The shape of the rows and of what the handlers know of them.
TypeOK ==
  /\ servers \in [Servers -> Rows]
  /\ jobs \in [Jobs -> [kind : {"idle", "route", "refresh", "health", "failed"},
                        server : Servers \cup {NoServer}, view : Rows]]
  /\ DOMAIN monitor \subseteq Servers /\ \A v \in DOMAIN monitor : monitor[v] \in Rows
  /\ failures \in [Servers -> 0 .. MaxFailures]

\* No single failed call makes a server inactive, which neither the routing nor the
\* monitor ever undoes: it takes two failed calls, and no call costs more than half the
\* score, although requests and the monitor overwrite each other's columns from rows
\* read before their calls.
OutOnlyAfterFailures ==
  \A v \in Servers :
    /\ servers[v].status = "inactive" => failures[v] >= 2
    /\ servers[v].score >= 100 - 50 * failures[v]
=============================================================================
