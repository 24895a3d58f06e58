--------------------------- MODULE CircuitBreaker ---------------------------
(***************************************************************************)
(* The circuit breaker of one agent (services/circuit_breaker.py), used by *)
(* several threads.  Its lock is held for each look at the state and given *)
(* up before what follows from it: allow_request and record_success first  *)
(* read the property state, which may half-open the circuit, and then take *)
(* the lock again.                                                         *)
(*                                                                         *)
(* The callers are external (in this repository only tests call it): each  *)
(* asks, and records how an allowed call went.                             *)
(***************************************************************************)
EXTENDS Integers

CONSTANTS
  Callers,
  FailureThreshold, HalfOpenMaxCalls,
  MaxFailures          \* bound: failures recorded

VARIABLES
  breaker,   \* _state, _failure_count, _success_count, _half_open_calls
  recovered, \* recovery_timeout has passed since _last_failure_time
  callers,   \* where a caller is, and the state it has read
  recorded,  \* history: failures and successes in a row, by when they were recorded
  broken     \* failures recorded

vars == <<breaker, recovered, callers, recorded, broken>>

Closed == [state |-> "closed", failures |-> 0, successes |-> 0, calls |-> 0]
Idle == [pc |-> "idle", seen |-> "closed"]

Init ==
  /\ breaker = Closed
  /\ recovered = TRUE
  /\ callers = [c \in Callers |-> Idle]
  /\ recorded = [failures |-> 0, successes |-> 0]
  /\ broken = 0

\* The property state.
Look == IF breaker.state = "open" /\ recovered
        THEN [breaker EXCEPT !.state = "half_open", !.calls = 0] ELSE breaker

\* record_failure, on the breaker b.
KeepsSuccesses(b) ==                                                   \* mutant
  LET n == b.failures + 1 IN
  CASE b.state = "half_open" -> [b EXCEPT !.state = "open", !.failures = n, !.calls = 0]
    [] b.state = "closed" /\ n >= FailureThreshold -> [b EXCEPT !.state = "open", !.failures = n]
    [] OTHER -> [b EXCEPT !.failures = n]
Failed(b) ==
  LET n == b.failures + 1 IN
  CASE b.state = "half_open" ->
         [state |-> "open", failures |-> n, successes |-> 0, calls |-> 0]
    [] b.state = "closed" /\ n >= FailureThreshold -> [b EXCEPT !.state = "open", !.failures = n]
    [] OTHER -> [b EXCEPT !.failures = n]

\* record_success, once it has looked.
Succeeded(b) ==
  CASE b.state = "half_open" /\ b.successes + 1 >= HalfOpenMaxCalls -> Closed
    [] b.state = "half_open" /\ b.successes + 1 < HalfOpenMaxCalls -> [b EXCEPT !.successes = @ + 1]
    [] b.state = "closed" -> [b EXCEPT !.failures = 0]
    [] OTHER -> b
-----------------------------------------------------------------------------
At(c, pc) == callers[c].pc = pc
Go(c, pc) == callers' = [callers EXCEPT ![c].pc = pc]

\* allow_request: the look,
Ask(c) ==
  /\ At(c, "idle")
  /\ breaker' = Look
  /\ callers' = [callers EXCEPT ![c] = [pc |-> "asked", seen |-> Look.state]]
  /\ UNCHANGED <<recovered, recorded, broken>>

\* then the answer for the state that was seen.
Allow(c) ==
  /\ At(c, "asked")
  /\ \/ callers[c].seen = "closed" /\ Go(c, "calling") /\ UNCHANGED breaker
     \/ /\ callers[c].seen = "half_open" /\ breaker.calls < HalfOpenMaxCalls
        /\ Go(c, "calling") /\ breaker' = [breaker EXCEPT !.calls = @ + 1]
  /\ UNCHANGED <<recovered, recorded, broken>>

Reject(c) ==
  /\ At(c, "asked")
  /\ \/ callers[c].seen = "open"
     \/ callers[c].seen = "half_open" /\ breaker.calls >= HalfOpenMaxCalls
  /\ callers' = [callers EXCEPT ![c] = Idle]
  /\ UNCHANGED <<breaker, recovered, recorded, broken>>

RecordFailure(c) ==
  /\ At(c, "calling") /\ broken < MaxFailures
  /\ breaker' = Failed(breaker)
  /\ recovered' = FALSE
  /\ callers' = [callers EXCEPT ![c] = Idle]
  /\ recorded' = [failures |-> recorded.failures + 1, successes |-> 0]
  /\ broken' = broken + 1

\* record_success: the look, then the count.
Succeed(c) ==
  /\ At(c, "calling") /\ Go(c, "succeeded")
  /\ breaker' = Look
  /\ UNCHANGED <<recovered, recorded, broken>>

\* The history counts no further than the breaker has to.
RecordSuccess(c) ==
  /\ At(c, "succeeded")
  /\ breaker' = Succeeded(breaker)
  /\ callers' = [callers EXCEPT ![c] = Idle]
  /\ recorded' = [failures |-> 0,
                  successes |-> IF recorded.successes < HalfOpenMaxCalls
                                THEN recorded.successes + 1 ELSE HalfOpenMaxCalls]
  /\ UNCHANGED <<recovered, broken>>

Elapse ==
  /\ ~recovered /\ recovered' = TRUE
  /\ UNCHANGED <<breaker, callers, recorded, broken>>

\* reset, by hand, of the time of the last failure as well.
Reset ==
  /\ breaker' = Closed
  /\ recovered' = TRUE
  /\ UNCHANGED <<callers, recorded, broken>>

Call(c) ==
  Ask(c) \/ Allow(c) \/ Reject(c) \/ RecordFailure(c) \/ Succeed(c) \/ RecordSuccess(c)
-----------------------------------------------------------------------------
Next == Elapse \/ Reset \/ \E c \in Callers : Call(c)

Spec == Init /\ [][Next]_vars
Fairness == WF_vars(Elapse) /\ \A c \in Callers : WF_vars(Call(c))
FairSpec == Spec /\ Fairness
-----------------------------------------------------------------------------
(* Properties *)

\* The shape of the breaker and of its callers.
TypeOK ==
  /\ breaker \in [state : {"closed", "open", "half_open"}, failures : 0 .. MaxFailures,
                  successes : 0 .. HalfOpenMaxCalls - 1, calls : 0 .. HalfOpenMaxCalls]
  /\ recovered \in BOOLEAN
  /\ callers \in [Callers -> [pc : {"idle", "asked", "calling", "succeeded"},
                              seen : {"closed", "open", "half_open"}]]
  /\ recorded \in [failures : 0 .. MaxFailures, successes : 0 .. HalfOpenMaxCalls]
  /\ broken \in 0 .. MaxFailures

\* The breaker counts only what was recorded in a row: towards opening, failures with
\* no success between them, and towards closing, successes with no failure between
\* them, although calls of before the circuit opened report late and threads act on a
\* state that has changed since they looked.
CountsInARow ==
  /\ breaker.state = "closed" => breaker.failures <= recorded.failures
  /\ breaker.successes <= recorded.successes

\* Once calls fail no more, the circuit closes again: half-open probes are neither lost
\* nor kept for ever, as long as every allowed call is recorded.
Recovers == []<>(breaker.state = "closed")
=============================================================================
