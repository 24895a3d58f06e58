---------------------------- MODULE A2UISessions ----------------------------
(***************************************************************************)
(* An A2UI session and the inputs that an agent's calls wait for in it     *)
(* (a2ui/session_manager.py, a2ui/message_handler.py,                      *)
(* services/a2ui_service.py).                                              *)
(*                                                                         *)
(* request_input and request_confirm put a future into the session, send   *)
(* the request and wait with a timeout; the user's answer resolves it.     *)
(* Everything runs in one event loop, a step from one await to the next.   *)
(***************************************************************************)

CONSTANT Inputs   \* the calls of request_input and request_confirm

VARIABLES
  session,  \* "open", "stale" (idle for too long, nobody has looked), "expired", "closed"
  pending,  \* session.pending_inputs: the inputs whose future it holds
  futures,  \* the future of each input
  waits,    \* where each call is
  acked     \* the inputs whose answer was acknowledged to the user

vars == <<session, pending, futures, waits, acked>>

Init ==
  /\ session = "open"
  /\ pending = {}
  /\ futures = [i \in Inputs |-> "none"]
  /\ waits = [i \in Inputs |-> "idle"]
  /\ acked = {}

Live == session \in {"open", "stale"}

\* get_session removes a stale session when somebody asks for it; nobody calls cleanup_expired.
Looked == session' = IF session = "stale" THEN "expired" ELSE session

\* last_activity is set by the user's messages only.
GoStale ==
  /\ session = "open" /\ session' = "stale"
  /\ UNCHANGED <<pending, futures, waits, acked>>
-----------------------------------------------------------------------------
(* The agent's call *)

\* set_pending_input, and the send begins.
Ask(i) ==
  /\ waits[i] = "idle"
  /\ Looked
  /\ IF session = "open"
       THEN /\ pending' = pending \cup {i}
            /\ futures' = [futures EXCEPT ![i] = "pending"]
            /\ waits' = [waits EXCEPT ![i] = "sending"]
       ELSE /\ waits' = [waits EXCEPT ![i] = "failed"]
            /\ UNCHANGED <<pending, futures>>
  /\ UNCHANGED acked

\* The result of send_to_session is ignored.
Sent(i) ==
  /\ waits[i] = "sending"
  /\ waits' = [waits EXCEPT ![i] = "waiting"]
  /\ UNCHANGED <<session, pending, futures, acked>>

\* The timer of wait_for, or the cancellation of the caller, schedules the call.
TimesOut(i) ==
  /\ waits[i] = "waiting"
  /\ waits' = [waits EXCEPT ![i] = "timing out"]
  /\ UNCHANGED <<session, pending, futures, acked>>

\* wait_for goes on: with the answer if there is one by now, however it was woken.  The
\* future of a call that timed out stays in the session.
Wake(i) ==
  /\ waits[i] = "waiting" => futures[i] # "pending"
  /\ waits[i] \in {"waiting", "timing out"}
  /\ waits' = [waits EXCEPT ![i] =
                 CASE futures[i] = "answer" -> "answered"
                   [] futures[i] = "cancelled" -> "cancelled"
                   [] futures[i] = "pending" -> "timed out"]
  /\ futures' = [futures EXCEPT ![i] = IF @ = "pending" THEN "cancelled" ELSE @]
  /\ UNCHANGED <<session, pending, acked>>
-----------------------------------------------------------------------------
(* The user *)

\* Past get_session and the rate limit.
Held(i) == i \in pending                                               \* mutant
Resolvable(i) == i \in pending /\ futures[i] = "pending"

\* user.respond, user.approve: the future leaves the session whether or not it is done.
Respond(i) ==
  /\ Live /\ Looked
  /\ IF session = "open"
       THEN /\ pending' = pending \ {i}
            /\ futures' = [futures EXCEPT ![i] = IF Resolvable(i) THEN "answer" ELSE @]
            /\ acked' = IF Resolvable(i) THEN acked \cup {i} ELSE acked
       ELSE UNCHANGED <<pending, futures, acked>>
  /\ UNCHANGED waits

ForgetOnly(inputs) == futures                                          \* mutant
Cancelled(inputs) == [i \in Inputs |-> IF i \in inputs /\ futures[i] = "pending" THEN "cancelled"
                                       ELSE futures[i]]

\* user.cancel with the id of an input.
UserCancel(i) ==
  /\ Live /\ Looked
  /\ IF session = "open"
       THEN pending' = pending \ {i} /\ futures' = Cancelled(pending \cap {i})
       ELSE UNCHANGED <<pending, futures>>
  /\ UNCHANGED <<waits, acked>>

\* DELETE /sessions/{id}: close_session.
Close ==
  /\ Live
  /\ session' = IF session = "open" THEN "closed" ELSE "expired"
  /\ futures' = IF session = "open" THEN Cancelled(pending) ELSE futures
  /\ UNCHANGED <<pending, waits, acked>>

Next ==
  \/ GoStale \/ Close
  \/ \E i \in Inputs :
       Ask(i) \/ Sent(i) \/ TimesOut(i) \/ Wake(i) \/ Respond(i) \/ UserCancel(i)

Spec == Init /\ [][Next]_vars
-----------------------------------------------------------------------------
TypeOK ==
  /\ session \in {"open", "stale", "expired", "closed"}
  /\ pending \subseteq Inputs /\ acked \subseteq Inputs
  /\ futures \in [Inputs -> {"none", "pending", "answer", "cancelled"}]
  /\ waits \in [Inputs -> {"idle", "failed", "sending", "waiting", "timing out", "answered",
                           "timed out", "cancelled"}]

\* The user is told that an answer was taken exactly if the call it answers gets it, a
\* timeout at the same moment included; and after a session was closed no call waits for
\* an answer that nobody can give.
AnswersReachTheCall ==
  /\ \A i \in Inputs :
       /\ i \in acked => waits[i] \in {"sending", "waiting", "timing out", "answered"}
       /\ waits[i] = "answered" => i \in acked
  /\ session = "closed" => \A i \in Inputs : futures[i] # "pending"
=============================================================================
