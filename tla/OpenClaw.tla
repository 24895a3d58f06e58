------------------------------ MODULE OpenClaw ------------------------------
(***************************************************************************)
(* The OpenClaw webhooks of one agent and the fan-outs to them             *)
(* (services/openclaw_service.py; main.py starts one background task per   *)
(* event).  A fan-out reads the active webhooks once and works on those    *)
(* objects, with a commit after each; only columns that differ from the    *)
(* object's last committed value are written.                              *)
(***************************************************************************)
EXTENDS Integers, FiniteSets

CONSTANTS
  Hooks,                  \* ids of webhooks
  Fans, Registrations,    \* fan-outs, calls of register_webhook
  MaxHookFailures,        \* openclaw_webhook_max_failures
  MaxFans, MaxRegisters,  \* bounds: fan-outs and registrations that begin
  Nothing

VARIABLES
  hooks,     \* the table: status and failure_count, "free" if there is no such row
  fans,      \* by fan-out: the webhooks to do, with the failure count it has loaded
  registers, \* by register_webhook: the webhook it found, with its failure count
  failed,    \* events that no try could deliver, of each webhook
  fanned, registered

vars == <<hooks, fans, registers, failed, fanned, registered>>

Init ==
  /\ hooks = [h \in Hooks |-> [status |-> "free", fails |-> 0]]
  /\ fans = [f \in Fans |-> <<>>]
  /\ registers = [r \in Registrations |-> Nothing]
  /\ failed = [h \in Hooks |-> 0]
  /\ fanned = 0 /\ registered = 0

Active == {h \in Hooks : hooks[h].status = "active"}
Exists(h) == hooks[h].status \in {"active", "paused"}
Without(f, h) == [g \in DOMAIN f \ {h} |-> f[g]]
-----------------------------------------------------------------------------
(* The API *)

\* register_webhook looks for an active one; two are MultipleResultsFound.
Look(r) ==
  /\ registers[r] = Nothing /\ registered < MaxRegisters
  /\ Cardinality(Active) <= 1
  /\ registered' = registered + 1
  /\ registers' = [registers EXCEPT ![r] = [h \in Active |-> hooks[h].fails]]
  /\ UNCHANGED <<hooks, fans, failed, fanned>>

\* None was found: a new row, whatever others have inserted since.
Insert(r) ==
  /\ registers[r] = <<>>
  /\ \E h \in Hooks :
       /\ hooks[h].status = "free"
       /\ hooks' = [hooks EXCEPT ![h] = [status |-> "active", fails |-> 0]]
  /\ registers' = [registers EXCEPT ![r] = Nothing]
  /\ UNCHANGED <<fans, failed, fanned, registered>>

\* One was found: its status was active and is not written; its failure count is, if it
\* was not 0.  If it has been deleted since, the UPDATE finds no row and raises.
Update(r) ==
  /\ registers[r] # Nothing
  /\ \E h \in DOMAIN registers[r] :
       hooks' = [hooks EXCEPT ![h].fails = IF Exists(h) /\ registers[r][h] > 0 THEN 0 ELSE @]
  /\ registers' = [registers EXCEPT ![r] = Nothing]
  /\ UNCHANGED <<fans, failed, fanned, registered>>

Delete(h) ==
  /\ Exists(h)
  /\ hooks' = [hooks EXCEPT ![h].status = "deleted"]
  /\ UNCHANGED <<fans, registers, failed, fanned, registered>>

\* test_webhook delivers, and a success resets the count.
Test(h) ==
  /\ Exists(h) /\ hooks[h].fails > 0
  /\ hooks' = [hooks EXCEPT ![h].fails = 0]
  /\ UNCHANGED <<fans, registers, failed, fanned, registered>>
-----------------------------------------------------------------------------
(* dispatch_to_openclaw_webhooks *)

\* The filters may leave any of the active webhooks out.
Select(f) ==
  /\ fans[f] = <<>> /\ fanned < MaxFans
  /\ fanned' = fanned + 1
  /\ \E todo \in (SUBSET Active) \ {{}} :
       fans' = [fans EXCEPT ![f] = [h \in todo |-> hooks[h].fails]]
  /\ UNCHANGED <<hooks, registers, failed, registered>>

\* The UPDATE of a row that is gone raises StaleDataError, which ends the fan-out.
Done(f, h) == fans' = [fans EXCEPT ![f] = IF Exists(h) THEN Without(@, h) ELSE <<>>]

\* Delivered at one of the tries.
Delivered(f, h) ==
  /\ h \in DOMAIN fans[f]
  /\ hooks' = [hooks EXCEPT ![h].fails = IF fans[f][h] = 0 \/ ~Exists(h) THEN @ ELSE 0]
  /\ Done(f, h)
  /\ UNCHANGED <<registers, failed, fanned, registered>>

\* Every try failed.
OneEarly(n) == n + 1 >= MaxHookFailures                                \* mutant
Pauses(n) == n >= MaxHookFailures
GaveUp(f, h) ==
  /\ h \in DOMAIN fans[f]
  /\ LET n == fans[f][h] + 1 IN
       hooks' = IF Exists(h)
                  THEN [hooks EXCEPT ![h].fails = n,
                                     ![h].status = IF Pauses(n) THEN "paused" ELSE @]
                  ELSE hooks
  /\ failed' = [failed EXCEPT ![h] = @ + 1]
  /\ Done(f, h)
  /\ UNCHANGED <<registers, fanned, registered>>

\* The background task raises or the process dies.
Crash(f) ==
  /\ fans[f] # <<>>
  /\ fans' = [fans EXCEPT ![f] = <<>>]
  /\ UNCHANGED <<hooks, registers, failed, fanned, registered>>

Next ==
  \/ \E r \in Registrations : Look(r) \/ Insert(r) \/ Update(r)
  \/ \E h \in Hooks : Delete(h) \/ Test(h)
  \/ \E f \in Fans : Select(f) \/ Crash(f) \/ \E h \in Hooks : Delivered(f, h) \/ GaveUp(f, h)

Spec == Init /\ [][Next]_vars
-----------------------------------------------------------------------------
TypeOK ==
  /\ \A h \in Hooks : /\ hooks[h].status \in {"free", "active", "paused", "deleted"}
                      /\ hooks[h].fails \in 0..MaxHookFailures
  /\ \A f \in Fans : DOMAIN fans[f] \subseteq Hooks
  /\ fanned \in 0..MaxFans /\ registered \in 0..MaxRegisters

\* A webhook is paused only when as many events as it takes could not be delivered to it,
\* although fan-outs write counts that they read before others wrote or reset them; and a
\* registration answered meanwhile never leaves it with a count that nothing explains.
PausedHadFailures ==
  \A h \in Hooks :
    /\ hooks[h].status = "paused" => failed[h] >= MaxHookFailures
    /\ hooks[h].fails <= failed[h]
=============================================================================
