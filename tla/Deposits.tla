------------------------------ MODULE Deposits ------------------------------
(***************************************************************************)
(* deposit_service.py with the callers that confirm a deposit: the wallet  *)
(* and billing endpoints, and the checkout.session.completed webhook that  *)
(* Stripe sends again until it is answered with 2xx.                       *)
(*                                                                         *)
(* confirm_deposit locks the deposit's row, but the credit it asks of      *)
(* token_service.deposit COMMITS, which releases that lock while the       *)
(* status is still "pending"; the status is written in a second            *)
(* transaction.  The credit itself is one step here (Ledger opens it up):  *)
(* a ledger row under the unique key "deposit-<id>".                       *)
(***************************************************************************)
EXTENDS Naturals

CONSTANTS
  Deposits,     \* deposit requests
  Sessions,     \* concurrent request handlers
  None,         \* no session, no job
  MaxCrashes    \* bound: how many handlers die

ASSUME DepositsAssumption ==
  None \notin Sessions /\ None \notin Deposits /\ MaxCrashes \in Nat

VARIABLES
  status,    \* token_deposits.status, "none" before the row exists
  credits,   \* ledger rows with the key of the deposit
  lock,      \* the session that holds the deposit's row lock, or None
  pc, job,   \* where a handler is, and what it was asked: [op, dep]
  event,     \* the deposit's Stripe event: "none" where there is no checkout, "open"
             \* until the customer pays, "sent" until acknowledged, "acked"
  crashes

vars == <<status, credits, lock, pc, job, event, crashes>>

\* "api": confirm by the owner; "stripe": confirm by webhook; "auto": confirm in
\* the session that just created the deposit (simulated payment, signup bonus).
Ops == {"api", "stripe", "auto", "cancel"}

Init ==
  /\ status = [d \in Deposits |-> "none"]
  /\ credits = [d \in Deposits |-> 0]
  /\ lock = [d \in Deposits |-> None]
  /\ pc = [s \in Sessions |-> "idle"]
  /\ job = [s \in Sessions |-> None]
  /\ event = [d \in Deposits |-> "none"]
  /\ crashes = 0

\* wallet_deposit with Stripe: create_deposit and a checkout for it.  A deposit
\* whose checkout was never opened is one whose customer never pays.
Create(d) ==
  /\ status[d] = "none"
  /\ status' = [status EXCEPT ![d] = "pending"]
  /\ event' = [event EXCEPT ![d] = "open"]
  /\ UNCHANGED <<credits, lock, pc, job, crashes>>

\* wallet_deposit without Stripe, credit_signup_bonus: create_deposit and
\* confirm_deposit in one session, and no checkout.
CreateAndConfirm(s, d) ==
  /\ pc[s] = "idle" /\ status[d] = "none"
  /\ status' = [status EXCEPT ![d] = "pending"]
  /\ pc' = [pc EXCEPT ![s] = "select"]
  /\ job' = [job EXCEPT ![s] = [op |-> "auto", dep |-> d]]
  /\ UNCHANGED <<credits, lock, event, crashes>>

\* The customer pays on the hosted checkout page; Stripe emits the event.
Pay(d) ==
  /\ event[d] = "open"
  /\ event' = [event EXCEPT ![d] = "sent"]
  /\ UNCHANGED <<status, credits, lock, pc, job, crashes>>

\* A call arrives; for "stripe" it is a first or a repeated delivery.
Call(s, op, d) ==
  /\ pc[s] = "idle" /\ status[d] # "none" /\ op # "auto"
  /\ op = "stripe" => event[d] = "sent"
  /\ pc' = [pc EXCEPT ![s] = "select"]
  /\ job' = [job EXCEPT ![s] = [op |-> op, dep |-> d]]
  /\ UNCHANGED <<status, credits, lock, event, crashes>>

Free(d) == lock[d] = None

\* The status the locking SELECT returns.  The session that created the deposit
\* still has the row in its identity map and gets "pending" whatever was
\* committed in between.
Seen(s) == IF job[s].op = "auto" THEN "pending" ELSE status[job[s].dep]
Return(s) == /\ pc' = [pc EXCEPT ![s] = "idle"]
             /\ job' = [job EXCEPT ![s] = None]
\* The webhook endpoint answers 200.
Ack(s) == event' = IF job[s].op = "stripe" THEN [event EXCEPT ![job[s].dep] = "acked"]
                                            ELSE event

\* _get_deposit(for_update=True) and the status check of the lock's owner.
Granted(s) ==
  /\ pc[s] = "select" /\ Seen(s) = "pending"
  /\ pc' = [pc EXCEPT ![s] = IF job[s].op = "cancel" THEN "fail" ELSE "credit"]
  /\ UNCHANGED <<status, credits, job, crashes>>
TakeLock(s) == LET d == job[s].dep IN Free(d) /\ lock' = [lock EXCEPT ![d] = s]
Unlocked(s) == Granted(s) /\ UNCHANGED <<lock, event>>                  \* mutant
AckFirst(s) == Granted(s) /\ TakeLock(s) /\ Ack(s)                      \* mutant
Select(s) == Granted(s) /\ TakeLock(s) /\ UNCHANGED event

\* Not pending: ValueError.  The webhook handler takes it for "already
\* confirmed" and acknowledges.
Reject(s) ==
  /\ pc[s] = "select" /\ Free(job[s].dep) /\ Seen(s) # "pending"
  /\ Ack(s) /\ Return(s)
  /\ UNCHANGED <<status, credits, lock, crashes>>

\* token_service.deposit: the unique key admits one row; its commit ends the
\* transaction that held the deposit's lock.
NoKey(d) == credits[d] < 2                                             \* mutant
KeyFree(d) == credits[d] = 0
Credit(s) ==
  LET d == job[s].dep IN
  /\ pc[s] = "credit" /\ KeyFree(d)
  /\ credits' = [credits EXCEPT ![d] = @ + 1]
  /\ lock' = [lock EXCEPT ![d] = None]
  /\ pc' = [pc EXCEPT ![s] = "complete"]
  /\ UNCHANGED <<status, job, event, crashes>>

\* IntegrityError: not a ValueError, so the webhook answers 500 and the event
\* stays unacknowledged.
Conflict(s) ==
  LET d == job[s].dep IN
  /\ pc[s] = "credit" /\ ~KeyFree(d)
  /\ lock' = [lock EXCEPT ![d] = None]
  /\ Return(s)
  /\ UNCHANGED <<status, credits, event, crashes>>

\* The second commit of confirm_deposit: an UPDATE that waits for the row but
\* looks at nothing.
Complete(s) ==
  LET d == job[s].dep IN
  /\ pc[s] = "complete" /\ Free(d)
  /\ status' = [status EXCEPT ![d] = "completed"]
  /\ Ack(s) /\ Return(s)
  /\ UNCHANGED <<credits, lock, crashes>>

\* cancel_deposit: one transaction.
FailWith(s, v) ==
  /\ pc[s] = "fail"
  /\ status' = [status EXCEPT ![job[s].dep] = v]
  /\ lock' = [lock EXCEPT ![job[s].dep] = None]
  /\ Return(s)
  /\ UNCHANGED <<credits, event, crashes>>
OtherWord(s) == FailWith(s, "cancelled")                                \* mutant
Fail(s) == FailWith(s, "failed")

\* The handler dies; PostgreSQL rolls its open transaction back.
Crash(s) ==
  /\ pc[s] # "idle" /\ crashes < MaxCrashes
  /\ crashes' = crashes + 1
  /\ lock' = [d \in Deposits |-> IF lock[d] = s THEN None ELSE lock[d]]
  /\ Return(s)
  /\ UNCHANGED <<status, credits, event>>

Step(s) == Select(s) \/ Reject(s) \/ Credit(s) \/ Conflict(s) \/ Complete(s) \/ Fail(s)

Next ==
  \/ \E d \in Deposits : Create(d) \/ Pay(d)
  \/ \E s \in Sessions : \/ \E op \in Ops, d \in Deposits : Call(s, op, d)
                         \/ \E d \in Deposits : CreateAndConfirm(s, d)
                         \/ Step(s)
                         \/ Crash(s)

Spec == Init /\ [][Next]_vars

\* Handlers run; Stripe keeps delivering an event that is not acknowledged.
\* A handler's wait for a row lock ends (PostgreSQL queues the waiters), which
\* is strong fairness for the step that takes the lock.
FairSpec ==
  /\ Spec
  /\ \A s \in Sessions : SF_vars(Step(s))
  /\ \A d \in Deposits : SF_vars(\E s \in Sessions : Call(s, "stripe", d))
-----------------------------------------------------------------------------
TypeOK ==
  /\ status \in [Deposits -> {"none", "pending", "completed", "failed"}]
  /\ credits \in [Deposits -> Nat]
  /\ lock \in [Deposits -> Sessions \cup {None}]
  /\ pc \in [Sessions -> {"idle", "select", "credit", "complete", "fail"}]
  /\ job \in [Sessions -> [op : Ops, dep : Deposits] \cup {None}]
  /\ event \in [Deposits -> {"none", "open", "sent", "acked"}]
  /\ crashes \in 0 .. MaxCrashes

\* A deposit is credited at most once, through owner, webhook, redelivery and
\* crash, and what is shown as completed was credited.
CreditedOnce ==
  \A d \in Deposits : credits[d] <= 1 /\ (status[d] = "completed" => credits[d] = 1)

\* A completed deposit stays completed: no cancellation that read "pending"
\* gets in behind the confirmation.
CompletedIsFinal ==
  [][\A d \in Deposits : status[d] = "completed" => status'[d] = "completed"]_vars

\* A deposit the customer paid for is credited, unless it was cancelled first:
\* redelivery makes up for handlers that die.
PaidIsCredited ==
  \A d \in Deposits : event[d] = "sent" ~> credits[d] = 1 \/ status[d] = "failed"

\* What "already confirmed (idempotent)" says: Stripe's event ends up acknowledged.
EventIsAcked == \A d \in Deposits : event[d] = "sent" ~> event[d] = "acked"
=============================================================================
