--------------------------- MODULE Subscriptions ---------------------------
(***************************************************************************)
(* The subscriptions of one agent: the billing API (api/v2_billing.py,     *)
(* billing_v2_service.py), Stripe, and the handlers of Stripe's webhooks   *)
(* (api/webhooks.py).                                                      *)
(*                                                                         *)
(* Stripe sends an event until it is answered with a 2xx, in any order and *)
(* more than once.  A handler reads with SELECT, without a lock, and sends *)
(* an UPDATE only for a value that differs from what it has read.  A query *)
(* that expects one row raises on two (scalar_one_or_none).                *)
(*                                                                         *)
(* The agent and the plan are read from the metadata of the subscription,  *)
(* and an event without them is answered and ignored.  The checkout that   *)
(* the code opens has them on the Session alone, so that its subscriptions *)
(* are not labelled; the constant Labels says which ones Stripe may have.  *)
(***************************************************************************)
EXTENDS Integers, Sequences, FiniteSets

CONSTANTS
  FreePlans, PaidPlans,  \* by the month or by the year: a plan may be in both
  Labels,                \* whether a subscription at Stripe names its agent and plan
  Sessions, None,
  MaxCheckouts,          \* bound: Checkout Sessions opened
  MaxChanges,            \* bound: what happens to them at Stripe
  MaxCalls, MaxCrashes,  \* bounds: calls of the API, dead handlers
  MaxRepeats             \* bound: events sent again though answered or in the works

Plans == FreePlans \cup PaidPlans

ASSUME SubscriptionsAssumption ==
  /\ None \notin Plans /\ Labels \subseteq BOOLEAN
  /\ {MaxCheckouts, MaxChanges, MaxCalls, MaxCrashes, MaxRepeats} \subseteq Nat

VARIABLES
  rows,       \* subscriptions, in the order of their creation
  stripe,     \* Stripe's subscriptions: [plan, labelled, state], a "checkout" until paid
  sent,       \* the events Stripe has sent
  acked,      \* those answered with a 2xx
  pc, mem,    \* where a handler is; what it was called with and has read
  changes, calls, crashes, repeats

vars == <<rows, stripe, sent, acked, pc, mem, changes, calls, crashes, repeats>>

Nothing == [plan |-> None, event |-> None, row |-> 0, read |-> "none"]

Init ==
  /\ rows = <<>> /\ stripe = <<>> /\ sent = {} /\ acked = {}
  /\ pc = [s \in Sessions |-> "idle"] /\ mem = [s \in Sessions |-> Nothing]
  /\ changes = 0 /\ calls = 0 /\ crashes = 0 /\ repeats = 0

Goto(s, l, m) == pc' = [pc EXCEPT ![s] = l] /\ mem' = [mem EXCEPT ![s] = m]
Return(s) == Goto(s, "idle", Nothing)

Active == {i \in DOMAIN rows : rows[i].status = "active"}
TheOne(S) == CHOOSE i \in S : TRUE
Row(p, st) == [plan |-> p, status |-> st, stripe |-> 0]
-----------------------------------------------------------------------------
(* Stripe *)

OpenCheckout(p) ==
  /\ Len(stripe) < MaxCheckouts
  /\ \E b \in Labels : stripe' = Append(stripe, [plan |-> p, labelled |-> b, state |-> "checkout"])

Happens(i, from, to, events) ==
  /\ changes < MaxChanges /\ stripe[i].state \in from
  /\ changes' = changes + 1
  /\ stripe' = [stripe EXCEPT ![i].state = to]
  /\ sent' = sent \cup {[kind |-> k, of |-> i] : k \in events}
  /\ UNCHANGED <<rows, acked, pc, mem, calls, crashes, repeats>>

CustomerPays(i) == Happens(i, {"checkout"}, "active", {"created", "active"})
ChargeFails(i)  == Happens(i, {"active"}, "past_due", {"failed", "past_due"})
ChargePaid(i)   == Happens(i, {"past_due"}, "active", {"paid", "active"})
StripeEnds(i)   == Happens(i, {"active", "past_due"}, "canceled", {"deleted"})
-----------------------------------------------------------------------------
(* The API *)

\* Every call begins with get_subscription.
Call(s, l, p) ==
  /\ pc[s] = "idle" /\ calls < MaxCalls /\ Cardinality(Active) <= 1
  /\ calls' = calls + 1
  /\ Goto(s, l, IF Active = {} THEN [Nothing EXCEPT !.plan = p]
                ELSE [Nothing EXCEPT !.plan = p, !.row = TheOne(Active), !.read = "active"])
  /\ UNCHANGED <<rows, stripe, sent, acked, changes, crashes, repeats>>

\* subscribe, for a free plan.
CallSubscribe(s, p) == p \in FreePlans /\ Active = {} /\ Call(s, "subscribe", p)
Subscribe(s) ==
  /\ pc[s] = "subscribe"
  /\ rows' = Append(rows, Row(mem[s].plan, "active"))
  /\ Return(s)
  /\ UNCHANGED <<stripe, sent, acked, changes, calls, crashes, repeats>>

\* billing_create_subscription for a paid plan: the pending row and the Checkout
\* Session, whatever else the agent has.
Trusting(p) == Row(p, "active")                                        \* mutant
PendingRow(p) == Row(p, "pending")
CreatePaid(p) ==
  /\ p \in PaidPlans /\ calls < MaxCalls
  /\ calls' = calls + 1
  /\ OpenCheckout(p)
  /\ rows' = Append(rows, PendingRow(p))
  /\ UNCHANGED <<sent, acked, pc, mem, changes, crashes, repeats>>

\* change_plan: a paid plan is a new Checkout Session and nothing else.
ChangePaid(p) ==
  /\ p \in PaidPlans /\ calls < MaxCalls
  /\ calls' = calls + 1
  /\ OpenCheckout(p)
  /\ UNCHANGED <<rows, sent, acked, pc, mem, changes, crashes, repeats>>

\* An UPDATE of the status, sent if the new value differs from the one read.
Always(i, read, v) == [rows EXCEPT ![i].status = v]                    \* mutant
Updated(i, read, v) == IF read = v THEN rows ELSE [rows EXCEPT ![i].status = v]

CallChange(s, p) == p \in FreePlans /\ Call(s, "change", p)
Change(s) ==
  LET old == IF mem[s].row = 0 THEN rows ELSE Updated(mem[s].row, mem[s].read, "cancelled") IN
  /\ pc[s] = "change"
  /\ rows' = Append(old, Row(mem[s].plan, "active"))
  /\ Return(s)
  /\ UNCHANGED <<stripe, sent, acked, changes, calls, crashes, repeats>>

\* cancel_subscription, now or at the end of the period, which only sets a flag that
\* nothing acts on.
CallCancel(s) == Active # {} /\ Call(s, "cancel", None)
Cancel(s) ==
  /\ pc[s] = "cancel"
  /\ \/ rows' = Updated(mem[s].row, mem[s].read, "cancelled")
     \/ UNCHANGED rows
  /\ Return(s)
  /\ UNCHANGED <<stripe, sent, acked, changes, calls, crashes, repeats>>
-----------------------------------------------------------------------------
(* The webhooks *)

Events == [kind : {"created"}, of : 1 .. MaxCheckouts]
Answer(s) == acked' = acked \cup {mem[s].event} /\ Return(s)
Begin(s, e) ==
  /\ pc[s] = "idle" /\ e \in sent
  /\ repeats' = repeats + (IF e \in acked \/ \E o \in Sessions : mem[o].event = e THEN 1 ELSE 0)
  /\ repeats' <= MaxRepeats
  /\ Goto(s, IF e.kind = "created" THEN "find" ELSE "sync", [Nothing EXCEPT !.event = e])
  /\ UNCHANGED <<rows, stripe, sent, changes, calls, crashes>>
AckFirst(s, e) == Begin(s, e) /\ acked' = acked \cup {e}                \* mutant
Receive(s, e) == Begin(s, e) /\ UNCHANGED acked

\* An exception: Stripe sees a 500.
Fails(s) == Return(s) /\ UNCHANGED acked

\* _handle_subscription_created: nothing without the metadata; else a row that waits
\* for this plan, or a new one.
AnyPlan(p) == {i \in DOMAIN rows : rows[i].status \in {"pending", "active"}}    \* mutant
Waiting(p) == {i \in DOMAIN rows : rows[i].plan = p /\ rows[i].status \in {"pending", "active"}}
Find(s) ==
  LET about == stripe[mem[s].event.of]
      found == Waiting(about.plan)
      i == TheOne(found) IN
  /\ pc[s] = "find"
  /\ \/ ~about.labelled /\ Answer(s)
     \/ about.labelled /\ Cardinality(found) > 1 /\ Fails(s)
     \/ /\ about.labelled /\ Cardinality(found) = 1 /\ rows[i].stripe = 0
        /\ Goto(s, "link", [mem[s] EXCEPT !.row = i, !.read = rows[i].status])
        /\ UNCHANGED acked
     \/ /\ about.labelled
        /\ found = {} \/ (Cardinality(found) = 1 /\ rows[i].stripe # 0)
        /\ Goto(s, "check", mem[s])
        /\ UNCHANGED acked
  /\ UNCHANGED <<rows, stripe, sent, changes, calls, crashes, repeats>>

Link(s) ==
  LET i == mem[s].row IN
  /\ pc[s] = "link"
  /\ rows' = [Updated(i, mem[s].read, "active") EXCEPT ![i].stripe = mem[s].event.of]
  /\ Answer(s)
  /\ UNCHANGED <<stripe, sent, changes, calls, crashes, repeats>>

\* subscribe looks for an active row, whatever its plan, and commits a new one; its
\* Stripe id is a transaction of its own.
Check(s) ==
  /\ pc[s] = "check"
  /\ IF Active = {} THEN Goto(s, "insert", mem[s]) ELSE Return(s)
  /\ UNCHANGED <<rows, stripe, sent, acked, changes, calls, crashes, repeats>>
Insert(s) ==
  /\ pc[s] = "insert"
  /\ rows' = Append(rows, Row(stripe[mem[s].event.of].plan, "active"))
  /\ Goto(s, "stamp", [mem[s] EXCEPT !.row = Len(rows')])
  /\ UNCHANGED <<stripe, sent, acked, changes, calls, crashes, repeats>>
Stamp(s) ==
  /\ pc[s] = "stamp"
  /\ rows' = [rows EXCEPT ![mem[s].row].stripe = mem[s].event.of]
  /\ Answer(s)
  /\ UNCHANGED <<stripe, sent, changes, calls, crashes, repeats>>

\* The other handlers look for the row by its Stripe id, and ignore the event
\* when there is none.
Linked(x) == {i \in DOMAIN rows : rows[i].stripe = x}
Sync(s) ==
  LET found == Linked(mem[s].event.of)
      i == TheOne(found) IN
  /\ pc[s] = "sync"
  /\ \/ Cardinality(found) > 1 /\ Fails(s)
     \/ found = {} /\ Answer(s)
     \/ /\ Cardinality(found) = 1
        /\ Goto(s, "write", [mem[s] EXCEPT !.row = i, !.read = rows[i].status])
        /\ UNCHANGED acked
  /\ UNCHANGED <<rows, stripe, sent, changes, calls, crashes, repeats>>

SameWord(kind, read) == IF kind = "deleted" THEN "canceled" ELSE "active"   \* mutant
StatusAfter(kind, read) ==
  CASE kind = "deleted"  -> "cancelled"
    [] kind = "active"   -> "active"
    [] kind = "paid"     -> IF read = "past_due" THEN "active" ELSE read
    [] OTHER             -> "past_due"
Write(s) ==
  /\ pc[s] = "write"
  /\ rows' = Updated(mem[s].row, mem[s].read, StatusAfter(mem[s].event.kind, mem[s].read))
  /\ Answer(s)
  /\ UNCHANGED <<stripe, sent, changes, calls, crashes, repeats>>
-----------------------------------------------------------------------------
\* A handler dies, before its commit or between its two.  What dies before its
\* only commit has done nothing, wherever it was; a call of the API has just one.
Crash(s) ==
  /\ pc[s] \in {"find", "stamp"} /\ crashes < MaxCrashes
  /\ crashes' = crashes + 1
  /\ Return(s)
  /\ UNCHANGED <<rows, stripe, sent, acked, changes, calls, repeats>>

Step(s) ==
  \/ Subscribe(s) \/ Change(s) \/ Cancel(s)
  \/ Find(s) \/ Link(s) \/ Check(s) \/ Insert(s) \/ Stamp(s) \/ Sync(s) \/ Write(s)

Next ==
  \/ \E i \in DOMAIN stripe : CustomerPays(i) \/ ChargeFails(i) \/ ChargePaid(i) \/ StripeEnds(i)
  \/ \E p \in Plans : CreatePaid(p) \/ ChangePaid(p)
  \/ \E s \in Sessions, p \in Plans : CallSubscribe(s, p) \/ CallChange(s, p)
  \/ \E s \in Sessions : CallCancel(s) \/ Step(s) \/ Crash(s)
  \/ \E s \in Sessions, e \in sent : Receive(s, e)

Spec == Init /\ [][Next]_vars

\* A handler runs on; Stripe sends an event again until it is acknowledged.
FairSpec ==
  /\ Spec
  /\ \A s \in Sessions : WF_vars(Step(s))
  /\ \A e \in Events : SF_vars(e \notin acked /\ \E s \in Sessions : Receive(s, e))
-----------------------------------------------------------------------------
Statuses == {"pending", "active", "past_due", "cancelled"}
TypeOK ==
  /\ rows \in Seq([plan : Plans, status : Statuses, stripe : 0 .. Len(stripe)])
  /\ stripe \in Seq([plan : PaidPlans, labelled : Labels,
                     state : {"checkout", "active", "past_due", "canceled"}])
  /\ acked \subseteq sent
  /\ pc \in [Sessions -> {"idle", "subscribe", "change", "cancel", "find", "link", "check", "insert",
                          "stamp", "sync", "write"}]
  /\ \A s \in Sessions : mem[s].row \in 0 .. Len(rows)

\* Nobody has a plan that is never free and was not paid for: checkout, webhooks in
\* any order and their repetitions never make one active.
PaidPlanWasPaid ==
  \A i \in DOMAIN rows :
    rows[i].status \in {"active", "past_due"} /\ rows[i].plan \notin FreePlans =>
      \E x \in DOMAIN stripe : stripe[x].plan = rows[i].plan /\ stripe[x].state # "checkout"

\* A row stands for a Stripe subscription to the same plan, one that was paid.
LinkedToItsPlan ==
  \A i \in DOMAIN rows : rows[i].stripe # 0 =>
    stripe[rows[i].stripe].plan = rows[i].plan /\ stripe[rows[i].stripe].state # "checkout"

\* What the agent cancelled, and Stripe never knew of, is not revived, not by a
\* webhook either that saw it active.
CancelledStays ==
  [][\A i \in DOMAIN rows :
       rows[i].status = "cancelled" /\ rows[i].stripe = 0 => rows'[i].status = "cancelled"]_vars

\* No paid checkout whose subscription names its agent and plan remains forgotten,
\* through repetitions and crashes: again and again each is linked to a row, or the
\* agent has another subscription, or there is more than one row or one checkout for
\* its plan.
Paid(x) == stripe[x].state # "checkout"
Sole(x) == /\ Active = {} /\ Cardinality(Waiting(stripe[x].plan)) <= 1
           /\ \A y \in DOMAIN stripe \ {x} : stripe[y].plan # stripe[x].plan
Forgotten == {x \in DOMAIN stripe : stripe[x].labelled /\ Paid(x) /\ Sole(x) /\ Linked(x) = {}}
Activated == []<>(Forgotten = {})
=============================================================================
