--------------------------- MODULE EventDelivery ---------------------------
(***************************************************************************)
(* Webhook subscriptions and the fan-out of events to them                 *)
(* (event_subscription_service.py; main.py starts one background task per  *)
(* event).                                                                 *)
(*                                                                         *)
(* A fan-out reads the subscriptions once and works on what it has read:   *)
(* sessions keep objects over a commit (expire_on_commit=False), and an    *)
(* UPDATE carries only the columns that differ from what was read or last  *)
(* flushed.  Each subscription is a transaction of its own, which spans    *)
(* the HTTP calls and the sleeps: the first delivery row inserted holds    *)
(* the subscription FOR KEY SHARE (its foreign key), the second flush      *)
(* updates the failure count and holds it FOR NO KEY UPDATE until the      *)
(* commit.                                                                 *)
(***************************************************************************)
EXTENDS Integers, FiniteSets

CONSTANTS
  Subs,                     \* ids of subscriptions
  Urls,                     \* callback URLs of one agent
  Dispatchers, Registrars, None,
  MaxRetries, MaxFailures,  \* settings trust_webhook_max_retries, _max_failures
  MaxEvents                 \* bound: events dispatched

VARIABLES
  subs,       \* the table event_subscriptions
  deliveries, \* committed webhook_deliveries of a subscription: any, how many failed
  fan,        \* the fan-out a dispatcher is at
  reg,        \* the registration a registrar is at
  events      \* events dispatched

vars == <<subs, deliveries, fan, reg, events>>

NoFan == [pc |-> "idle", todo |-> {}, at |-> None, seen |-> [s \in Subs |-> 0],
          count |-> 0, tries |-> 0, won |-> FALSE]
NoReg == [pc |-> "idle", url |-> None, row |-> None, status |-> "free", fails |-> 0]

Init ==
  /\ subs = [s \in Subs |-> [url |-> None, status |-> "free", fails |-> 0]]
  /\ deliveries = [s \in Subs |-> [any |-> FALSE, failed |-> 0]]
  /\ fan = [d \in Dispatchers |-> NoFan]
  /\ reg = [r \in Registrars |-> NoReg]
  /\ events = 0

Exists(s) == subs[s].status \in {"active", "paused"}
Active == {s \in Subs : subs[s].status = "active"}

\* Row locks: who has inserted a delivery of s, who has also updated s.
Sharing(s)  == {d \in Dispatchers : fan[d].at = s /\ fan[d].tries >= 1}
Updating(s) == {d \in Dispatchers : fan[d].at = s /\ fan[d].tries >= 2}

\* d may update s: FOR NO KEY UPDATE goes along with FOR KEY SHARE.
ForUpdate(d, s) == Sharing(s) \subseteq {d}                            \* mutant
MayUpdate(d, s) == Updating(s) \subseteq {d}

\* The failure count pauses a subscription.
TooEarly(n) == n + 1 >= MaxFailures                                    \* mutant
Pauses(n) == n >= MaxFailures
-----------------------------------------------------------------------------
(* The API *)

\* register_subscription: the rows with this URL; two of them raise.
SelectUrl(r, u) ==
  LET found == {s \in Subs : Exists(s) /\ subs[s].url = u} IN
  /\ reg[r].pc = "idle" /\ Cardinality(found) <= 1
  /\ reg' = [reg EXCEPT ![r] =
       IF found = {} THEN [NoReg EXCEPT !.pc = "insert", !.url = u]
       ELSE LET s == CHOOSE s \in found : TRUE IN
            [pc |-> "update", url |-> u, row |-> s,
             status |-> subs[s].status, fails |-> subs[s].fails]]
  /\ UNCHANGED <<subs, deliveries, fan, events>>

\* No unique index: the other registrar may have inserted the same URL.
Insert(r) ==
  /\ reg[r].pc = "insert"
  /\ \E s \in Subs :
       /\ subs[s].status = "free"
       /\ subs' = [subs EXCEPT ![s] = [url |-> reg[r].url, status |-> "active", fails |-> 0]]
  /\ reg' = [reg EXCEPT ![r] = NoReg]
  /\ UNCHANGED <<deliveries, fan, events>>

\* Only what differs from the row as read; nothing if it was deleted (it raises).
Update(r) ==
  LET s == reg[r].row IN
  /\ reg[r].pc = "update" /\ Updating(s) = {}
  /\ subs' = IF ~Exists(s) THEN subs ELSE [subs EXCEPT
               ![s].status = IF reg[r].status = "active" THEN @ ELSE "active",
               ![s].fails = IF reg[r].fails = 0 THEN @ ELSE 0]
  /\ reg' = [reg EXCEPT ![r] = NoReg]
  /\ UNCHANGED <<deliveries, fan, events>>

\* delete_subscription: refused by the foreign key once something was delivered,
\* and it waits for who is inserting a delivery.
Delete(s) ==
  /\ Exists(s) /\ ~deliveries[s].any /\ Sharing(s) = {}
  /\ subs' = [subs EXCEPT ![s].status = "deleted"]
  /\ UNCHANGED <<deliveries, fan, reg, events>>
-----------------------------------------------------------------------------
(* The fan-out *)

\* The active subscriptions that the event matches, as they are now.
Dispatch(d, S) ==
  /\ fan[d].pc = "idle" /\ events < MaxEvents
  /\ S # {} /\ S \subseteq Active
  /\ events' = events + 1
  /\ fan' = [fan EXCEPT ![d] = [NoFan EXCEPT !.pc = "next", !.todo = S,
                                  !.seen = [s \in Subs |-> IF s \in S THEN subs[s].fails ELSE 0]]]
  /\ UNCHANGED <<subs, deliveries, reg>>

Begin(d, s) ==
  /\ fan[d].pc = "next" /\ s \in fan[d].todo
  /\ fan' = [fan EXCEPT ![d].pc = "try", ![d].todo = @ \ {s}, ![d].at = s,
                        ![d].count = fan[d].seen[s]]
  /\ UNCHANGED <<subs, deliveries, reg, events>>

End(d) ==
  /\ fan[d].pc = "next" /\ fan[d].todo = {}
  /\ fan' = [fan EXCEPT ![d] = NoFan]
  /\ UNCHANGED <<subs, deliveries, reg, events>>

\* Commit of a subscription: n is its count now, lost the attempts that failed.
Written(d, s, n, wrote, lost) ==
  /\ subs' = [subs EXCEPT ![s].fails = IF wrote THEN n ELSE @,
                          ![s].status = IF Pauses(n) THEN "paused" ELSE @]
  /\ deliveries' = [deliveries EXCEPT ![s] = [any |-> TRUE, failed |-> @.failed + lost]]
  /\ fan' = [fan EXCEPT ![d].pc = "next", ![d].at = None, ![d].count = 0,
                        ![d].tries = 0, ![d].won = FALSE]
  /\ UNCHANGED <<reg, events>>

\* The URL no longer validates: one row, and no retry.
Blocked(d) ==
  LET s == fan[d].at IN
  /\ fan[d].pc = "try" /\ Exists(s) /\ MayUpdate(d, s)
  /\ Written(d, s, fan[d].count + 1, TRUE, fan[d].tries + 1)

\* A POST answered well or not, the delivery row, the flush, which also writes
\* the failure count of the attempt before.
Attempt(d, ok) ==
  LET s == fan[d].at
      n == IF ok THEN 0 ELSE fan[d].count + 1
      last == ok \/ Pauses(n) \/ fan[d].tries + 1 = MaxRetries IN
  /\ fan[d].pc = "try" /\ Exists(s)
  /\ fan[d].tries >= 1 => MayUpdate(d, s)
  /\ fan' = [fan EXCEPT ![d].pc = IF last THEN "commit" ELSE "try",
                        ![d].count = n, ![d].tries = @ + 1, ![d].won = ok]
  /\ UNCHANGED <<subs, deliveries, reg, events>>

Commit(d) ==
  LET s == fan[d].at IN
  /\ fan[d].pc = "commit" /\ MayUpdate(d, s)
  /\ Written(d, s, fan[d].count,
             fan[d].tries >= 2 \/ fan[d].count # fan[d].seen[s],
             IF fan[d].won THEN fan[d].tries - 1 ELSE fan[d].tries)

\* The subscription is gone: the insert raises, and that ends the whole fan-out.
Raise(d) ==
  /\ fan[d].pc = "try" /\ ~Exists(fan[d].at)
  /\ fan' = [fan EXCEPT ![d] = NoFan]
  /\ UNCHANGED <<subs, deliveries, reg, events>>

\* The process stops: what was not committed is rolled back.
Crash(d) ==
  /\ fan[d].pc # "idle"
  /\ fan' = [fan EXCEPT ![d] = NoFan]
  /\ UNCHANGED <<subs, deliveries, reg, events>>
-----------------------------------------------------------------------------
Deliver(d) ==
  \/ End(d) \/ Blocked(d) \/ Commit(d) \/ Raise(d)
  \/ \E s \in Subs : Begin(d, s)
  \/ \E ok \in BOOLEAN : Attempt(d, ok)

Next ==
  \/ \E d \in Dispatchers : Deliver(d) \/ Crash(d)
  \/ \E d \in Dispatchers, S \in SUBSET Subs : Dispatch(d, S)
  \/ \E r \in Registrars : Insert(r) \/ Update(r)
  \/ \E r \in Registrars, u \in Urls : SelectUrl(r, u)
  \/ \E s \in Subs : Delete(s)

Spec == Init /\ [][Next]_vars
Fairness == \A d \in Dispatchers : WF_vars(Deliver(d))
FairSpec == Spec /\ Fairness
-----------------------------------------------------------------------------
(* Properties *)

\* The shape of the rows and of what the handlers remember of them.
TypeOK ==
  /\ subs \in [Subs -> [url : Urls \cup {None},
                        status : {"free", "active", "paused", "deleted"}, fails : Nat]]
  /\ deliveries \in [Subs -> [any : BOOLEAN, failed : Nat]]
  /\ fan \in [Dispatchers ->
       [pc : {"idle", "next", "try", "commit"}, todo : SUBSET Subs,
        at : Subs \cup {None}, seen : [Subs -> Nat], count : Nat,
        tries : 0 .. MaxRetries, won : BOOLEAN]]
  /\ reg \in [Registrars ->
       [pc : {"idle", "insert", "update"}, url : Urls \cup {None}, row : Subs \cup {None},
        status : {"free", "active", "paused"}, fails : Nat]]
  /\ events \in 0 .. MaxEvents

\* A paused subscription has failed at least MaxFailures deliveries, and the table
\* of deliveries shows them: counts that dispatchers read at the start of their
\* fan-out and write absolutely, over each other and over a registration that reset
\* them, can lose failures but never invent one.
PausedHadFailures ==
  \A s \in Subs : subs[s].status = "paused" => deliveries[s].failed >= MaxFailures

\* Every fan-out ends: dispatchers that hold one subscription's row over their HTTP
\* calls and sleeps never wait for each other in a circle.
FanOutsEnd == []<>(\A d \in Dispatchers : fan[d].pc = "idle")
=============================================================================
