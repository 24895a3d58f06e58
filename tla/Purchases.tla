----------------------------- MODULE Purchases -----------------------------
(***************************************************************************)
(* The two ways to buy a listing: the step by step purchase of             *)
(* transaction_service.py (initiate, confirm, deliver, verify) and the     *)
(* one-call purchase of express_service.py, on which the consumer orders   *)
(* of dual_layer_service.py are built.                                     *)
(*                                                                         *)
(* Handlers read the transaction without a lock and write later what they  *)
(* decided on the read.  verify_delivery sets the status before it calls   *)
(* debit_for_purchase, whose first SELECT flushes the UPDATE: from then on *)
(* the handler holds the transaction's row.  The debit commits; the access *)
(* count, an express purchase's row and its order are later transactions.  *)
(* The debit is one step here, Ledger opens it up.                         *)
(***************************************************************************)
EXTENDS Integers, FiniteSets

CONSTANTS
  Bought,      \* transactions initiated step by step
  Express,     \* the ids express_buy generates, one for each call
  Sessions, None,
  Opening,     \* the buyer's balance; every listing costs 1
  MaxCalls, MaxCrashes   \* bounds

Txs == Bought \cup Express

ASSUME PurchasesAssumption ==
  /\ Bought \cap Express = {} /\ IsFiniteSet(Bought \cup Express)
  /\ None \notin Sessions /\ None \notin Bought \cup Express
  /\ Opening \in Nat

VARIABLES
  status,     \* transactions.status, "none" before the row exists
  method,     \* transactions.payment_method; only "token" moves money
  content,    \* delivered_hash: "none", or "good" or "bad" against content_hash
  paid,       \* ledger rows with the key purchase-<id>
  funds,      \* the buyer's balance
  accesses,   \* data_listings.access_count
  orders,     \* consumer_orders rows, by transaction
  lock,       \* the session that holds a transaction's row, or None
  pc, mem,    \* where a handler is; its call and what it has read
  calls, crashes

rows == <<status, method, content, paid, funds, accesses, orders>>
vars == <<rows, lock, pc, mem, calls, crashes>>

Nothing == [op |-> None, tx |-> None, method |-> "token", content |-> "none",
            replay |-> FALSE]

Init ==
  /\ status = [t \in Txs |-> "none"] /\ content = [t \in Txs |-> "none"]
  /\ method = [t \in Txs |-> "token"]
  /\ paid = [t \in Txs |-> 0] /\ funds = Opening
  /\ accesses = 0 /\ orders = {}
  /\ lock = [t \in Txs |-> None]
  /\ pc = [s \in Sessions |-> "idle"] /\ mem = [s \in Sessions |-> Nothing]
  /\ calls = 0 /\ crashes = 0

Goto(s, l) == pc' = [pc EXCEPT ![s] = l]
Return(s) == Goto(s, "idle") /\ mem' = [mem EXCEPT ![s] = Nothing]
Free(t) == lock[t] = None
Unlock(s) == lock' = [t \in Txs |-> IF lock[t] = s THEN None ELSE lock[t]]
Call(s, op, t, m, l) ==
  /\ pc[s] = "idle" /\ calls < MaxCalls
  /\ calls' = calls + 1
  /\ Goto(s, l)
  /\ mem' = [mem EXCEPT ![s] = [Nothing EXCEPT !.op = op, !.tx = t, !.method = m,
                                               !.content = content[t]]]
  /\ UNCHANGED <<rows, lock, crashes>>
-----------------------------------------------------------------------------
(* transaction_service *)

\* initiate_transaction
Initiate(t) ==
  /\ t \in Bought /\ status[t] = "none"
  /\ status' = [status EXCEPT ![t] = "payment_pending"]
  /\ UNCHANGED <<method, content, paid, funds, accesses, orders, lock, pc, mem, calls, crashes>>

\* confirm_payment: read and check, then write the outcome.
CallConfirm(s, t) == status[t] = "payment_pending" /\ Call(s, "confirm", t, method[t], "confirm")
Confirm(s) ==
  LET t == mem[s].tx IN
  /\ pc[s] = "confirm" /\ Free(t)
  /\ \E v \in {"payment_confirmed", "failed"} : status' = [status EXCEPT ![t] = v]
  /\ Return(s)
  /\ UNCHANGED <<method, content, paid, funds, accesses, orders, lock, calls, crashes>>

\* deliver_content
CallDeliver(s, t) == status[t] = "payment_confirmed" /\ Call(s, "deliver", t, method[t], "deliver")
Deliver(s) ==
  LET t == mem[s].tx IN
  /\ pc[s] = "deliver" /\ Free(t)
  /\ status' = [status EXCEPT ![t] = "delivered"]
  /\ \E c \in {"good", "bad"} :
       content' = IF mem[s].content = c THEN content ELSE [content EXCEPT ![t] = c]
  /\ Return(s)
  /\ UNCHANGED <<method, paid, funds, accesses, orders, lock, calls, crashes>>

\* verify_delivery: the hashes are compared as they were read.
CallVerify(s, t) ==
  /\ status[t] = "delivered"
  /\ Call(s, "verify", t, method[t], IF content[t] = "good" THEN "flush" ELSE "dispute")

Dispute(s) ==
  LET t == mem[s].tx IN
  /\ pc[s] = "dispute" /\ Free(t)
  /\ status' = [status EXCEPT ![t] = "disputed"]
  /\ Return(s)
  /\ UNCHANGED <<method, content, paid, funds, accesses, orders, lock, calls, crashes>>

\* The first SELECT of transfer flushes "completed": the row is this session's.
Flush(s) ==
  /\ pc[s] = "flush" /\ Free(mem[s].tx)
  /\ lock' = [lock EXCEPT ![mem[s].tx] = s]
  /\ Goto(s, "key")
  /\ UNCHANGED <<rows, mem, calls, crashes>>

\* The idempotency SELECT of transfer: a row with the key is returned as it is,
\* and nothing commits yet.
FindKey(s) ==
  LET t == mem[s].tx IN
  /\ pc[s] = "key"
  /\ IF paid[t] > 0
       THEN Goto(s, "count") /\ mem' = [mem EXCEPT ![s].replay = TRUE]
       ELSE Goto(s, "debit") /\ UNCHANGED mem
  /\ UNCHANGED <<rows, lock, calls, crashes>>

\* transfer posts and commits, the status of a verified transaction with it; the
\* key is unique in token_ledger.
Unpaid(t) == paid[t] = 0                                               \* mutant
Affordable(t) == funds >= 1 /\ paid[t] = 0
Debit(s) ==
  LET t == mem[s].tx IN
  /\ pc[s] = "debit" /\ Affordable(t)
  /\ paid' = [paid EXCEPT ![t] = @ + 1]
  /\ funds' = funds - 1
  /\ status' = IF mem[s].op = "verify" THEN [status EXCEPT ![t] = "completed"] ELSE status
  /\ Unlock(s)
  /\ Goto(s, IF mem[s].op = "verify" THEN "count" ELSE "record")
  /\ UNCHANGED <<method, content, accesses, orders, mem, calls, crashes>>

\* Insufficient balance: everything is rolled back.
Swallowed(s) ==                                                        \* mutant
  /\ pc[s] = "debit" /\ ~Affordable(mem[s].tx)
  /\ Goto(s, IF mem[s].op = "verify" THEN "count" ELSE "record")
  /\ mem' = [mem EXCEPT ![s].replay = TRUE]
  /\ UNCHANGED <<rows, lock, calls, crashes>>
Refuse(s) ==
  /\ pc[s] = "debit" /\ ~Affordable(mem[s].tx)
  /\ Unlock(s) /\ Return(s)
  /\ UNCHANGED <<rows, calls, crashes>>

\* The access count, and what is still unflushed or uncommitted.
Uncounted(s) == IF mem[s].replay THEN accesses + 1 ELSE accesses        \* mutant
Counted(s) == accesses + 1
Count(s) ==
  LET t == mem[s].tx IN
  /\ pc[s] = "count"
  /\ accesses' = Counted(s)
  /\ status' = IF mem[s].replay THEN [status EXCEPT ![t] = "completed"] ELSE status
  /\ Unlock(s) /\ Return(s)
  /\ UNCHANGED <<method, content, paid, funds, orders, calls, crashes>>
-----------------------------------------------------------------------------
(* express_buy, create_market_order *)

Fresh(t) == t \in Express /\ status[t] = "none" /\ paid[t] = 0
            /\ \A s \in Sessions : mem[s].tx # t
RecordFirst(s, op, t, m) == Fresh(t) /\ Call(s, op, t, m, "record")       \* mutant
CallExpress(s, op, t, m) ==
  Fresh(t) /\ Call(s, op, t, m, IF m = "token" THEN "debit" ELSE "record")

\* The completed transaction and the access count.
Record(s) ==
  LET t == mem[s].tx IN
  /\ pc[s] = "record"
  /\ status' = [status EXCEPT ![t] = "completed"]
  /\ method' = [method EXCEPT ![t] = mem[s].method]
  /\ content' = [content EXCEPT ![t] = "good"]
  /\ accesses' = accesses + 1
  /\ IF mem[s].op = "market" THEN Goto(s, "order") /\ UNCHANGED mem ELSE Return(s)
  /\ UNCHANGED <<paid, funds, orders, lock, calls, crashes>>

\* The order and the platform fee.
Order(s) ==
  /\ pc[s] = "order"
  /\ orders' = orders \cup {mem[s].tx}
  /\ Return(s)
  /\ UNCHANGED <<status, method, content, paid, funds, accesses, lock, calls, crashes>>
-----------------------------------------------------------------------------
Crash(s) ==
  /\ pc[s] # "idle" /\ crashes < MaxCrashes
  /\ crashes' = crashes + 1
  /\ Unlock(s) /\ Return(s)
  /\ UNCHANGED <<rows, calls>>

Step(s) ==
  \/ Confirm(s) \/ Deliver(s) \/ Dispute(s) \/ Flush(s) \/ FindKey(s)
  \/ Debit(s) \/ Refuse(s) \/ Count(s) \/ Record(s) \/ Order(s)

Next ==
  \/ \E t \in Txs : Initiate(t)
  \/ \E s \in Sessions, t \in Txs : CallConfirm(s, t) \/ CallDeliver(s, t) \/ CallVerify(s, t)
  \/ \E s \in Sessions, t \in Txs, op \in {"express", "market"}, m \in {"token", "simulated"} :
       CallExpress(s, op, t, m)
  \/ \E s \in Sessions : Step(s) \/ Crash(s)

Spec == Init /\ [][Next]_vars
-----------------------------------------------------------------------------
TypeOK ==
  /\ status \in [Txs -> {"none", "payment_pending", "payment_confirmed", "failed",
                         "delivered", "disputed", "completed"}]
  /\ method \in [Txs -> {"token", "simulated"}]
  /\ content \in [Txs -> {"none", "good", "bad"}]
  /\ paid \in [Txs -> Nat] /\ funds \in Nat /\ accesses \in Nat /\ orders \subseteq Express
  /\ lock \in [Txs -> Sessions \cup {None}]
  /\ pc \in [Sessions -> {"idle", "confirm", "deliver", "dispute", "flush", "key", "debit",
                          "count", "record", "order"}]

\* A purchase is completed only when it was charged, through concurrent
\* verifications, late deliveries and dead handlers: a token purchase exactly
\* once, and no other.
PaidAsStated(t) == paid[t] = (IF method[t] = "token" THEN 1 ELSE 0)
CompletedIsPaid == \A t \in Txs : status[t] = "completed" => PaidAsStated(t)

\* A consumer order stands for a completed purchase, paid as it states.
OrdersArePaid == \A t \in orders : status[t] = "completed" /\ PaidAsStated(t)

\* Every charge is counted as an access of the listing, unless the handler that
\* charged died before it came to that.
Pending == Cardinality({s \in Sessions : pc[s] \in {"count", "record"} /\ ~mem[s].replay})
Charged == Cardinality({t \in Txs : paid[t] > 0})
ChargesAreCounted == accesses + Pending + crashes >= Charged
=============================================================================
