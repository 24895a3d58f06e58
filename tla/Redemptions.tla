---------------------------- MODULE Redemptions ----------------------------
(***************************************************************************)
(* Withdrawals of one creator: redemption_service.py, with the hourly      *)
(* payout loop of payout_service.py, over the creator's token account and  *)
(* API credit row.                                                         *)
(*                                                                         *)
(* A session is a request handler or the payout loop.  What it has SELECTed*)
(* stays in its identity map (mem): create_redemption locks the account    *)
(* row first and reads it fresh, except when the payout loop has loaded it *)
(* before; cancel, reject and the processors lock nothing and write back   *)
(* what they computed from mem.                                            *)
(***************************************************************************)
EXTENDS Integers, FiniteSets, Functions

CONSTANTS
  Redemptions,   \* redemption requests, each created at most once
  Kind,          \* "api_credits" or "cash" (gift card, bank, UPI) of a redemption
  Amounts,       \* amounts a creator asks for
  Opening,       \* the account's balance to begin with
  MinPayout,     \* settings.creator_min_withdrawal_usd
  Sessions,
  None,          \* no session, nothing loaded, no credit row
  Ops,           \* which operations are called
  MaxCalls, MaxEarnings, MaxCrashes      \* bounds of the behaviour

ASSUME RedemptionsAssumption ==
  /\ None \notin Sessions \cup Nat /\ IsFiniteSet(Redemptions)
  /\ Kind \in [Redemptions -> {"api_credits", "cash"}]
  /\ Ops \subseteq {"create", "payout", "cancel", "approve", "batch", "reject"}
  /\ Opening \in Nat /\ MinPayout \in Nat \ {0} /\ Amounts \subseteq Nat

VARIABLES
  balance,    \* token_accounts.balance of the creator
  credits,    \* credits_remaining, or None before the row exists
  status,     \* redemption_requests.status, "none" before the row exists
  amount,     \* amount_usd
  refunds,    \* "refund" ledger rows of a redemption
  fulfilled,  \* how often a redemption was turned into API credits
  lock,       \* holder of the account's row lock, or None
  pc, mem,    \* where a session is, and what it works with
  lost,       \* history: the rows an update of which was overwritten unseen
  calls, earned, crashes

db == <<balance, credits, status, amount, refunds, fulfilled>>
bounds == <<calls, earned, crashes>>
vars == <<db, lock, pc, mem, lost, bounds>>

\* The session after its identity map is gone.
Nothing == [op |-> None, r |-> None, balance |-> None, status |-> None, credits |-> None]

Init ==
  /\ balance = Opening /\ credits = None
  /\ status = [r \in Redemptions |-> "none"]
  /\ amount = [r \in Redemptions |-> 0]
  /\ refunds = [r \in Redemptions |-> 0]
  /\ fulfilled = [r \in Redemptions |-> 0]
  /\ lock = None
  /\ pc = [s \in Sessions |-> "idle"]
  /\ mem = [s \in Sessions |-> Nothing]
  /\ lost = {}
  /\ calls = 0 /\ earned = 0 /\ crashes = 0

Goto(s, l) == pc' = [pc EXCEPT ![s] = l]
Return(s) == Goto(s, "idle") /\ mem' = [mem EXCEPT ![s] = Nothing]
Begin(s, l, m) ==
  /\ pc[s] = "idle" /\ calls < MaxCalls
  /\ calls' = calls + 1
  /\ Goto(s, l) /\ mem' = [mem EXCEPT ![s] = m]
  /\ UNCHANGED <<lock, lost, earned, crashes>>

\* History: a value computed from "read" is written over "current".
Overwrite(row, read, current) == lost' = IF read = current THEN lost ELSE lost \cup {row}
New(r) == status[r] = "none" /\ \A s \in Sessions : mem[s].r # r
-----------------------------------------------------------------------------
(* create_redemption *)

CallCreate(s, r, n) ==
  /\ "create" \in Ops /\ New(r)
  /\ amount' = [amount EXCEPT ![r] = n]
  /\ Begin(s, "lock", [Nothing EXCEPT !.op = "create", !.r = r])
  /\ UNCHANGED <<balance, credits, status, refunds, fulfilled>>

\* run_monthly_payout: the account is loaded by the query for the eligible
\* ones, and its whole balance asked for.
CallPayout(s, r) ==
  /\ "payout" \in Ops /\ New(r) /\ Kind[r] = "cash" /\ balance >= MinPayout
  /\ amount' = [amount EXCEPT ![r] = balance]
  /\ Begin(s, "lock", [Nothing EXCEPT !.op = "payout", !.r = r, !.balance = balance])
  /\ UNCHANGED <<balance, credits, status, refunds, fulfilled>>

\* SELECT ... FOR UPDATE: a row already loaded is not refreshed.
Available == lock = None
Grab(s) ==
  /\ pc[s] = "lock"
  /\ lock' = s
  /\ mem' = [mem EXCEPT ![s].balance = IF @ = None THEN balance ELSE @]
  /\ Goto(s, "debit")
  /\ UNCHANGED <<db, lost, bounds>>
NoForUpdate(s) == Grab(s)                                              \* mutant
LockAccount(s) == Available /\ Grab(s)

Refuse(s) ==
  /\ pc[s] = "debit" /\ mem[s].balance < amount[mem[s].r]
  /\ lock' = None /\ Return(s)
  /\ UNCHANGED <<db, lost, bounds>>

\* The hold, its ledger row and the request, one commit.  API credits are
\* processed right away, in a second transaction of the same session.
Unchecked(s) == TRUE                                                   \* mutant
Sufficient(s) == mem[s].balance >= amount[mem[s].r]
Hold(s) ==
  LET r == mem[s].r IN
  /\ pc[s] = "debit" /\ Sufficient(s)
  /\ balance' = mem[s].balance - amount[r]
  /\ Overwrite("account", mem[s].balance, balance)
  /\ status' = [status EXCEPT ![r] = "pending"]
  /\ lock' = None
  /\ IF Kind[r] = "api_credits"
       THEN Goto(s, "process") /\ mem' = [mem EXCEPT ![s].status = "pending"]
       ELSE Return(s)
  /\ UNCHANGED <<credits, amount, refunds, fulfilled, bounds>>
-----------------------------------------------------------------------------
(* The processors, called by the owner's creation, an administrator's       *)
(* approval or process_pending_payouts.                                     *)

\* An UPDATE writes a column only if the session changed what it had loaded.
Written(r, s, v) == IF mem[s].status = v THEN status ELSE [status EXCEPT ![r] = v]

CallOn(s, op, r) ==
  /\ op \in Ops \ {"create", "payout"} /\ status[r] # "none"
  /\ Begin(s, "read", [Nothing EXCEPT !.op = op, !.r = r])
  /\ UNCHANGED db

\* The SELECT of the request, and the checks of cancel_redemption and of the
\* query of process_pending_payouts; approval and rejection check nothing.
NeedsPending(op) == op \in {"cancel", "batch"}
ReadRequest(s) ==
  LET r == mem[s].r IN
  /\ pc[s] = "read"
  /\ IF NeedsPending(mem[s].op) /\ status[r] # "pending"
       THEN Return(s)
       ELSE /\ mem' = [mem EXCEPT ![s].status = status[r]]
            /\ Goto(s, IF mem[s].op \in {"cancel", "reject"} THEN "account" ELSE "process")
  /\ UNCHANGED <<db, lock, lost, bounds>>

\* Gift card, bank, UPI: handed over for fulfilment.
Queue(s) ==
  LET r == mem[s].r IN
  /\ pc[s] = "process" /\ Kind[r] = "cash"
  /\ status' = Written(r, s, "processing")
  /\ Return(s)
  /\ UNCHANGED <<balance, credits, amount, refunds, fulfilled, lock, lost, bounds>>

ReadCredits(s) ==
  /\ pc[s] = "process" /\ Kind[mem[s].r] = "api_credits"
  /\ mem' = [mem EXCEPT ![s].credits = credits]
  /\ Goto(s, "fulfil")
  /\ UNCHANGED <<db, lock, lost, bounds>>

\* The upsert: an UPDATE of the row that was read, or an INSERT that the
\* unique creator_id admits only once.
Insertable(s) == mem[s].credits # None \/ credits = None
OnlyNew(s, c) == c                                                     \* mutant
Topped(s, c) == IF mem[s].credits = None THEN c ELSE mem[s].credits + c
Fulfil(s) ==
  LET r == mem[s].r IN
  /\ pc[s] = "fulfil" /\ Insertable(s)
  /\ credits' = Topped(s, amount[r])
  /\ Overwrite("credits", mem[s].credits, credits)
  /\ status' = Written(r, s, "completed")
  /\ fulfilled' = [fulfilled EXCEPT ![r] = @ + 1]
  /\ Return(s)
  /\ UNCHANGED <<balance, amount, refunds, lock, bounds>>

\* IntegrityError: rolled back.
Swallowed(s) ==                                                        \* mutant
  /\ pc[s] = "fulfil" /\ ~Insertable(s)
  /\ status' = [status EXCEPT ![mem[s].r] = "completed"]
  /\ Return(s)
  /\ UNCHANGED <<balance, credits, amount, refunds, fulfilled, lock, lost, bounds>>
FulfilConflict(s) ==
  /\ pc[s] = "fulfil" /\ ~Insertable(s)
  /\ Return(s)
  /\ UNCHANGED <<db, lock, lost, bounds>>
-----------------------------------------------------------------------------
(* cancel_redemption and admin_reject_redemption *)

\* The plain SELECT of the account.
ReadAccount(s) ==
  /\ pc[s] = "account"
  /\ mem' = [mem EXCEPT ![s].balance = balance]
  /\ Goto(s, "refund")
  /\ UNCHANGED <<db, lock, lost, bounds>>

NoLedgerRow(r) == refunds                                              \* mutant
RefundRow(r) == [refunds EXCEPT ![r] = @ + 1]
Refund(s) ==
  LET r == mem[s].r IN
  /\ pc[s] = "refund" /\ lock = None
  /\ balance' = mem[s].balance + amount[r]
  /\ Overwrite("account", mem[s].balance, balance)
  /\ refunds' = RefundRow(r)
  /\ status' = Written(r, s, "rejected")
  /\ Return(s)
  /\ UNCHANGED <<credits, amount, fulfilled, lock, bounds>>
-----------------------------------------------------------------------------
\* A royalty is credited (token_service), under the account's row lock.
Earn ==
  /\ earned < MaxEarnings /\ lock = None
  /\ earned' = earned + 1
  /\ balance' = balance + 1
  /\ UNCHANGED <<credits, status, amount, refunds, fulfilled, lock, pc, mem,
                 lost, calls, crashes>>

\* The handler dies; its open transaction is rolled back.
Crash(s) ==
  /\ pc[s] # "idle" /\ crashes < MaxCrashes
  /\ crashes' = crashes + 1
  /\ lock' = IF lock = s THEN None ELSE lock
  /\ Return(s)
  /\ UNCHANGED <<db, lost, calls, earned>>

Step(s) ==
  \/ LockAccount(s) \/ Refuse(s) \/ Hold(s)
  \/ ReadRequest(s) \/ Queue(s) \/ ReadCredits(s) \/ Fulfil(s) \/ FulfilConflict(s)
  \/ ReadAccount(s) \/ Refund(s)

Next ==
  \/ \E s \in Sessions : \/ \E r \in Redemptions : \/ \E n \in Amounts : CallCreate(s, r, n)
                                                   \/ CallPayout(s, r)
                                                   \/ \E op \in Ops : CallOn(s, op, r)
                         \/ Step(s)
                         \/ Crash(s)
  \/ Earn

Spec == Init /\ [][Next]_vars
-----------------------------------------------------------------------------
TypeOK ==
  /\ balance \in Nat /\ credits \in Nat \cup {None}
  /\ status \in [Redemptions -> {"none", "pending", "processing", "completed", "rejected"}]
  /\ amount \in [Redemptions -> Nat]
  /\ refunds \in [Redemptions -> Nat] /\ fulfilled \in [Redemptions -> Nat]
  /\ lock \in Sessions \cup {None}
  /\ pc \in [Sessions -> {"idle", "lock", "debit", "read", "process", "fulfil", "account", "refund"}]

Held(r) == IF status[r] = "none" THEN 0 ELSE amount[r]
Holds == SumFunction([r \in Redemptions |-> Held(r)])
Refunded(r) == refunds[r] * amount[r]
Refunds == SumFunction([r \in Redemptions |-> Refunded(r)])
Converted(r) == fulfilled[r] * amount[r]
Conversions == SumFunction([r \in Redemptions |-> Converted(r)])

\* But for updates that were lost, the account is worth what its ledger rows
\* say: nothing is held, refunded or earned without its entry, and no entry
\* without its effect, whichever session dies where.
BalanceMatchesEntries ==
  "account" \notin lost => balance = Opening + earned - Holds + Refunds

\* Likewise, every conversion is in the credit row.
CreditsMatch ==
  "credits" \notin lost =>
    (IF credits = None THEN 0 ELSE credits) = Conversions

\* A creation that holds the row lock decides on, and debits, the committed
\* balance.
HoldIsFresh ==
  \A s \in Sessions : pc[s] = "debit" /\ mem[s].op = "create" => mem[s].balance = balance

\* Whatever runs beside it, a rejected or cancelled request was refunded and a
\* completed one was delivered: status and effect share a commit.
StatusHasEffect ==
  \A r \in Redemptions : /\ status[r] = "rejected" => refunds[r] >= 1
                         /\ status[r] = "completed" => fulfilled[r] >= 1

\* What the row lock of create_redemption is to prevent: the holds never exceed
\* what came in.
NoDoubleSpend == Holds <= Opening + earned + Refunds
=============================================================================
