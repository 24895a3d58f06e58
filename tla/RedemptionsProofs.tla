-------------------------- MODULE RedemptionsProofs --------------------------
(***************************************************************************)
(* Machine-checked proofs about Redemptions, for any number of requests,   *)
(* sessions, operations and crashes.  IInv adds to the invariants what a   *)
(* session knows at each point: who holds the row lock, and how fresh a    *)
(* creation's balance is before and under it.  MoneyInv, on top of it,     *)
(* adds which row a session is at, and carries the sums over the rows.     *)
(***************************************************************************)
EXTENDS Redemptions, Sums

Statuses == {"none", "pending", "processing", "completed", "rejected"}
Places == {"idle", "lock", "debit", "read", "process", "fulfil", "account", "refund"}

\* A creation loads the account under its lock: nothing before, the committed balance
\* after; only the payout loop brings a balance along.
KnowsAt(s) ==
  LET m == mem[s] IN
  /\ m \in [op : Ops \cup {None}, r : Redemptions \cup {None}, balance : Nat \cup {None},
            status : Statuses \cup {None}, credits : Nat \cup {None}]
  /\ pc[s] # "idle" => m.r \in Redemptions
  /\ pc[s] = "lock" /\ m.op = "create" => m.balance = None
  /\ pc[s] = "debit" => lock = s /\ m.balance \in Nat
  /\ pc[s] = "debit" /\ m.op = "create" => m.balance = balance
  /\ pc[s] = "refund" => m.balance \in Nat

IInv == TypeOK /\ StatusHasEffect /\ DOMAIN mem = Sessions /\ \A s \in Sessions : KnowsAt(s)
-----------------------------------------------------------------------------
LEMMA InitInv == Init => IInv
  BY RedemptionsAssumption
     DEF Init, IInv, TypeOK, StatusHasEffect, KnowsAt, Nothing, Statuses

LEMMA Types ==
  ASSUME IInv
  PROVE  /\ balance \in Nat /\ credits \in Nat \cup {None}
         /\ status \in [Redemptions -> Statuses] /\ amount \in [Redemptions -> Nat]
         /\ refunds \in [Redemptions -> Nat] /\ fulfilled \in [Redemptions -> Nat]
         /\ lock \in Sessions \cup {None} /\ pc \in [Sessions -> Places]
         /\ DOMAIN mem = Sessions /\ \A s \in Sessions : KnowsAt(s)
         /\ \A r \in Redemptions : /\ status[r] = "rejected" => refunds[r] >= 1
                                   /\ status[r] = "completed" => fulfilled[r] >= 1
  BY DEF IInv, TypeOK, StatusHasEffect, Statuses, Places

\* The tables after a step, which the lock and the places leave to be shown.
Tables ==
  /\ balance \in Nat /\ credits \in Nat \cup {None}
  /\ status \in [Redemptions -> Statuses] /\ amount \in [Redemptions -> Nat]
  /\ refunds \in [Redemptions -> Nat] /\ fulfilled \in [Redemptions -> Nat]
  /\ StatusHasEffect

LEMMA TablesHold == IInv => Tables
  BY DEF IInv, TypeOK, Tables, Statuses

\* A step that moves session s alone to l: the others keep what they know, as long as
\* nobody takes the lock of one of them away or changes the balance under it.
LEMMA SessionInv ==
  ASSUME IInv, Tables', NEW s \in Sessions, NEW l \in Places, pc' = [pc EXCEPT ![s] = l],
         NEW m, mem' = [mem EXCEPT ![s] = m],
         lock' \in Sessions \cup {None}, KnowsAt(s)',
         \A t \in Sessions \ {s} : lock = t => lock' = t /\ balance' = balance
  PROVE  IInv'
<1>1. TypeOK' /\ StatusHasEffect'
  BY Types DEF Tables, TypeOK, Statuses, Places
<1>2. ASSUME NEW t \in Sessions, t # s PROVE KnowsAt(t)'
  <2>1. pc'[t] = pc[t] /\ mem'[t] = mem[t] /\ KnowsAt(t)
    BY <1>2, Types
  <2> QED BY <1>2, <2>1 DEF KnowsAt
<1> QED BY <1>1, <1>2 DEF IInv

\* The end of a call.
LEMMA ReturnInv ==
  ASSUME IInv, Tables', NEW s \in Sessions, Return(s), lock' \in {lock, None},
         lock' # lock => lock = s, balance' = balance \/ lock \in {s, None}
  PROVE  IInv'
<1>1. pc'[s] = "idle" /\ mem'[s] = Nothing /\ "idle" \in Places
  BY Types DEF Return, Goto, Places
<1>2. KnowsAt(s)'
  BY <1>1 DEF KnowsAt, Nothing
<1>3. /\ lock' \in Sessions \cup {None}
      /\ \A t \in Sessions \ {s} : lock = t => lock' = t /\ balance' = balance
  BY Types, RedemptionsAssumption
<1> QED BY <1>1, <1>2, <1>3, SessionInv DEF Return, Goto
-----------------------------------------------------------------------------
(* The calls *)

\* A call that begins at l, with what it is called with.
LEMMA BeginInv ==
  ASSUME IInv, NEW s \in Sessions, NEW l \in {"lock", "read"}, NEW m, Begin(s, l, m), Tables',
         m \in [op : Ops, r : Redemptions, balance : Nat \cup {None}, status : {None}, credits : {None}],
         l = "lock" /\ m.op = "create" => m.balance = None, balance' = balance
  PROVE  IInv'
<1>1. pc'[s] = l /\ mem'[s] = m /\ l \in Places /\ UNCHANGED lock
  BY Types DEF Begin, Goto, Places
<1>2. KnowsAt(s)'
  BY <1>1 DEF KnowsAt
<1> QED BY <1>1, <1>2, Types, SessionInv DEF Begin, Goto

LEMMA CallCreateInv ==
  ASSUME IInv, NEW s \in Sessions, NEW r \in Redemptions, NEW n \in Amounts, CallCreate(s, r, n)
  PROVE  IInv'
<1> DEFINE m == [Nothing EXCEPT !.op = "create", !.r = r]
<1>1. Tables' /\ balance' = balance
  BY TablesHold, RedemptionsAssumption DEF CallCreate, Tables, StatusHasEffect
<1>2. "create" \in Ops
  BY DEF CallCreate
<1>3. /\ m \in [op : Ops, r : Redemptions, balance : Nat \cup {None}, status : {None}, credits : {None}]
      /\ m.op = "create" /\ m.balance = None
  BY <1>2 DEF Nothing
<1>4. Begin(s, "lock", m)
  BY DEF CallCreate
<1> HIDE DEF m
<1> QED BY <1>1, <1>3, <1>4, BeginInv

LEMMA CallPayoutInv ==
  ASSUME IInv, NEW s \in Sessions, NEW r \in Redemptions, CallPayout(s, r) PROVE IInv'
<1> DEFINE m == [Nothing EXCEPT !.op = "payout", !.r = r, !.balance = balance]
<1>1. Tables' /\ balance' = balance
  BY TablesHold DEF CallPayout, Tables, StatusHasEffect
<1>2. "payout" \in Ops /\ balance \in Nat
  BY Types DEF CallPayout
<1>3. /\ m \in [op : Ops, r : Redemptions, balance : Nat \cup {None}, status : {None}, credits : {None}]
      /\ m.op = "payout" /\ m.balance = balance
  BY <1>2 DEF Nothing
<1>4. Begin(s, "lock", m)
  BY DEF CallPayout
<1> HIDE DEF m
<1> QED BY <1>1, <1>3, <1>4, BeginInv

LEMMA CallOnInv ==
  ASSUME IInv, NEW s \in Sessions, NEW op \in Ops, NEW r \in Redemptions, CallOn(s, op, r)
  PROVE  IInv'
<1> DEFINE m == [Nothing EXCEPT !.op = op, !.r = r]
<1>1. Tables' /\ balance' = balance
  BY TablesHold DEF CallOn, db, Tables, StatusHasEffect
<1>2. /\ m \in [op : Ops, r : Redemptions, balance : Nat \cup {None}, status : {None}, credits : {None}]
      /\ m.op = op /\ m.balance = None
  BY DEF Nothing
<1>3. Begin(s, "read", m)
  BY DEF CallOn
<1> HIDE DEF m
<1> QED BY <1>1, <1>2, <1>3, BeginInv
-----------------------------------------------------------------------------
(* create_redemption *)

\* SELECT ... FOR UPDATE: nobody held the lock, and a creation reads the balance now.
LEMMA LockAccountInv == ASSUME IInv, NEW s \in Sessions, LockAccount(s) PROVE IInv'
<1> DEFINE m == [mem[s] EXCEPT !.balance = IF @ = None THEN balance ELSE @]
<1>1. /\ pc[s] = "lock" /\ lock = None /\ lock' = s /\ UNCHANGED db
      /\ pc' = [pc EXCEPT ![s] = "debit"] /\ mem' = [mem EXCEPT ![s] = m]
  BY Types DEF LockAccount, Available, Grab, Goto
<1>2. KnowsAt(s) /\ balance \in Nat
  BY Types
<1>3. /\ m \in [op : Ops \cup {None}, r : Redemptions \cup {None}, balance : Nat,
                status : Statuses \cup {None}, credits : Nat \cup {None}]
      /\ m.r = mem[s].r /\ m.op = mem[s].op
      /\ m.balance = IF mem[s].balance = None THEN balance ELSE mem[s].balance
  BY <1>2 DEF KnowsAt
<1> HIDE DEF m
<1>4. pc'[s] = "debit" /\ mem'[s] = m /\ "debit" \in Places /\ balance' = balance
  BY <1>1, Types DEF Places, db
<1>5. KnowsAt(s)'
  BY <1>1, <1>2, <1>3, <1>4 DEF KnowsAt
<1>6. Tables'
  BY <1>1, TablesHold DEF db, Tables, StatusHasEffect
<1> QED BY <1>1, <1>4, <1>5, <1>6, RedemptionsAssumption, SessionInv

LEMMA RefuseInv == ASSUME IInv, NEW s \in Sessions, Refuse(s) PROVE IInv'
<1>1. Tables' /\ lock = s /\ balance' = balance
  BY TablesHold, Types DEF Refuse, db, Tables, StatusHasEffect, KnowsAt
<1> QED BY <1>1, ReturnInv DEF Refuse

LEMMA HoldInv == ASSUME IInv, NEW s \in Sessions, Hold(s) PROVE IInv'
<1> DEFINE r == mem[s].r
           m == [mem[s] EXCEPT !.status = "pending"]
<1>1. KnowsAt(s) /\ lock = s /\ lock' = None /\ r \in Redemptions /\ mem[s].balance \in Nat
      /\ amount[r] \in Nat
  BY Types DEF Hold, KnowsAt
<1>2. Tables'
  <2>1. balance' \in Nat
    BY <1>1 DEF Hold, Sufficient
  <2> QED BY <1>1, <2>1, Types DEF Hold, Tables, StatusHasEffect, Statuses
<1>3. CASE Return(s)
  BY <1>1, <1>2, <1>3, ReturnInv
<1>4. CASE Goto(s, "process") /\ mem' = [mem EXCEPT ![s].status = "pending"]
  <2>1. pc' = [pc EXCEPT ![s] = "process"] /\ mem' = [mem EXCEPT ![s] = m]
    BY <1>4, Types DEF Goto
  <2>2. /\ m \in [op : Ops \cup {None}, r : Redemptions \cup {None}, balance : Nat \cup {None},
                  status : Statuses \cup {None}, credits : Nat \cup {None}]
        /\ m.r = r
    BY <1>1 DEF KnowsAt, Statuses
  <2> HIDE DEF m
  <2>3. pc'[s] = "process" /\ mem'[s] = m /\ "process" \in Places
    BY <2>1, Types DEF Places
  <2>4. KnowsAt(s)'
    BY <1>1, <2>2, <2>3 DEF KnowsAt
  <2> QED BY <1>1, <1>2, <2>1, <2>3, <2>4, RedemptionsAssumption, SessionInv
<1> QED BY <1>3, <1>4 DEF Hold
-----------------------------------------------------------------------------
(* The processors, cancellation and rejection *)

\* A step of a session that has read something more: the tables stay as they are.
LEMMA ReadingInv ==
  ASSUME IInv, NEW s \in Sessions, UNCHANGED <<db, lock>>,
         NEW l \in {"process", "fulfil", "account", "refund"}, Goto(s, l),
         NEW m, mem' = [mem EXCEPT ![s] = m],
         m \in [op : Ops \cup {None}, r : Redemptions \cup {None}, balance : Nat \cup {None},
                status : Statuses \cup {None}, credits : Nat \cup {None}],
         m.r \in Redemptions, l = "refund" => m.balance \in Nat
  PROVE  IInv'
<1>1. pc'[s] = l /\ mem'[s] = m /\ l \in Places
  BY Types DEF Goto, Places
<1>2. KnowsAt(s)'
  BY <1>1 DEF KnowsAt
<1>3. Tables'
  BY TablesHold DEF db, Tables, StatusHasEffect
<1> QED BY <1>1, <1>2, <1>3, Types, SessionInv DEF Goto, db

LEMMA ReadRequestInv == ASSUME IInv, NEW s \in Sessions, ReadRequest(s) PROVE IInv'
<1>1. KnowsAt(s) /\ mem[s].r \in Redemptions /\ Tables' /\ balance' = balance
      /\ UNCHANGED <<db, lock>>
  BY TablesHold, Types DEF ReadRequest, KnowsAt, db, Tables, StatusHasEffect
<1>2. CASE Return(s)
  BY <1>1, <1>2, ReturnInv
<1>3. ASSUME NEW l \in {"account", "process"}, Goto(s, l),
             mem' = [mem EXCEPT ![s].status = status[mem[s].r]]
      PROVE  IInv'
  <2> DEFINE m == [mem[s] EXCEPT !.status = status[mem[s].r]]
  <2>1. /\ m \in [op : Ops \cup {None}, r : Redemptions \cup {None}, balance : Nat \cup {None},
                  status : Statuses \cup {None}, credits : Nat \cup {None}]
        /\ m.r = mem[s].r
    BY <1>1, Types DEF KnowsAt
  <2>2. mem' = [mem EXCEPT ![s] = m]
    BY <1>3, Types
  <2> HIDE DEF m
  <2> QED BY <1>1, <1>3, <2>1, <2>2, ReadingInv
<1> QED BY <1>2, <1>3 DEF ReadRequest

LEMMA ReadCreditsInv == ASSUME IInv, NEW s \in Sessions, ReadCredits(s) PROVE IInv'
<1> DEFINE m == [mem[s] EXCEPT !.credits = credits]
<1>1. KnowsAt(s) /\ mem[s].r \in Redemptions /\ UNCHANGED <<db, lock>> /\ Goto(s, "fulfil")
  BY Types DEF ReadCredits, KnowsAt
<1>2. /\ m \in [op : Ops \cup {None}, r : Redemptions \cup {None}, balance : Nat \cup {None},
                status : Statuses \cup {None}, credits : Nat \cup {None}]
      /\ m.r = mem[s].r
  BY <1>1, Types DEF KnowsAt
<1>3. mem' = [mem EXCEPT ![s] = m]
  BY Types DEF ReadCredits
<1> HIDE DEF m
<1> QED BY <1>1, <1>2, <1>3, ReadingInv

LEMMA ReadAccountInv == ASSUME IInv, NEW s \in Sessions, ReadAccount(s) PROVE IInv'
<1> DEFINE m == [mem[s] EXCEPT !.balance = balance]
<1>1. KnowsAt(s) /\ mem[s].r \in Redemptions /\ UNCHANGED <<db, lock>> /\ Goto(s, "refund")
      /\ balance \in Nat
  BY Types DEF ReadAccount, KnowsAt
<1>2. /\ m \in [op : Ops \cup {None}, r : Redemptions \cup {None}, balance : Nat \cup {None},
                status : Statuses \cup {None}, credits : Nat \cup {None}]
      /\ m.r = mem[s].r /\ m.balance = balance
  BY <1>1 DEF KnowsAt
<1>3. mem' = [mem EXCEPT ![s] = m]
  BY Types DEF ReadAccount
<1> HIDE DEF m
<1> QED BY <1>1, <1>2, <1>3, ReadingInv

LEMMA QueueInv == ASSUME IInv, NEW s \in Sessions, Queue(s) PROVE IInv'
<1>1. mem[s].r \in Redemptions
  BY Types DEF Queue, KnowsAt
<1>2. Tables' /\ balance' = balance /\ lock' = lock
  BY <1>1, Types DEF Queue, Written, Tables, StatusHasEffect, Statuses
<1> QED BY <1>2, ReturnInv DEF Queue

LEMMA FulfilInv == ASSUME IInv, NEW s \in Sessions, Fulfil(s) PROVE IInv'
<1> DEFINE r == mem[s].r
<1>1. r \in Redemptions /\ KnowsAt(s) /\ amount[r] \in Nat
  BY Types DEF Fulfil, KnowsAt
<1>2. credits' \in Nat
  BY <1>1 DEF Fulfil, Topped, KnowsAt
<1>3. Tables' /\ balance' = balance /\ lock' = lock
  BY <1>1, <1>2, Types DEF Fulfil, Written, Tables, StatusHasEffect, Statuses
<1> QED BY <1>3, ReturnInv DEF Fulfil

LEMMA FulfilConflictInv == ASSUME IInv, NEW s \in Sessions, FulfilConflict(s) PROVE IInv'
<1>1. Tables' /\ balance' = balance /\ lock' = lock
  BY TablesHold DEF FulfilConflict, db, Tables, StatusHasEffect
<1> QED BY <1>1, ReturnInv DEF FulfilConflict

LEMMA RefundInv == ASSUME IInv, NEW s \in Sessions, Refund(s) PROVE IInv'
<1> DEFINE r == mem[s].r
<1>1. r \in Redemptions /\ mem[s].balance \in Nat /\ amount[r] \in Nat
  BY Types DEF Refund, KnowsAt
<1>2. Tables' /\ lock' = lock /\ lock = None
  BY <1>1, Types DEF Refund, RefundRow, Written, Tables, StatusHasEffect, Statuses
<1> QED BY <1>2, ReturnInv DEF Refund

LEMMA CrashInv == ASSUME IInv, NEW s \in Sessions, Crash(s) PROVE IInv'
<1>1. Tables' /\ balance' = balance /\ lock' \in {lock, None} /\ (lock' # lock => lock = s)
  BY TablesHold DEF Crash, db, Tables, StatusHasEffect
<1> QED BY <1>1, ReturnInv DEF Crash

LEMMA EarnInv == ASSUME IInv, Earn PROVE IInv'
<1>1. TypeOK' /\ StatusHasEffect' /\ DOMAIN mem' = Sessions
  BY DEF Earn, IInv, TypeOK, StatusHasEffect
<1>2. ASSUME NEW s \in Sessions PROVE KnowsAt(s)'
  BY Types, RedemptionsAssumption DEF Earn, KnowsAt
<1> QED BY <1>1, <1>2 DEF IInv
-----------------------------------------------------------------------------
LEMMA StutterInv == IInv /\ UNCHANGED vars => IInv'
<1> SUFFICES ASSUME IInv, UNCHANGED vars PROVE IInv'
  OBVIOUS
<1>1. TypeOK' /\ StatusHasEffect' /\ DOMAIN mem' = Sessions
  BY DEF vars, db, IInv, TypeOK, StatusHasEffect
<1>2. ASSUME NEW s \in Sessions PROVE KnowsAt(s)'
  BY Types DEF vars, db, KnowsAt
<1> QED BY <1>1, <1>2 DEF IInv

LEMMA StepInv == ASSUME IInv, NEW s \in Sessions, Step(s) PROVE IInv'
  BY LockAccountInv, RefuseInv, HoldInv, ReadRequestInv, QueueInv, ReadCreditsInv, FulfilInv,
     FulfilConflictInv, ReadAccountInv, RefundInv DEF Step

LEMMA NextInv == IInv /\ [Next]_vars => IInv'
<1> SUFFICES ASSUME IInv, [Next]_vars PROVE IInv'
  OBVIOUS
<1>1. ASSUME NEW s \in Sessions, NEW r \in Redemptions,
             \/ \E n \in Amounts : CallCreate(s, r, n)
             \/ CallPayout(s, r)
             \/ \E op \in Ops : CallOn(s, op, r)
      PROVE  IInv'
  BY <1>1, CallCreateInv, CallPayoutInv, CallOnInv
<1>2. ASSUME NEW s \in Sessions, Step(s) \/ Crash(s) PROVE IInv'
  BY <1>2, StepInv, CrashInv
<1> QED BY <1>1, <1>2, EarnInv, StutterInv DEF Next

LEMMA SpecInv == Spec => []IInv
  BY InitInv, NextInv, PTL DEF Spec
-----------------------------------------------------------------------------
(* Money: the sums over the requests *)

AtNew == {"lock", "debit"}
Running == Places \ {"idle"}

\* A creation works on a row of its own, that nobody can see before its commit; every
\* other call is about a row that exists.
RowAt(s) ==
  /\ pc[s] \in AtNew =>
       /\ status[mem[s].r] = "none"
       /\ \A t \in Sessions \ {s} : pc[t] \in Running => mem[t].r # mem[s].r
  /\ pc[s] \in Running \ AtNew => status[mem[s].r] # "none"
RowsInv ==
  /\ earned \in Nat /\ \A s \in Sessions : RowAt(s)
  /\ \A r \in Redemptions : status[r] = "none" => refunds[r] = 0 /\ fulfilled[r] = 0
MoneyInv == RowsInv /\ BalanceMatchesEntries /\ CreditsMatch

HeldOf == [r \in Redemptions |-> Held(r)]
RefundedOf == [r \in Redemptions |-> Refunded(r)]
ConvertedOf == [r \in Redemptions |-> Converted(r)]

SummandsAreNumbers ==
  /\ HeldOf \in [Redemptions -> Int] /\ RefundedOf \in [Redemptions -> Int]
  /\ ConvertedOf \in [Redemptions -> Int]

LEMMA Summands == Tables => SummandsAreNumbers
<1> SUFFICES ASSUME Tables, NEW r \in Redemptions
             PROVE  Held(r) \in Int /\ Refunded(r) \in Int /\ Converted(r) \in Int
  BY DEF SummandsAreNumbers, HeldOf, RefundedOf, ConvertedOf
<1>1. amount[r] \in Nat /\ refunds[r] \in Nat /\ fulfilled[r] \in Nat
  BY DEF Tables
<1> QED BY <1>1 DEF Held, Refunded, Converted

LEMMA SummandsNext == Tables' => SummandsAreNumbers'
  BY Summands, PTL

LEMMA SumsAreNumbers == Tables => Holds \in Int /\ Refunds \in Int /\ Conversions \in Int
<1> SUFFICES ASSUME Tables PROVE Holds \in Int /\ Refunds \in Int /\ Conversions \in Int
  OBVIOUS
<1> QED BY Summands, SumFunctionInt, RedemptionsAssumption
           DEF SummandsAreNumbers, Holds, Refunds, Conversions, HeldOf, RefundedOf, ConvertedOf

\* No sum moves where no row is created, and where the rows that get another amount, or
\* are yet to be created, count for nothing.
LEMMA SumsStay ==
  ASSUME Tables, Tables',
         \A r \in Redemptions : /\ status'[r] = "none" <=> status[r] = "none"
                                /\ refunds'[r] = refunds[r] /\ fulfilled'[r] = fulfilled[r]
                                /\ \/ amount'[r] = amount[r]
                                   \/ status[r] = "none" /\ refunds[r] = 0 /\ fulfilled[r] = 0
  PROVE  Holds' = Holds /\ Refunds' = Refunds /\ Conversions' = Conversions
<1> SUFFICES ASSUME NEW r \in Redemptions
             PROVE  Held(r)' = Held(r) /\ Refunded(r)' = Refunded(r) /\ Converted(r)' = Converted(r)
  BY DEF Holds, Refunds, Conversions
<1>1. amount[r] \in Nat /\ amount'[r] \in Nat
  BY DEF Tables
<1>2. Held(r)' = Held(r)
  BY DEF Held
<1>3. CASE amount'[r] = amount[r]
  BY <1>2, <1>3 DEF Refunded, Converted
<1>4. CASE refunds[r] = 0 /\ fulfilled[r] = 0
  BY <1>1, <1>2, <1>4 DEF Refunded, Converted
<1> QED BY <1>3, <1>4

\* A creation's commit adds its amount to what is held.
LEMMA HoldsGrow ==
  ASSUME Tables, Tables', NEW r \in Redemptions, status[r] = "none",
         status' = [status EXCEPT ![r] = "pending"], UNCHANGED <<amount, refunds, fulfilled>>
  PROVE  Holds' = Holds + amount[r] /\ Refunds' = Refunds /\ Conversions' = Conversions
<1>1. /\ HeldOf \in [Redemptions -> Int] /\ HeldOf' \in [Redemptions -> Int] /\ amount[r] \in Int
      /\ status'[r] = "pending" /\ \A q \in Redemptions \ {r} : status'[q] = status[q]
  BY Summands, SummandsNext DEF Tables, SummandsAreNumbers
<1>2. HeldOf'[r] = HeldOf[r] + amount[r] /\ \A q \in Redemptions \ {r} : HeldOf'[q] = HeldOf[q]
  BY <1>1 DEF HeldOf, Held
<1>3. SumFunction(HeldOf') = SumFunction(HeldOf) + amount[r]
  BY <1>1, <1>2, SumFunctionChange, RedemptionsAssumption
<1> QED BY <1>3 DEF HeldOf, Holds, Refunds, Conversions, Refunded, Converted

LEMMA OneMore == ASSUME NEW n \in Nat, NEW m \in Nat PROVE (n + 1) * m = n * m + m
  OBVIOUS

\* A refund's entry adds the request's amount to what was refunded ...
LEMMA RefundsGrow ==
  ASSUME Tables, Tables', NEW r \in Redemptions, refunds' = [refunds EXCEPT ![r] = @ + 1],
         UNCHANGED <<amount, fulfilled>>,
         \A q \in Redemptions : status'[q] = "none" <=> status[q] = "none"
  PROVE  Refunds' = Refunds + amount[r] /\ Holds' = Holds /\ Conversions' = Conversions
<1>1. /\ RefundedOf \in [Redemptions -> Int] /\ RefundedOf' \in [Redemptions -> Int]
      /\ amount[r] \in Nat /\ refunds[r] \in Nat /\ refunds'[r] = refunds[r] + 1
      /\ \A q \in Redemptions \ {r} : refunds'[q] = refunds[q]
  BY Summands, SummandsNext DEF Tables, SummandsAreNumbers
<1>2. Refunded(r)' = Refunded(r) + amount[r]
  BY <1>1, OneMore DEF Refunded
<1>3. RefundedOf'[r] = RefundedOf[r] + amount[r]
      /\ \A q \in Redemptions \ {r} : RefundedOf'[q] = RefundedOf[q]
  BY <1>1, <1>2 DEF RefundedOf, Refunded
<1>4. SumFunction(RefundedOf') = SumFunction(RefundedOf) + amount[r]
  BY <1>1, <1>3, SumFunctionChange, RedemptionsAssumption
<1>5. \A q \in Redemptions : Held(q)' = Held(q)
  BY DEF Held
<1> QED BY <1>4, <1>5 DEF RefundedOf, Refunds, Holds, Conversions, Converted

\* ... and a conversion to what was converted.
LEMMA ConversionsGrow ==
  ASSUME Tables, Tables', NEW r \in Redemptions, fulfilled' = [fulfilled EXCEPT ![r] = @ + 1],
         UNCHANGED <<amount, refunds>>,
         \A q \in Redemptions : status'[q] = "none" <=> status[q] = "none"
  PROVE  Conversions' = Conversions + amount[r] /\ Holds' = Holds /\ Refunds' = Refunds
<1>1. /\ ConvertedOf \in [Redemptions -> Int] /\ ConvertedOf' \in [Redemptions -> Int]
      /\ amount[r] \in Nat /\ fulfilled[r] \in Nat /\ fulfilled'[r] = fulfilled[r] + 1
      /\ \A q \in Redemptions \ {r} : fulfilled'[q] = fulfilled[q]
  BY Summands, SummandsNext DEF Tables, SummandsAreNumbers
<1>2. Converted(r)' = Converted(r) + amount[r]
  BY <1>1, OneMore DEF Converted
<1>3. ConvertedOf'[r] = ConvertedOf[r] + amount[r]
      /\ \A q \in Redemptions \ {r} : ConvertedOf'[q] = ConvertedOf[q]
  BY <1>1, <1>2 DEF ConvertedOf, Converted
<1>4. SumFunction(ConvertedOf') = SumFunction(ConvertedOf) + amount[r]
  BY <1>1, <1>3, SumFunctionChange, RedemptionsAssumption
<1>5. \A q \in Redemptions : Held(q)' = Held(q)
  BY DEF Held
<1> QED BY <1>4, <1>5 DEF ConvertedOf, Conversions, Holds, Refunds, Refunded
-----------------------------------------------------------------------------
LEMMA InitMoney == Init => MoneyInv
<1> SUFFICES ASSUME Init PROVE MoneyInv
  OBVIOUS
<1>1. RowsInv
  BY DEF Init, RowsInv, RowAt, Places, AtNew, Running
<1>2. \A r \in Redemptions : Held(r) = 0 /\ Refunded(r) = 0 /\ Converted(r) = 0
  BY DEF Init, Held, Refunded, Converted
<1>3. Holds = SumFunction([r \in Redemptions |-> 0])
  BY <1>2 DEF Holds
<1>4. Refunds = SumFunction([r \in Redemptions |-> 0])
  BY <1>2 DEF Refunds
<1>5. Conversions = SumFunction([r \in Redemptions |-> 0])
  BY <1>2 DEF Conversions
<1>6. Holds = 0 /\ Refunds = 0 /\ Conversions = 0
  BY <1>3, <1>4, <1>5, SumFunctionZero, RedemptionsAssumption
<1> QED BY <1>1, <1>6, RedemptionsAssumption DEF Init, MoneyInv, BalanceMatchesEntries, CreditsMatch

\* Session s moves alone, and of the rows at most its own gets a status.
LEMMA RowsStep ==
  ASSUME IInv, RowsInv, NEW s \in Sessions, NEW l \in Places, Goto(s, l),
         NEW m, mem' = [mem EXCEPT ![s] = m], earned' = earned,
         \/ status' = status
         \/ /\ pc[s] \in Running
            /\ \E v \in Statuses \ {"none"} : status' = [status EXCEPT ![mem[s].r] = v],
         l # "idle" => \A t \in Sessions \ {s} : pc[t] \in AtNew => m.r # mem[t].r,
         RowAt(s)',
         \A r \in Redemptions : status'[r] = "none" => refunds'[r] = 0 /\ fulfilled'[r] = 0
  PROVE  RowsInv'
<1>1. ASSUME NEW t \in Sessions, t # s PROVE RowAt(t)'
  <2>1. pc'[t] = pc[t] /\ mem'[t] = mem[t] /\ RowAt(t) /\ pc'[s] = l /\ mem'[s] = m
        /\ \A u \in Sessions \ {s} : pc'[u] = pc[u] /\ mem'[u] = mem[u]
    BY <1>1, Types DEF Goto, RowsInv
  <2>2. pc[t] \in Running => mem[t].r \in Redemptions
    BY <2>1, Types DEF KnowsAt, Running
  <2>3. pc[t] \in AtNew => pc[t] \in Running /\ status'[mem[t].r] = status[mem[t].r]
    <3> SUFFICES ASSUME pc[t] \in AtNew PROVE pc[t] \in Running /\ status'[mem[t].r] = status[mem[t].r]
      OBVIOUS
    <3>1. pc[t] \in Running
      BY DEF AtNew, Running, Places
    <3>2. pc[s] \in Running => mem[s].r # mem[t].r
      BY <1>1, <2>1 DEF RowAt
    <3> QED BY <2>2, <3>1, <3>2, Types
  <2>4. status[mem[t].r] # "none" /\ pc[t] \in Running => status'[mem[t].r] # "none"
    BY <2>2, Types
  <2>5. pc[t] \in AtNew => \A u \in Sessions \ {t} : pc'[u] \in Running => mem'[u].r # mem[t].r
    BY <1>1, <2>1 DEF RowAt, Running, AtNew
  <2> QED BY <2>1, <2>3, <2>4, <2>5 DEF RowAt
<1> QED BY <1>1 DEF RowsInv

\* Nothing of the account, the credits and the sums moves.
LEMMA MoneyStays ==
  ASSUME MoneyInv, RowsInv', UNCHANGED <<balance, credits, lost, earned>>,
         Holds' = Holds /\ Refunds' = Refunds /\ Conversions' = Conversions
  PROVE  MoneyInv'
  BY DEF MoneyInv, BalanceMatchesEntries, CreditsMatch

LEMMA TablesNext == IInv' => Tables'
  BY TablesHold, PTL

\* A step that leaves the tables as they are.
LEMMA ReadMoney ==
  ASSUME MoneyInv, RowsInv', UNCHANGED <<db, lost, earned>>
  PROVE  MoneyInv'
<1>1. \A r \in Redemptions : Held(r)' = Held(r) /\ Refunded(r)' = Refunded(r) /\ Converted(r)' = Converted(r)
  BY DEF db, Held, Refunded, Converted
<1> QED BY <1>1, MoneyStays DEF db, Holds, Refunds, Conversions

\* The end of a call, which may give the request another status.
LEMMA ReturnRows ==
  ASSUME IInv, RowsInv, NEW s \in Sessions, pc[s] \in Running, Return(s), earned' = earned,
         \/ status' = status
         \/ \E v \in Statuses \ {"none"} : status' = [status EXCEPT ![mem[s].r] = v],
         \A r \in Redemptions : status'[r] = "none" => refunds'[r] = 0 /\ fulfilled'[r] = 0
  PROVE  RowsInv'
<1>1. "idle" \in Places /\ pc'[s] = "idle"
  BY Types DEF Return, Goto, Places
<1>2. RowAt(s)'
  BY <1>1 DEF RowAt, AtNew, Running
<1> QED BY <1>1, <1>2, RowsStep DEF Return

\* A row about to be created: no session has it, nothing was refunded or converted.
LEMMA NewRowMoney ==
  ASSUME IInv, IInv', MoneyInv, NEW s \in Sessions, NEW r \in Redemptions, NEW m, New(r), m.r = r,
         Begin(s, "lock", m), NEW n, amount' = [amount EXCEPT ![r] = n],
         UNCHANGED <<balance, credits, status, refunds, fulfilled>>
  PROVE  MoneyInv'
<1>1. Goto(s, "lock") /\ mem' = [mem EXCEPT ![s] = m] /\ earned' = earned /\ lost' = lost
      /\ "lock" \in Places /\ pc'[s] = "lock" /\ mem'[s] = m
      /\ \A t \in Sessions \ {s} : mem'[t] = mem[t]
  BY Types DEF Begin, Goto, Places
<1>2. status[r] = "none" /\ \A t \in Sessions : mem[t].r # r
  BY DEF New
<1>3. RowAt(s)'
  BY <1>1, <1>2 DEF RowAt, AtNew
<1>4. \A q \in Redemptions : status'[q] = "none" => refunds'[q] = 0 /\ fulfilled'[q] = 0
  BY DEF MoneyInv, RowsInv
<1>5. RowsInv'
  BY <1>1, <1>2, <1>3, <1>4, RowsStep DEF MoneyInv
<1>6. Tables /\ Tables'
  BY TablesHold, TablesNext
<1>7. refunds[r] = 0 /\ fulfilled[r] = 0 /\ \A q \in Redemptions \ {r} : amount'[q] = amount[q]
  BY <1>2, <1>6 DEF MoneyInv, RowsInv, Tables
<1>8. Holds' = Holds /\ Refunds' = Refunds /\ Conversions' = Conversions
  BY <1>2, <1>6, <1>7, SumsStay
<1> QED BY <1>1, <1>5, <1>8, MoneyStays

LEMMA CallCreateMoney ==
  ASSUME IInv, IInv', MoneyInv, NEW s \in Sessions, NEW r \in Redemptions, NEW n \in Amounts,
         CallCreate(s, r, n)
  PROVE  MoneyInv'
<1> DEFINE m == [Nothing EXCEPT !.op = "create", !.r = r]
<1>1. m.r = r /\ Begin(s, "lock", m)
  BY DEF Nothing, CallCreate
<1> HIDE DEF m
<1> QED BY <1>1, NewRowMoney DEF CallCreate

LEMMA CallPayoutMoney ==
  ASSUME IInv, IInv', MoneyInv, NEW s \in Sessions, NEW r \in Redemptions, CallPayout(s, r)
  PROVE  MoneyInv'
<1> DEFINE m == [Nothing EXCEPT !.op = "payout", !.r = r, !.balance = balance]
<1>1. m.r = r /\ Begin(s, "lock", m)
  BY DEF Nothing, CallPayout
<1> HIDE DEF m
<1> QED BY <1>1, NewRowMoney DEF CallPayout

LEMMA CallOnMoney ==
  ASSUME IInv, MoneyInv, NEW s \in Sessions, NEW op \in Ops, NEW r \in Redemptions, CallOn(s, op, r)
  PROVE  MoneyInv'
<1> DEFINE m == [Nothing EXCEPT !.op = op, !.r = r]
<1>1. m.r = r /\ Begin(s, "read", m) /\ status[r] # "none" /\ UNCHANGED db
  BY DEF Nothing, CallOn
<1> HIDE DEF m
<1>2. Goto(s, "read") /\ mem' = [mem EXCEPT ![s] = m] /\ earned' = earned /\ lost' = lost
      /\ "read" \in Places /\ pc'[s] = "read" /\ mem'[s] = m
  BY <1>1, Types DEF Begin, Goto, Places
<1>3. RowAt(s)'
  BY <1>1, <1>2 DEF RowAt, AtNew, db
<1>4. \A t \in Sessions \ {s} : pc[t] \in AtNew => m.r # mem[t].r
  BY <1>1 DEF MoneyInv, RowsInv, RowAt
<1>5. RowsInv'
  BY <1>1, <1>2, <1>3, <1>4, RowsStep DEF MoneyInv, RowsInv, db
<1> QED BY <1>1, <1>2, <1>5, ReadMoney

\* A step inside a call that stays with its row and on its side of the row's creation.
LEMMA OnwardMoney ==
  ASSUME IInv, MoneyInv, NEW s \in Sessions, UNCHANGED <<db, lost, earned>>,
         NEW l \in Running, Goto(s, l), pc[s] \in Running, l \in AtNew <=> pc[s] \in AtNew,
         NEW m, mem' = [mem EXCEPT ![s] = m], m.r = mem[s].r
  PROVE  MoneyInv'
<1>1. l \in Places /\ pc'[s] = l /\ mem'[s] = m /\ status' = status
      /\ \A t \in Sessions \ {s} : pc'[t] = pc[t] /\ mem'[t] = mem[t]
  BY Types DEF Goto, Running, db
<1>2. RowAt(s) /\ \A t \in Sessions : RowAt(t)
  BY DEF MoneyInv, RowsInv
<1>3. RowAt(s)'
  BY <1>1, <1>2 DEF RowAt
<1>4. \A t \in Sessions \ {s} : pc[t] \in AtNew => m.r # mem[t].r
  BY <1>2 DEF RowAt
<1>5. RowsInv'
  BY <1>1, <1>3, <1>4, RowsStep DEF MoneyInv, RowsInv, db
<1> QED BY <1>5, ReadMoney

LEMMA LockAccountMoney ==
  ASSUME IInv, MoneyInv, NEW s \in Sessions, LockAccount(s) PROVE MoneyInv'
<1> DEFINE m == [mem[s] EXCEPT !.balance = IF @ = None THEN balance ELSE @]
<1>1. mem' = [mem EXCEPT ![s] = m] /\ KnowsAt(s)
  BY Types DEF LockAccount, Grab
<1>2. m.r = mem[s].r
  BY <1>1 DEF KnowsAt
<1> HIDE DEF m
<1> QED BY <1>1, <1>2, OnwardMoney DEF LockAccount, Grab, Running, Places, AtNew, bounds

LEMMA ReadRequestMoney ==
  ASSUME IInv, MoneyInv, NEW s \in Sessions, ReadRequest(s) PROVE MoneyInv'
<1>1. /\ UNCHANGED <<db, lost, earned>> /\ pc[s] = "read"
      /\ pc[s] \in Running /\ pc[s] \notin AtNew
  BY DEF ReadRequest, bounds, Running, Places, AtNew
<1>2. CASE Return(s)
  <2>1. RowsInv'
    BY <1>1, <1>2, ReturnRows DEF MoneyInv, RowsInv, db
  <2> QED BY <1>1, <2>1, ReadMoney
<1>3. ASSUME NEW l \in {"account", "process"}, Goto(s, l),
             mem' = [mem EXCEPT ![s].status = status[mem[s].r]]
      PROVE  MoneyInv'
  <2> DEFINE m == [mem[s] EXCEPT !.status = status[mem[s].r]]
  <2>1. mem' = [mem EXCEPT ![s] = m] /\ KnowsAt(s)
    BY <1>3, Types
  <2>2. m.r = mem[s].r
    BY <2>1 DEF KnowsAt
  <2>3. l \in Running /\ l \notin AtNew
    BY DEF Running, Places, AtNew
  <2> HIDE DEF m
  <2> QED BY <1>1, <1>3, <2>1, <2>2, <2>3, OnwardMoney
<1> QED BY <1>2, <1>3 DEF ReadRequest

LEMMA ReadCreditsMoney ==
  ASSUME IInv, MoneyInv, NEW s \in Sessions, ReadCredits(s) PROVE MoneyInv'
<1> DEFINE m == [mem[s] EXCEPT !.credits = credits]
<1>1. mem' = [mem EXCEPT ![s] = m] /\ KnowsAt(s)
  BY Types DEF ReadCredits
<1>2. m.r = mem[s].r
  BY <1>1 DEF KnowsAt
<1> HIDE DEF m
<1> QED BY <1>1, <1>2, OnwardMoney DEF ReadCredits, Running, Places, AtNew, bounds

LEMMA ReadAccountMoney ==
  ASSUME IInv, MoneyInv, NEW s \in Sessions, ReadAccount(s) PROVE MoneyInv'
<1> DEFINE m == [mem[s] EXCEPT !.balance = balance]
<1>1. mem' = [mem EXCEPT ![s] = m] /\ KnowsAt(s)
  BY Types DEF ReadAccount
<1>2. m.r = mem[s].r
  BY <1>1 DEF KnowsAt
<1> HIDE DEF m
<1> QED BY <1>1, <1>2, OnwardMoney DEF ReadAccount, Running, Places, AtNew, bounds

\* A call that ends with nothing written.
LEMMA QuietReturnMoney ==
  ASSUME IInv, MoneyInv, NEW s \in Sessions, Refuse(s) \/ FulfilConflict(s) \/ Crash(s)
  PROVE  MoneyInv'
<1>1. pc[s] \in Running /\ Return(s) /\ UNCHANGED <<db, lost, earned>>
  BY Types DEF Refuse, FulfilConflict, Crash, Running, Places, bounds
<1>2. RowsInv'
  BY <1>1, ReturnRows DEF MoneyInv, RowsInv, db
<1> QED BY <1>1, <1>2, ReadMoney

\* What a session writes to its request's status never makes the request a new one.
LEMMA WrittenFacts ==
  ASSUME IInv, MoneyInv, NEW s \in Sessions, pc[s] \in Running \ AtNew,
         NEW v \in Statuses \ {"none"}, status' = Written(mem[s].r, s, v)
  PROVE  /\ mem[s].r \in Redemptions /\ status[mem[s].r] # "none"
         /\ \/ status' = status
            \/ \E w \in Statuses \ {"none"} : status' = [status EXCEPT ![mem[s].r] = w]
         /\ \A q \in Redemptions : status'[q] = "none" <=> status[q] = "none"
<1>1. mem[s].r \in Redemptions /\ status[mem[s].r] # "none"
  BY Types DEF KnowsAt, MoneyInv, RowsInv, RowAt, Running
<1>2. CASE status' = status
  BY <1>1, <1>2
<1>3. CASE status' = [status EXCEPT ![mem[s].r] = v]
  BY <1>1, <1>3, Types
<1> QED BY <1>2, <1>3 DEF Written

LEMMA HoldMoney == ASSUME IInv, IInv', MoneyInv, NEW s \in Sessions, Hold(s) PROVE MoneyInv'
<1> DEFINE r == mem[s].r
<1>1. /\ r \in Redemptions /\ pc[s] \in AtNew /\ pc[s] \in Running /\ status[r] = "none"
      /\ earned' = earned /\ status' = [status EXCEPT ![r] = "pending"]
      /\ UNCHANGED <<credits, amount, refunds, fulfilled>> /\ mem[s].balance \in Nat
      /\ "pending" \in Statuses \ {"none"}
  BY Types DEF Hold, KnowsAt, MoneyInv, RowsInv, RowAt, AtNew, Running, Places, bounds, Statuses
<1>2. \A q \in Redemptions : status'[q] = "none" => refunds'[q] = 0 /\ fulfilled'[q] = 0
  BY <1>1, Types DEF MoneyInv, RowsInv
<1>3. RowsInv'
  <2>1. CASE Return(s)
    BY <1>1, <1>2, <2>1, ReturnRows DEF MoneyInv
  <2>2. CASE Goto(s, "process") /\ mem' = [mem EXCEPT ![s].status = "pending"]
    <3> DEFINE m == [mem[s] EXCEPT !.status = "pending"]
    <3>1. mem' = [mem EXCEPT ![s] = m] /\ KnowsAt(s)
      BY <2>2, Types
    <3>2. m.r = r
      BY <3>1 DEF KnowsAt
    <3> HIDE DEF m
    <3>3. pc'[s] = "process" /\ mem'[s] = m /\ "process" \in Places /\ "process" \notin AtNew
      BY <2>2, <3>1, Types DEF Goto, Places, AtNew
    <3>4. RowAt(s)'
      BY <1>1, <3>2, <3>3, Types DEF RowAt
    <3>5. \A t \in Sessions \ {s} : pc[t] \in AtNew => m.r # mem[t].r
      BY <1>1, <3>2 DEF MoneyInv, RowsInv, RowAt
    <3> QED BY <1>1, <1>2, <2>2, <3>1, <3>3, <3>4, <3>5, RowsStep DEF MoneyInv
  <2> QED BY <2>1, <2>2 DEF Hold
<1>4. Tables /\ Tables'
  BY TablesHold, TablesNext
<1>5. Holds' = Holds + amount[r] /\ Refunds' = Refunds /\ Conversions' = Conversions
  BY <1>1, <1>4, HoldsGrow
<1>6. CreditsMatch'
  <2>1. "credits" \in lost <=> "credits" \in lost'
    BY DEF Hold, Overwrite
  <2> QED BY <1>1, <1>5, <2>1 DEF MoneyInv, CreditsMatch
<1>7. BalanceMatchesEntries'
  <2>1. "account" \notin lost' => "account" \notin lost /\ mem[s].balance = balance
    BY DEF Hold, Overwrite
  <2>2. balance' = mem[s].balance - amount[r]
    BY DEF Hold
  <2>3. /\ Holds \in Int /\ Refunds \in Int /\ amount[r] \in Int /\ balance \in Int
        /\ Opening \in Int /\ earned \in Int
    BY <1>1, <1>4, SumsAreNumbers, Types, RedemptionsAssumption DEF MoneyInv, RowsInv
  <2> QED BY <1>1, <1>5, <2>1, <2>2, <2>3 DEF MoneyInv, BalanceMatchesEntries
<1> QED BY <1>3, <1>6, <1>7 DEF MoneyInv

LEMMA QueueMoney == ASSUME IInv, IInv', MoneyInv, NEW s \in Sessions, Queue(s) PROVE MoneyInv'
<1>1. /\ pc[s] \in Running \ AtNew /\ status' = Written(mem[s].r, s, "processing")
      /\ "processing" \in Statuses \ {"none"} /\ Return(s)
      /\ UNCHANGED <<balance, credits, amount, refunds, fulfilled, lost, earned>>
  BY DEF Queue, Running, Places, AtNew, Statuses, bounds
<1>2. /\ \/ status' = status
         \/ \E w \in Statuses \ {"none"} : status' = [status EXCEPT ![mem[s].r] = w]
      /\ \A q \in Redemptions : status'[q] = "none" <=> status[q] = "none"
  BY <1>1, WrittenFacts
<1>3. RowsInv'
  BY <1>1, <1>2, ReturnRows DEF MoneyInv, RowsInv
<1>4. Holds' = Holds /\ Refunds' = Refunds /\ Conversions' = Conversions
  BY <1>1, <1>2, TablesHold, TablesNext, SumsStay
<1> QED BY <1>1, <1>3, <1>4, MoneyStays

LEMMA FulfilMoney == ASSUME IInv, IInv', MoneyInv, NEW s \in Sessions, Fulfil(s) PROVE MoneyInv'
<1> DEFINE r == mem[s].r
<1>1. /\ pc[s] \in Running \ AtNew /\ status' = Written(r, s, "completed")
      /\ "completed" \in Statuses \ {"none"} /\ Return(s)
      /\ fulfilled' = [fulfilled EXCEPT ![r] = @ + 1]
      /\ UNCHANGED <<balance, amount, refunds, earned>>
  BY DEF Fulfil, Running, Places, AtNew, Statuses, bounds
<1>2. /\ r \in Redemptions /\ status[r] # "none"
      /\ \/ status' = status
         \/ \E w \in Statuses \ {"none"} : status' = [status EXCEPT ![r] = w]
      /\ \A q \in Redemptions : status'[q] = "none" <=> status[q] = "none"
  BY <1>1, WrittenFacts
<1>3. RowsInv'
  <2>1. \A q \in Redemptions : status'[q] = "none" => refunds'[q] = 0 /\ fulfilled'[q] = 0
    BY <1>1, <1>2, Types DEF MoneyInv, RowsInv
  <2> QED BY <1>1, <1>2, <2>1, ReturnRows DEF MoneyInv
<1>4. Tables /\ Tables'
  BY TablesHold, TablesNext
<1>5. Conversions' = Conversions + amount[r] /\ Holds' = Holds /\ Refunds' = Refunds
  BY <1>1, <1>2, <1>4, ConversionsGrow
<1>6. BalanceMatchesEntries'
  <2>1. "account" \in lost <=> "account" \in lost'
    BY DEF Fulfil, Overwrite
  <2> QED BY <1>1, <1>5, <2>1 DEF MoneyInv, BalanceMatchesEntries
<1>7. CreditsMatch'
  <2>1. "credits" \notin lost' => "credits" \notin lost /\ mem[s].credits = credits
    BY DEF Fulfil, Overwrite
  <2>2. credits' = Topped(s, amount[r])
    BY DEF Fulfil
  <2>3. Conversions \in Int /\ amount[r] \in Nat /\ credits \in Nat \cup {None} /\ None \notin Nat
    BY <1>2, <1>4, SumsAreNumbers, Types, RedemptionsAssumption
  <2>4. CASE credits = None
    <3>1. "credits" \notin lost' => credits' = amount[r]
      BY <2>1, <2>2, <2>4 DEF Topped
    <3> QED BY <1>5, <2>1, <2>3, <2>4, <3>1 DEF MoneyInv, CreditsMatch
  <2>5. CASE credits # None
    <3>1. "credits" \notin lost' => credits' = credits + amount[r]
      BY <2>1, <2>2, <2>5 DEF Topped
    <3>2. credits + amount[r] \in Nat
      BY <2>3, <2>5
    <3> QED BY <1>5, <2>1, <2>3, <2>5, <3>1, <3>2 DEF MoneyInv, CreditsMatch
  <2> QED BY <2>4, <2>5
<1> QED BY <1>3, <1>6, <1>7 DEF MoneyInv

LEMMA RefundMoney == ASSUME IInv, IInv', MoneyInv, NEW s \in Sessions, Refund(s) PROVE MoneyInv'
<1> DEFINE r == mem[s].r
<1>1. /\ pc[s] \in Running \ AtNew /\ status' = Written(r, s, "rejected")
      /\ "rejected" \in Statuses \ {"none"} /\ Return(s)
      /\ refunds' = [refunds EXCEPT ![r] = @ + 1]
      /\ UNCHANGED <<credits, amount, fulfilled, earned>>
  BY DEF Refund, RefundRow, Running, Places, AtNew, Statuses, bounds
<1>2. /\ r \in Redemptions /\ status[r] # "none"
      /\ \/ status' = status
         \/ \E w \in Statuses \ {"none"} : status' = [status EXCEPT ![r] = w]
      /\ \A q \in Redemptions : status'[q] = "none" <=> status[q] = "none"
  BY <1>1, WrittenFacts
<1>3. RowsInv'
  <2>1. \A q \in Redemptions : status'[q] = "none" => refunds'[q] = 0 /\ fulfilled'[q] = 0
    BY <1>1, <1>2, Types DEF MoneyInv, RowsInv
  <2> QED BY <1>1, <1>2, <2>1, ReturnRows DEF MoneyInv
<1>4. Tables /\ Tables'
  BY TablesHold, TablesNext
<1>5. Refunds' = Refunds + amount[r] /\ Holds' = Holds /\ Conversions' = Conversions
  BY <1>1, <1>2, <1>4, RefundsGrow
<1>6. CreditsMatch'
  <2>1. "credits" \in lost <=> "credits" \in lost'
    BY DEF Refund, Overwrite
  <2> QED BY <1>1, <1>5, <2>1 DEF MoneyInv, CreditsMatch
<1>7. BalanceMatchesEntries'
  <2>1. "account" \notin lost' => "account" \notin lost /\ mem[s].balance = balance
    BY DEF Refund, Overwrite
  <2>2. balance' = mem[s].balance + amount[r]
    BY DEF Refund
  <2>3. /\ Holds \in Int /\ Refunds \in Int /\ amount[r] \in Int /\ balance \in Int
        /\ Opening \in Int /\ earned \in Int
    BY <1>2, <1>4, SumsAreNumbers, Types, RedemptionsAssumption DEF MoneyInv, RowsInv
  <2> QED BY <1>1, <1>5, <2>1, <2>2, <2>3 DEF MoneyInv, BalanceMatchesEntries
<1> QED BY <1>3, <1>6, <1>7 DEF MoneyInv

LEMMA EarnMoney == ASSUME IInv, MoneyInv, Earn PROVE MoneyInv'
<1>1. /\ earned \in Nat /\ earned' = earned + 1 /\ balance' = balance + 1 /\ balance \in Nat
      /\ UNCHANGED <<credits, status, amount, refunds, fulfilled, pc, mem, lost>>
  BY Types DEF Earn, MoneyInv, RowsInv
<1>2. RowsInv'
  BY <1>1 DEF MoneyInv, RowsInv, RowAt
<1>3. Holds' = Holds /\ Refunds' = Refunds /\ Conversions' = Conversions
  BY <1>1 DEF Holds, Held, Refunds, Refunded, Conversions, Converted
<1>4. Holds \in Int /\ Refunds \in Int /\ Opening \in Int
  BY TablesHold, SumsAreNumbers, RedemptionsAssumption
<1> QED BY <1>1, <1>2, <1>3, <1>4 DEF MoneyInv, BalanceMatchesEntries, CreditsMatch

LEMMA StutterMoney == ASSUME MoneyInv, UNCHANGED vars PROVE MoneyInv'
<1>1. RowsInv'
  BY DEF vars, db, bounds, MoneyInv, RowsInv, RowAt
<1> QED BY <1>1, ReadMoney DEF vars, bounds

LEMMA NextMoney == IInv /\ IInv' /\ MoneyInv /\ [Next]_vars => MoneyInv'
<1> SUFFICES ASSUME IInv, IInv', MoneyInv, [Next]_vars PROVE MoneyInv'
  OBVIOUS
<1>1. ASSUME NEW s \in Sessions, NEW r \in Redemptions,
             \/ \E n \in Amounts : CallCreate(s, r, n)
             \/ CallPayout(s, r)
             \/ \E op \in Ops : CallOn(s, op, r)
      PROVE  MoneyInv'
  BY <1>1, CallCreateMoney, CallPayoutMoney, CallOnMoney
<1>2. ASSUME NEW s \in Sessions, Step(s) PROVE MoneyInv'
  BY <1>2, LockAccountMoney, QuietReturnMoney, HoldMoney, ReadRequestMoney, QueueMoney,
     ReadCreditsMoney, FulfilMoney, ReadAccountMoney, RefundMoney DEF Step
<1>3. ASSUME NEW s \in Sessions, Crash(s) PROVE MoneyInv'
  BY <1>3, QuietReturnMoney
<1> QED BY <1>1, <1>2, <1>3, EarnMoney, StutterMoney DEF Next

LEMMA SpecMoney == Spec => []MoneyInv
  BY SpecInv, InitMoney, NextMoney, PTL DEF Spec
-----------------------------------------------------------------------------
(* The theorems *)

\* The tables keep their shape; the creator's balance is never negative.
THEOREM RedemptionsTypeCorrect == Spec => []TypeOK
<1>1. IInv => TypeOK
  BY DEF IInv
<1> QED BY <1>1, SpecInv, PTL

\* create_redemption decides on the committed balance: nobody moves it between its
\* SELECT ... FOR UPDATE and its debit.
THEOREM RedemptionsHoldIsFresh == Spec => []HoldIsFresh
<1>1. IInv => HoldIsFresh
  BY DEF IInv, HoldIsFresh, KnowsAt
<1> QED BY <1>1, SpecInv, PTL

\* A rejected request was refunded and a completed one delivered, though processors,
\* cancellation and rejection write the status without a lock.
THEOREM RedemptionsStatusHasEffect == Spec => []StatusHasEffect
<1>1. IInv => StatusHasEffect
  BY DEF IInv
<1> QED BY <1>1, SpecInv, PTL

\* The account is worth what its entries say, whichever sessions run beside each other and
\* die where, as long as no update of the row was overwritten unseen.
THEOREM RedemptionsBalanceMatches == Spec => []BalanceMatchesEntries
<1>1. MoneyInv => BalanceMatchesEntries
  BY DEF MoneyInv
<1> QED BY <1>1, SpecMoney, PTL

\* Every conversion is in the credit row, under the same condition.
THEOREM RedemptionsCreditsMatch == Spec => []CreditsMatch
<1>1. MoneyInv => CreditsMatch
  BY DEF MoneyInv
<1> QED BY <1>1, SpecMoney, PTL
=============================================================================
