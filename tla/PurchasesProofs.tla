-------------------------- MODULE PurchasesProofs --------------------------
(***************************************************************************)
(* Machine-checked proofs about Purchases, for any number of transactions, *)
(* handlers, calls and crashes and for any balance.  CompletedIsPaid rests *)
(* on what a handler between two of its commits knows of its transaction,  *)
(* and on nobody else working on an express purchase.  CountedInv, on top  *)
(* of it, follows the charges that are still to be counted.                *)
(***************************************************************************)
EXTENDS Purchases, FiniteSetTheorems, TLAPS

Methods == {"token", "simulated"}
Mems == [op : {None, "confirm", "deliver", "verify", "express", "market"},
         tx : Txs \cup {None}, method : Methods,
         content : {"none", "good", "bad"}, replay : BOOLEAN]

\* What handler s knows of its transaction at each point of its call.
KnowsAt(s) ==
  LET t == mem[s].tx IN
  /\ pc[s] = "idle" => t = None
  /\ pc[s] \in {"confirm", "deliver", "dispute", "flush", "key"} => t \in Bought
  /\ pc[s] \in {"flush", "key"} => mem[s].op = "verify"
  /\ pc[s] = "debit" => \/ mem[s].op = "verify" /\ t \in Bought
                        \/ /\ mem[s].op # "verify" /\ mem[s].method = "token"
                           /\ t \in Express /\ status[t] = "none"
  /\ pc[s] = "count" => t \in Bought /\ paid[t] = 1
  /\ pc[s] = "record" => /\ t \in Express /\ status[t] = "none"
                         /\ paid[t] = IF mem[s].method = "token" THEN 1 ELSE 0
  /\ pc[s] = "order" => t \in Express /\ status[t] = "completed" /\ PaidAsStated(t)

\* The rows: one charge at most, only express purchases are simulated, and they
\* are inserted as completed.
RowInv ==
  /\ \A t \in Txs : paid[t] <= 1
  /\ \A t \in Bought : method[t] = "token"
  /\ \A t \in Express : status[t] \in {"none", "completed"}

\* An express purchase is known to the one handler that made its id.
Alone ==
  \A s, u \in Sessions : mem[s].tx \in Express /\ mem[s].tx = mem[u].tx => s = u

IInv ==
  /\ TypeOK /\ mem \in [Sessions -> Mems] /\ RowInv /\ Alone
  /\ \A s \in Sessions : KnowsAt(s)
  /\ CompletedIsPaid /\ OrdersArePaid
-----------------------------------------------------------------------------
LEMMA InitInv == Init => IInv
<1> SUFFICES ASSUME Init PROVE IInv
  OBVIOUS
<1>1. Nothing \in Mems /\ Nothing.tx = None
  BY DEF Nothing, Mems, Methods
<1>2. None \notin Express
  BY PurchasesAssumption
<1>3. TypeOK
  BY PurchasesAssumption DEF Init, TypeOK
<1>4. RowInv /\ Alone /\ CompletedIsPaid /\ OrdersArePaid
  BY <1>1, <1>2 DEF Init, RowInv, Alone, CompletedIsPaid, OrdersArePaid, Txs
<1>5. ASSUME NEW s \in Sessions PROVE KnowsAt(s)
  BY <1>1 DEF Init, KnowsAt
<1> QED BY <1>1, <1>3, <1>4, <1>5 DEF IInv, Init

\* A handler that does not move keeps what it knows, as long as no charge is
\* taken back and nobody else touches its express purchase.
LEMMA KnowsFrame ==
  ASSUME IInv, NEW u \in Sessions, pc'[u] = pc[u], mem'[u] = mem[u],
         \A t \in Txs : mem[u].tx = t =>
           /\ paid[t] = 1 => paid'[t] = 1
           /\ t \in Express => status'[t] = status[t] /\ paid'[t] = paid[t] /\ method'[t] = method[t]
  PROVE  KnowsAt(u)'
  BY DEF IInv, KnowsAt, PaidAsStated, Txs

\* What IInv says of the types, spelled out once.
LEMMA Types ==
  ASSUME IInv
  PROVE  /\ status \in [Txs -> {"none", "payment_pending", "payment_confirmed", "failed",
                               "delivered", "disputed", "completed"}]
         /\ method \in [Txs -> Methods] /\ content \in [Txs -> {"none", "good", "bad"}]
         /\ paid \in [Txs -> Nat] /\ funds \in Nat /\ accesses \in Nat /\ orders \subseteq Express
         /\ lock \in [Txs -> Sessions \cup {None}]
         /\ pc \in [Sessions -> {"idle", "confirm", "deliver", "dispute", "flush", "key", "debit",
                                 "count", "record", "order"}]
         /\ mem \in [Sessions -> Mems]
         /\ Bought \subseteq Txs /\ Express \subseteq Txs /\ Bought \cap Express = {} /\ None \notin Txs
  BY PurchasesAssumption DEF IInv, TypeOK, Methods, Txs

\* The rest of IInv, for a step of one handler that leaves the rows alone and
\* that does not take up another transaction.
LEMMA CallFrame ==
  ASSUME IInv, NEW s \in Sessions, UNCHANGED rows,
         lock' \in [Txs -> Sessions \cup {None}],
         NEW l \in {"idle", "confirm", "deliver", "dispute", "flush", "key", "debit",
                    "count", "record", "order"},
         NEW m \in Mems,
         pc' = [pc EXCEPT ![s] = l], mem' = [mem EXCEPT ![s] = m],
         \A u \in Sessions \ {s} : m.tx \in Express => mem[u].tx # m.tx,
         KnowsAt(s)'
  PROVE  IInv'
<1>1. TypeOK' /\ mem' \in [Sessions -> Mems]
  BY Types DEF TypeOK, rows, Methods
<1>2. RowInv' /\ CompletedIsPaid' /\ OrdersArePaid'
  BY DEF IInv, rows, RowInv, CompletedIsPaid, OrdersArePaid, PaidAsStated
<1>3. Alone'
  BY Types DEF IInv, Alone
<1>4. ASSUME NEW u \in Sessions, u # s PROVE KnowsAt(u)'
  BY <1>4, Types, KnowsFrame DEF rows
<1> QED BY <1>1, <1>2, <1>3, <1>4 DEF IInv

LEMMA ReturnFrame ==
  ASSUME IInv, NEW s \in Sessions, UNCHANGED rows, Return(s),
         lock' \in [Txs -> Sessions \cup {None}]
  PROVE  IInv'
<1>1. Nothing \in Mems /\ Nothing.tx = None /\ None \notin Express
  BY PurchasesAssumption DEF Nothing, Mems, Methods
<1>2. KnowsAt(s)'
  BY <1>1, Types DEF Return, Goto, KnowsAt
<1> QED BY <1>1, <1>2, CallFrame DEF Return, Goto
-----------------------------------------------------------------------------
\* A call takes up a transaction; an express one is new to everybody.
LEMMA CallInv ==
  ASSUME IInv, NEW s \in Sessions, NEW t \in Txs,
         NEW op \in {"confirm", "deliver", "verify", "express", "market"}, NEW v \in Methods,
         NEW l \in {"confirm", "deliver", "dispute", "flush", "debit", "record"},
         Call(s, op, t, v, l),
         \/ /\ t \in Bought /\ l \in {"confirm", "deliver", "dispute", "flush"}
            /\ l = "flush" => op = "verify"
         \/ /\ Fresh(t) /\ op # "verify"
            /\ l = (IF v = "token" THEN "debit" ELSE "record")
  PROVE  IInv'
<1> DEFINE m == [Nothing EXCEPT !.op = op, !.tx = t, !.method = v, !.content = content[t]]
<1>1. m \in Mems /\ m.tx = t /\ m.op = op /\ m.method = v
  BY Types DEF Nothing, Mems
<1>2. pc' = [pc EXCEPT ![s] = l] /\ mem' = [mem EXCEPT ![s] = m] /\ UNCHANGED <<rows, lock>>
  BY DEF Call, Goto
<1> HIDE DEF m
<1>3. KnowsAt(s)'
  <2>1. pc'[s] = l /\ mem'[s] = m
    BY <1>2, Types
  <2>2. UNCHANGED <<status, paid>>
    BY <1>2 DEF rows
  <2>3. CASE t \in Bought
    BY <1>1, <2>1, <2>3, Types DEF KnowsAt, Fresh
  <2>4. CASE t \in Express
    BY <1>1, <2>1, <2>2, <2>4, Types DEF KnowsAt, Fresh, Methods
  <2> QED BY <2>3, <2>4 DEF Txs
<1>4. \A u \in Sessions \ {s} : m.tx \in Express => mem[u].tx # m.tx
  BY <1>1, Types DEF Fresh
<1> QED BY <1>1, <1>2, <1>3, <1>4, Types, CallFrame

\* Confirm, Deliver and Dispute write a status other than completed to a
\* transaction that was initiated step by step.
LEMMA WriteInv ==
  ASSUME IInv, NEW s \in Sessions, pc[s] \in {"confirm", "deliver", "dispute"},
         NEW v \in {"payment_confirmed", "failed", "delivered", "disputed"},
         status' = [status EXCEPT ![mem[s].tx] = v],
         content' \in [Txs -> {"none", "good", "bad"}], Return(s),
         UNCHANGED <<method, paid, funds, accesses, orders, lock>>
  PROVE  IInv'
<1>1. mem[s].tx \in Bought
  BY DEF IInv, KnowsAt
<1>2. Nothing \in Mems /\ Nothing.tx = None
  BY DEF Nothing, Mems, Methods
<1>3. TypeOK' /\ mem' \in [Sessions -> Mems]
  BY <1>2, Types DEF TypeOK, Return, Goto, Methods
<1>4. RowInv' /\ CompletedIsPaid'
  BY <1>1, Types DEF IInv, RowInv, CompletedIsPaid, PaidAsStated
<1>5. OrdersArePaid'
  BY <1>1, Types DEF IInv, OrdersArePaid, PaidAsStated
<1>6. Alone'
  BY <1>2, Types DEF IInv, Alone, Return
<1>7. KnowsAt(s)'
  BY <1>2, Types DEF KnowsAt, Return, Goto
<1>8. ASSUME NEW u \in Sessions, u # s PROVE KnowsAt(u)'
  BY <1>1, <1>8, Types, KnowsFrame DEF Return, Goto
<1> QED BY <1>3, <1>4, <1>5, <1>6, <1>7, <1>8 DEF IInv

LEMMA DebitInv == ASSUME IInv, NEW s \in Sessions, Debit(s) PROVE IInv'
<1> DEFINE t == mem[s].tx
<1>1. /\ t \in Txs /\ paid[t] = 0 /\ funds >= 1 /\ pc[s] = "debit"
      /\ \/ mem[s].op = "verify" /\ t \in Bought
         \/ mem[s].op # "verify" /\ mem[s].method = "token" /\ t \in Express /\ status[t] = "none"
  BY DEF Debit, Affordable, IInv, KnowsAt, Txs
<1>2. /\ paid' = [paid EXCEPT ![t] = 1] /\ funds' = funds - 1
      /\ status' = IF mem[s].op = "verify" THEN [status EXCEPT ![t] = "completed"] ELSE status
      /\ pc' = [pc EXCEPT ![s] = IF mem[s].op = "verify" THEN "count" ELSE "record"]
      /\ UNCHANGED <<method, content, accesses, orders, mem>>
      /\ lock' \in [Txs -> Sessions \cup {None}]
  BY <1>1, Types DEF Debit, Unlock, Goto
<1>3. TypeOK' /\ mem' \in [Sessions -> Mems]
  BY <1>1, <1>2, Types DEF TypeOK, Methods
<1>4. RowInv' /\ Alone'
  BY <1>1, <1>2, Types DEF IInv, RowInv, Alone
<1>5. CompletedIsPaid'
  <2> SUFFICES ASSUME NEW x \in Txs, status'[x] = "completed" PROVE PaidAsStated(x)'
    BY DEF CompletedIsPaid
  <2>1. CASE x = t
    BY <1>1, <1>2, <2>1, Types DEF IInv, RowInv, PaidAsStated
  <2>2. CASE x # t
    BY <1>1, <1>2, <2>2, Types DEF IInv, CompletedIsPaid, PaidAsStated
  <2> QED BY <2>1, <2>2
<1>6. OrdersArePaid'
  <2>1. t \notin orders
    BY <1>1, Types DEF IInv, OrdersArePaid
  <2> QED BY <1>1, <1>2, <2>1, Types DEF IInv, OrdersArePaid, PaidAsStated
<1>7. KnowsAt(s)'
  BY <1>1, <1>2, Types DEF KnowsAt
<1>8. ASSUME NEW u \in Sessions, u # s PROVE KnowsAt(u)'
  <2>1. t \in Express => mem[u].tx # t
    BY <1>8 DEF IInv, Alone
  <2> QED BY <1>1, <1>2, <1>8, <2>1, Types, KnowsFrame
<1> QED BY <1>3, <1>4, <1>5, <1>6, <1>7, <1>8 DEF IInv

LEMMA CountInv == ASSUME IInv, NEW s \in Sessions, Count(s) PROVE IInv'
<1> DEFINE t == mem[s].tx
<1>1. t \in Bought /\ t \in Txs /\ paid[t] = 1 /\ method[t] = "token" /\ pc[s] = "count"
  BY Types DEF Count, IInv, KnowsAt, RowInv
<1>2. Nothing \in Mems /\ Nothing.tx = None
  BY DEF Nothing, Mems, Methods
<1>3. /\ accesses' \in Nat /\ UNCHANGED <<method, content, paid, funds, orders>>
      /\ status' \in {status, [status EXCEPT ![t] = "completed"]}
      /\ pc' = [pc EXCEPT ![s] = "idle"] /\ mem' = [mem EXCEPT ![s] = Nothing]
      /\ lock' \in [Txs -> Sessions \cup {None}]
  BY Types DEF Count, Counted, Return, Goto, Unlock
<1>4. TypeOK' /\ mem' \in [Sessions -> Mems]
  BY <1>1, <1>2, <1>3, Types DEF TypeOK, Methods
<1>5. RowInv' /\ Alone'
  BY <1>1, <1>2, <1>3, Types DEF IInv, RowInv, Alone
<1>6. CompletedIsPaid' /\ OrdersArePaid'
  BY <1>1, <1>3, Types DEF IInv, CompletedIsPaid, OrdersArePaid, PaidAsStated
<1>7. KnowsAt(s)'
  BY <1>2, <1>3, Types DEF KnowsAt
<1>8. ASSUME NEW u \in Sessions, u # s PROVE KnowsAt(u)'
  BY <1>1, <1>3, <1>8, Types, KnowsFrame
<1> QED BY <1>3, <1>4, <1>5, <1>6, <1>7, <1>8 DEF IInv

LEMMA RecordInv == ASSUME IInv, NEW s \in Sessions, Record(s) PROVE IInv'
<1> DEFINE t == mem[s].tx
<1>1. /\ t \in Express /\ t \in Txs /\ status[t] = "none" /\ pc[s] = "record"
      /\ paid[t] = IF mem[s].method = "token" THEN 1 ELSE 0
      /\ mem[s].method \in Methods
  BY Types DEF Record, IInv, KnowsAt, Mems
<1>2. Nothing \in Mems /\ Nothing.tx = None /\ None \notin Express
  BY PurchasesAssumption DEF Nothing, Mems, Methods
<1>3. /\ status' = [status EXCEPT ![t] = "completed"] /\ content' = [content EXCEPT ![t] = "good"]
      /\ method' = [method EXCEPT ![t] = mem[s].method] /\ accesses' = accesses + 1
      /\ \/ pc' = [pc EXCEPT ![s] = "order"] /\ mem' = mem
         \/ pc' = [pc EXCEPT ![s] = "idle"] /\ mem' = [mem EXCEPT ![s] = Nothing]
      /\ UNCHANGED <<paid, funds, orders, lock>>
  BY DEF Record, Return, Goto
<1>4. TypeOK' /\ mem' \in [Sessions -> Mems]
  BY <1>1, <1>2, <1>3, Types DEF TypeOK, Methods
<1>5. RowInv' /\ Alone'
  BY <1>1, <1>2, <1>3, Types DEF IInv, RowInv, Alone
<1>6. CompletedIsPaid' /\ OrdersArePaid'
  BY <1>1, <1>3, Types DEF IInv, CompletedIsPaid, OrdersArePaid, PaidAsStated
<1>7. KnowsAt(s)'
  BY <1>1, <1>2, <1>3, Types DEF KnowsAt, PaidAsStated
<1>8. ASSUME NEW u \in Sessions, u # s PROVE KnowsAt(u)'
  <2>1. mem[u].tx # t
    BY <1>1, <1>8 DEF IInv, Alone
  <2> QED BY <1>1, <1>3, <1>8, <2>1, Types, KnowsFrame
<1> QED BY <1>4, <1>5, <1>6, <1>7, <1>8 DEF IInv

LEMMA OrderInv == ASSUME IInv, NEW s \in Sessions, Order(s) PROVE IInv'
<1>1. mem[s].tx \in Express /\ status[mem[s].tx] = "completed" /\ PaidAsStated(mem[s].tx)
  BY DEF Order, IInv, KnowsAt
<1>2. Nothing \in Mems /\ Nothing.tx = None
  BY DEF Nothing, Mems, Methods
<1>3. /\ orders' = orders \cup {mem[s].tx} /\ Return(s)
      /\ UNCHANGED <<status, method, content, paid, funds, accesses, lock>>
  BY DEF Order
<1>4. TypeOK' /\ mem' \in [Sessions -> Mems]
  BY <1>1, <1>2, <1>3, Types DEF TypeOK, Methods, Return, Goto
<1>5. RowInv' /\ Alone' /\ CompletedIsPaid' /\ OrdersArePaid'
  BY <1>1, <1>2, <1>3, Types
     DEF IInv, RowInv, Alone, CompletedIsPaid, OrdersArePaid, PaidAsStated, Return
<1>6. KnowsAt(s)'
  BY <1>2, <1>3, Types DEF KnowsAt, Return, Goto
<1>7. ASSUME NEW u \in Sessions, u # s PROVE KnowsAt(u)'
  BY <1>3, <1>7, Types, KnowsFrame DEF Return, Goto
<1> QED BY <1>4, <1>5, <1>6, <1>7 DEF IInv
-----------------------------------------------------------------------------
LEMMA NextInv == IInv /\ [Next]_vars => IInv'
<1> SUFFICES ASSUME IInv, [Next]_vars PROVE IInv'
  OBVIOUS
<1>1. ASSUME NEW t \in Txs, Initiate(t) PROVE IInv'
  <2>1. TypeOK' /\ mem' \in [Sessions -> Mems]
    BY <1>1, Types DEF Initiate, TypeOK, Methods
  <2>2. RowInv' /\ Alone' /\ CompletedIsPaid'
    BY <1>1, Types DEF Initiate, IInv, RowInv, Alone, CompletedIsPaid, PaidAsStated
  <2>3. OrdersArePaid'
    BY <1>1, Types DEF Initiate, IInv, OrdersArePaid, PaidAsStated
  <2>4. ASSUME NEW u \in Sessions PROVE KnowsAt(u)'
    BY <1>1, Types, KnowsFrame DEF Initiate
  <2> QED BY <2>1, <2>2, <2>3, <2>4 DEF IInv
<1>2. ASSUME NEW s \in Sessions, NEW t \in Txs,
             CallConfirm(s, t) \/ CallDeliver(s, t) \/ CallVerify(s, t)
      PROVE  IInv'
  <2>1. t \in Bought /\ method[t] \in Methods
    BY <1>2, Types DEF CallConfirm, CallDeliver, CallVerify, IInv, RowInv, Txs
  <2> QED BY <1>2, <2>1, CallInv DEF CallConfirm, CallDeliver, CallVerify
<1>3. ASSUME NEW s \in Sessions, NEW t \in Txs, NEW op \in {"express", "market"},
             NEW m \in {"token", "simulated"}, CallExpress(s, op, t, m)
      PROVE  IInv'
  BY <1>3, CallInv DEF CallExpress, Methods
<1>4. ASSUME NEW s \in Sessions, Step(s) PROVE IInv'
  <2>1. CASE Confirm(s)
    BY <2>1, Types, WriteInv DEF Confirm
  <2>2. CASE Deliver(s)
    <3>1. mem[s].tx \in Txs
      BY <2>2, Types DEF Deliver, IInv, KnowsAt
    <3>2. content' \in [Txs -> {"none", "good", "bad"}]
      BY <2>2, <3>1, Types DEF Deliver
    <3> QED BY <2>2, <3>2, WriteInv DEF Deliver
  <2>3. CASE Dispute(s)
    BY <2>3, Types, WriteInv DEF Dispute
  <2>4. CASE Flush(s)
    <3>1. mem[s].tx \in Bought /\ mem[s].op = "verify" /\ mem[s] \in Mems
      BY <2>4, Types DEF Flush, IInv, KnowsAt
    <3>2. /\ UNCHANGED rows /\ pc' = [pc EXCEPT ![s] = "key"]
          /\ mem' = [mem EXCEPT ![s] = mem[s]] /\ lock' \in [Txs -> Sessions \cup {None}]
      BY <2>4, Types DEF Flush, Goto
    <3>3. KnowsAt(s)'
      BY <3>1, <3>2, Types DEF KnowsAt
    <3> QED BY <3>1, <3>2, <3>3, Types, CallFrame
  <2>5. CASE FindKey(s)
    <3> DEFINE t == mem[s].tx
               l == IF paid[t] > 0 THEN "count" ELSE "debit"
               m == IF paid[t] > 0 THEN [mem[s] EXCEPT !.replay = TRUE] ELSE mem[s]
    <3>1. t \in Bought /\ t \in Txs /\ mem[s].op = "verify" /\ mem[s] \in Mems /\ paid[t] \in {0, 1}
      BY <2>5, Types DEF FindKey, IInv, KnowsAt, RowInv
    <3>2. m \in Mems /\ m.tx = t /\ m.op = "verify"
      BY <3>1 DEF Mems
    <3>3. /\ UNCHANGED <<rows, lock>> /\ pc' = [pc EXCEPT ![s] = l]
          /\ mem' = [mem EXCEPT ![s] = m]
      BY <2>5, Types DEF FindKey, Goto
    <3>4. KnowsAt(s)'
      <4>1. pc'[s] = l /\ mem'[s] = m /\ paid' = paid
        BY <3>3, Types DEF rows
      <4> QED BY <3>1, <3>2, <4>1 DEF KnowsAt
    <3>5. t \notin Express /\ l \in {"count", "debit"}
      BY <3>1, Types
    <3> HIDE DEF m, l
    <3> QED BY <3>2, <3>3, <3>4, <3>5, Types, CallFrame
  <2>6. CASE Refuse(s)
    BY <2>6, Types, ReturnFrame DEF Refuse, Unlock
  <2>7. CASE Debit(s) \/ Count(s) \/ Record(s) \/ Order(s)
    BY <2>7, DebitInv, CountInv, RecordInv, OrderInv
  <2> QED BY <1>4, <2>1, <2>2, <2>3, <2>4, <2>5, <2>6, <2>7 DEF Step
<1>5. ASSUME NEW s \in Sessions, Crash(s) PROVE IInv'
  BY <1>5, Types, ReturnFrame DEF Crash, Unlock
<1>6. ASSUME UNCHANGED vars PROVE IInv'
  BY <1>6 DEF vars, rows, IInv, TypeOK, RowInv, Alone, KnowsAt, CompletedIsPaid,
     OrdersArePaid, PaidAsStated
<1> QED BY <1>1, <1>2, <1>3, <1>4, <1>5, <1>6 DEF Next

LEMMA Invariance == Spec => []IInv
<1> QED BY InitInv, NextInv, PTL DEF Spec
-----------------------------------------------------------------------------
(* The access count *)

PendingSet == {s \in Sessions : pc[s] \in {"count", "record"} /\ ~mem[s].replay}
ChargedSet == {t \in Txs : paid[t] > 0}

\* Only a handler that found the key posted before has nothing left to count, and at any
\* time finitely many have.
CountedInv ==
  /\ crashes \in Nat /\ \A s \in Sessions : mem[s].replay => pc[s] = "count"
  /\ IsFiniteSet(PendingSet) /\ ChargesAreCounted

\* A finite set and one that differs from it at x alone.
LEMMA OneApart ==
  ASSUME NEW S, NEW T, NEW x, IsFiniteSet(S), T \subseteq S \cup {x}, S \subseteq T \cup {x}
  PROVE  /\ IsFiniteSet(T) /\ Cardinality(S) \in Nat /\ Cardinality(T) \in Nat
         /\ Cardinality(T) >= Cardinality(S) - 1
         /\ S \subseteq T => Cardinality(T) >= Cardinality(S)
         /\ x \notin S /\ x \in T => Cardinality(T) = Cardinality(S) + 1
<1>0. Cardinality(S) \in Nat
  BY FS_CardinalityType
<1>1. CASE x \in S /\ x \notin T
  <2>1. T = S \ {x}
    BY <1>1
  <2>2. IsFiniteSet(T) /\ Cardinality(T) = Cardinality(S) - 1
    BY <1>1, <2>1, FS_RemoveElement
  <2>3. Cardinality(T) \in Nat
    BY <2>2, FS_CardinalityType
  <2> QED BY <1>0, <1>1, <2>2, <2>3
<1>2. CASE x \notin S /\ x \in T
  <2>1. T = S \cup {x}
    BY <1>2
  <2>2. IsFiniteSet(T) /\ Cardinality(T) = Cardinality(S) + 1
    BY <1>2, <2>1, FS_AddElement
  <2> QED BY <1>0, <1>2, <2>2
<1>3. CASE x \in S <=> x \in T
  <2>1. T = S
    BY <1>3
  <2> QED BY <1>0, <1>3, <2>1
<1> QED BY <1>1, <1>2, <1>3

\* Session s alone moves: nothing is charged, or what is counted or lost makes up for it, or
\* one more is charged and s is to count it.
LEMMA CountStep ==
  ASSUME IInv, CountedInv, crashes' \in Nat, accesses' \in Nat, NEW s,
         PendingSet' \subseteq PendingSet \cup {s}, PendingSet \subseteq PendingSet' \cup {s},
         \A u \in Sessions : mem'[u].replay => pc'[u] = "count",
         \/ /\ accesses' + crashes' = accesses + crashes /\ ChargedSet' = ChargedSet
            /\ PendingSet \subseteq PendingSet'
         \/ accesses' + crashes' = accesses + crashes + 1 /\ ChargedSet' = ChargedSet
         \/ /\ accesses' + crashes' = accesses + crashes
            /\ \E t \in Txs : ChargedSet' = ChargedSet \cup {t}
            /\ s \notin PendingSet /\ s \in PendingSet'
  PROVE  CountedInv'
<1> DEFINE p == Cardinality(PendingSet)
           c == Cardinality(ChargedSet)
           q == Cardinality(PendingSet')
           d == Cardinality(ChargedSet')
<1>1. accesses + p + crashes >= c /\ IsFiniteSet(PendingSet) /\ accesses \in Nat /\ crashes \in Nat
  BY Types DEF CountedInv, ChargesAreCounted, Pending, Charged, PendingSet, ChargedSet
<1>2. IsFiniteSet(ChargedSet) /\ c \in Nat
  BY FS_Subset, FS_CardinalityType, PurchasesAssumption DEF ChargedSet, Txs
<1>3. /\ IsFiniteSet(PendingSet') /\ p \in Nat /\ q \in Nat /\ q >= p - 1
      /\ PendingSet \subseteq PendingSet' => q >= p
      /\ s \notin PendingSet /\ s \in PendingSet' => q = p + 1
  BY <1>1, OneApart
<1>4. \A t \in Txs : ChargedSet' = ChargedSet \cup {t} => d = c \/ d = c + 1
  BY <1>2, FS_AddElement
<1> HIDE DEF p, c, q, d
<1>5. accesses' + q + crashes' >= d
  <2> DEFINE a == accesses
             m == crashes
             b == accesses'
             n == crashes'
  <2>1. /\ a \in Nat /\ m \in Nat /\ b \in Nat /\ n \in Nat /\ p \in Nat /\ q \in Nat /\ c \in Nat
        /\ a + p + m >= c /\ q >= p - 1
    BY <1>1, <1>2, <1>3
  <2>2. \/ b + n = a + m /\ q >= p /\ d = c
        \/ b + n = a + m + 1 /\ d = c
        \/ b + n = a + m /\ q = p + 1 /\ (d = c \/ d = c + 1)
    <3>1. CASE ChargedSet' = ChargedSet
      <4>1. d = c
        BY <3>1 DEF c, d
      <4> QED BY <1>3, <3>1, <4>1
    <3>2. CASE ChargedSet' # ChargedSet
      BY <1>3, <1>4, <3>2
    <3> QED BY <3>1, <3>2
  <2>3. d \in Nat
    BY <1>2, <2>2
  <2> HIDE DEF a, b, m, n
  <2>4. b + q + n >= d
    BY <2>1, <2>2, <2>3
  <2> QED BY <2>4 DEF b, n
<1>6. ChargesAreCounted'
  BY <1>5 DEF q, d, ChargesAreCounted, Pending, Charged, PendingSet, ChargedSet
<1> QED BY <1>3, <1>6 DEF CountedInv

LEMMA InitCount == Init => CountedInv
<1> SUFFICES ASSUME Init PROVE CountedInv
  OBVIOUS
<1>1. PendingSet = {} /\ ChargedSet = {}
  BY DEF Init, PendingSet, ChargedSet
<1>2. Pending = 0 /\ Charged = 0 /\ IsFiniteSet(PendingSet)
  BY <1>1, FS_EmptySet DEF Pending, Charged, PendingSet, ChargedSet
<1>3. \A s \in Sessions : ~mem[s].replay
  BY DEF Init, Nothing
<1> QED BY <1>2, <1>3 DEF Init, CountedInv, ChargesAreCounted

\* A call that begins, a return without a charge, a write that charges nothing.
LEMMA QuietCount ==
  ASSUME IInv, CountedInv, NEW s \in Sessions, UNCHANGED <<accesses, crashes, paid>>,
         pc[s] \notin {"count", "record"}, NEW l, Goto(s, l),
         NEW m, mem' = [mem EXCEPT ![s] = m], m.replay => l = "count"
  PROVE  CountedInv'
<1>1. \A u \in Sessions : IF u = s THEN pc'[u] = l /\ mem'[u] = m ELSE pc'[u] = pc[u] /\ mem'[u] = mem[u]
  BY Types DEF Goto
<1>2. ChargedSet' = ChargedSet
  BY DEF ChargedSet
<1>3. PendingSet \subseteq PendingSet' /\ PendingSet' \subseteq PendingSet \cup {s}
  BY <1>1 DEF PendingSet
<1>4. \A u \in Sessions : mem'[u].replay => pc'[u] = "count"
  BY <1>1 DEF CountedInv
<1> QED BY <1>2, <1>3, <1>4, Types, CountStep DEF CountedInv

\* A session that leaves with something counted, or dies.
LEMMA ReturnCount ==
  ASSUME IInv, CountedInv, NEW s \in Sessions, paid' = paid, accesses' \in Nat, crashes' \in Nat,
         accesses' + crashes' = accesses + crashes + 1,
         NEW l, l \notin {"count", "record"}, Goto(s, l),
         (mem' = mem /\ pc[s] # "count") \/ mem' = [mem EXCEPT ![s] = Nothing]
  PROVE  CountedInv'
<1>1. \A u \in Sessions \ {s} : pc'[u] = pc[u] /\ mem'[u] = mem[u]
  BY Types DEF Goto
<1>2. ChargedSet' = ChargedSet
  BY DEF ChargedSet
<1>3. PendingSet \subseteq PendingSet' \cup {s} /\ PendingSet' \subseteq PendingSet \cup {s}
  BY <1>1 DEF PendingSet
<1>4. \A u \in Sessions : mem'[u].replay => pc'[u] = "count"
  BY <1>1, Types DEF CountedInv, Nothing
<1> QED BY <1>2, <1>3, <1>4, CountStep DEF CountedInv

LEMMA CallCount ==
  ASSUME IInv, CountedInv, NEW s \in Sessions, NEW t \in Txs, NEW op, NEW v, NEW l,
         Call(s, op, t, v, l)
  PROVE  CountedInv'
<1> DEFINE m == [Nothing EXCEPT !.op = op, !.tx = t, !.method = v, !.content = content[t]]
<1>1. ~m.replay
  BY DEF Nothing
<1>2. mem' = [mem EXCEPT ![s] = m] /\ Goto(s, l) /\ UNCHANGED <<accesses, crashes, paid>>
      /\ pc[s] \notin {"count", "record"}
  BY DEF Call, rows
<1> HIDE DEF m
<1> QED BY <1>1, <1>2, QuietCount

LEMMA FindKeyCount == ASSUME IInv, CountedInv, NEW s \in Sessions, FindKey(s) PROVE CountedInv'
<1> DEFINE t == mem[s].tx
           l == IF paid[t] > 0 THEN "count" ELSE "debit"
           m == IF paid[t] > 0 THEN [mem[s] EXCEPT !.replay = TRUE] ELSE mem[s]
<1>1. Goto(s, l) /\ mem' = [mem EXCEPT ![s] = m] /\ UNCHANGED <<accesses, crashes, paid>>
      /\ pc[s] = "key"
  BY Types DEF FindKey, rows
<1>2. m.replay => l = "count"
  BY <1>1 DEF CountedInv
<1> HIDE DEF m, l
<1> QED BY <1>1, <1>2, QuietCount

LEMMA DebitCount == ASSUME IInv, CountedInv, NEW s \in Sessions, Debit(s) PROVE CountedInv'
<1> DEFINE t == mem[s].tx
           l == IF mem[s].op = "verify" THEN "count" ELSE "record"
<1>1. /\ t \in Txs /\ pc[s] = "debit" /\ ~mem[s].replay /\ Goto(s, l) /\ l \in {"count", "record"}
      /\ paid' = [paid EXCEPT ![t] = @ + 1] /\ UNCHANGED <<accesses, crashes, mem>>
  BY DEF Debit, IInv, KnowsAt, Txs, CountedInv
<1>2. ChargedSet' = ChargedSet \cup {t}
  BY <1>1, Types DEF ChargedSet
<1>3. \A u \in Sessions : pc'[u] = IF u = s THEN l ELSE pc[u]
  BY <1>1, Types DEF Goto
<1>4. /\ PendingSet \subseteq PendingSet' /\ PendingSet' \subseteq PendingSet \cup {s}
      /\ s \notin PendingSet /\ s \in PendingSet'
  BY <1>1, <1>3 DEF PendingSet
<1>5. \A u \in Sessions : mem'[u].replay => pc'[u] = "count"
  BY <1>1, <1>3 DEF CountedInv
<1> QED BY <1>1, <1>2, <1>4, <1>5, Types, CountStep DEF CountedInv

LEMMA NextCount == IInv /\ CountedInv /\ [Next]_vars => CountedInv'
<1> SUFFICES ASSUME IInv, CountedInv, [Next]_vars PROVE CountedInv'
  OBVIOUS
<1>0. accesses \in Nat /\ crashes \in Nat /\ ~Nothing.replay
  BY Types DEF CountedInv, Nothing
<1>1. CASE UNCHANGED <<paid, accesses, crashes, pc, mem>>
  BY <1>1 DEF CountedInv, ChargesAreCounted, Pending, Charged, PendingSet
<1>2. ASSUME NEW s \in Sessions, NEW t \in Txs,
             CallConfirm(s, t) \/ CallDeliver(s, t) \/ CallVerify(s, t)
      PROVE  CountedInv'
  BY <1>2, CallCount DEF CallConfirm, CallDeliver, CallVerify
<1>3. ASSUME NEW s \in Sessions, NEW t \in Txs, NEW op, NEW m, CallExpress(s, op, t, m)
      PROVE  CountedInv'
  BY <1>3, CallCount DEF CallExpress
<1>4. ASSUME NEW s \in Sessions, Confirm(s) \/ Deliver(s) \/ Dispute(s) \/ Refuse(s) PROVE CountedInv'
  <2>1. Return(s) /\ UNCHANGED <<accesses, crashes, paid>> /\ pc[s] \notin {"count", "record"}
    BY <1>4 DEF Confirm, Deliver, Dispute, Refuse, rows
  <2> QED BY <1>0, <2>1, QuietCount DEF Return
<1>5. ASSUME NEW s \in Sessions, Flush(s) PROVE CountedInv'
  <2>1. /\ Goto(s, "key") /\ mem' = [mem EXCEPT ![s] = mem[s]] /\ UNCHANGED <<accesses, crashes, paid>>
        /\ pc[s] = "flush" /\ ~mem[s].replay
    BY <1>5, Types DEF Flush, rows, CountedInv
  <2> QED BY <2>1, QuietCount
<1>6. ASSUME NEW s \in Sessions, Count(s) PROVE CountedInv'
  <2>1. /\ accesses' = accesses + 1 /\ UNCHANGED <<crashes, paid>> /\ Goto(s, "idle")
        /\ mem' = [mem EXCEPT ![s] = Nothing]
    BY <1>6 DEF Count, Counted, Return
  <2>2. accesses' \in Nat /\ crashes' \in Nat /\ accesses' + crashes' = accesses + crashes + 1
    BY <1>0, <2>1
  <2> QED BY <2>1, <2>2, ReturnCount
<1>7. ASSUME NEW s \in Sessions, Record(s) PROVE CountedInv'
  <2>1. /\ accesses' = accesses + 1 /\ UNCHANGED <<crashes, paid>> /\ pc[s] = "record"
        /\ \/ Goto(s, "order") /\ mem' = mem
           \/ Goto(s, "idle") /\ mem' = [mem EXCEPT ![s] = Nothing]
    BY <1>7 DEF Record, Return
  <2>2. accesses' \in Nat /\ crashes' \in Nat /\ accesses' + crashes' = accesses + crashes + 1
    BY <1>0, <2>1
  <2>3. CASE Goto(s, "order") /\ mem' = mem
    BY <2>1, <2>2, <2>3, ReturnCount
  <2>4. CASE Goto(s, "idle") /\ mem' = [mem EXCEPT ![s] = Nothing]
    BY <2>1, <2>2, <2>4, ReturnCount
  <2> QED BY <2>1, <2>3, <2>4
<1>8. ASSUME NEW s \in Sessions, Order(s) PROVE CountedInv'
  <2>1. Return(s) /\ UNCHANGED <<accesses, crashes, paid>> /\ pc[s] \notin {"count", "record"}
    BY <1>8 DEF Order
  <2> QED BY <1>0, <2>1, QuietCount DEF Return
<1>9. ASSUME NEW s \in Sessions, Crash(s) PROVE CountedInv'
  <2>1. /\ crashes' = crashes + 1 /\ UNCHANGED <<accesses, paid>> /\ Goto(s, "idle")
        /\ mem' = [mem EXCEPT ![s] = Nothing]
    BY <1>9 DEF Crash, rows, Return
  <2>2. accesses' \in Nat /\ crashes' \in Nat /\ accesses' + crashes' = accesses + crashes + 1
    BY <1>0, <2>1
  <2> QED BY <2>1, <2>2, ReturnCount
<1>10. \A t \in Txs : Initiate(t) => CountedInv'
  BY <1>1 DEF Initiate
<1>11. UNCHANGED vars => CountedInv'
  BY <1>1 DEF vars, rows
<1> QED BY <1>2, <1>3, <1>4, <1>5, <1>6, <1>7, <1>8, <1>9, <1>10, <1>11,
           FindKeyCount, DebitCount DEF Next, Step

LEMMA CountInvariance == Spec => []CountedInv
  BY Invariance, InitCount, NextCount, PTL DEF Spec
-----------------------------------------------------------------------------
\* Types; in particular the buyer is never overdrawn.
THEOREM TypeCorrect == Spec => []TypeOK
<1>1. IInv => TypeOK
  BY DEF IInv
<1> QED BY <1>1, Invariance, PTL

\* verify_delivery and express_buy complete a purchase only with its charge:
\* one for a token purchase, none for a simulated one.
THEOREM CompletionIsPaid == Spec => []CompletedIsPaid
<1>1. IInv => CompletedIsPaid
  BY DEF IInv
<1> QED BY <1>1, Invariance, PTL

\* create_market_order writes its order after a completed, charged purchase, and
\* nothing takes that purchase back.
THEOREM OrderIsPaid == Spec => []OrdersArePaid
<1>1. IInv => OrdersArePaid
  BY DEF IInv
<1> QED BY <1>1, Invariance, PTL

\* A charge without its access count is the mark of a handler that died in between; a
\* repeated verification counts again, so the count may only be too high.
THEOREM ChargesCounted == Spec => []ChargesAreCounted
<1>1. CountedInv => ChargesAreCounted
  BY DEF CountedInv
<1> QED BY <1>1, CountInvariance, PTL
=============================================================================
