--------------------------- MODULE DepositsProofs ---------------------------
(***************************************************************************)
(* Machine-checked proofs about Deposits, for any number of deposits,      *)
(* handlers and crashes.  CreditedOnce is not inductive: IInv adds what a  *)
(* handler knows between its two commits, and who holds the row lock.      *)
(***************************************************************************)
EXTENDS Deposits, TLAPS

Jobs == [op : Ops, dep : Deposits]

\* What handler s knows of its deposit at each point of its call.  Before the
\* credit, and before a cancellation's write, it holds the row lock; after the
\* credit it no longer does, but the unique key keeps the credit.
KnowsAt(s) ==
  LET d == job[s].dep IN
  /\ pc[s] # "idle" => job[s] \in Jobs
  /\ pc[s] = "credit" => lock[d] = s
  /\ pc[s] = "fail" => lock[d] = s /\ status[d] = "pending"
  /\ pc[s] = "complete" => credits[d] = 1

IInv == TypeOK /\ CreditedOnce /\ \A s \in Sessions : KnowsAt(s)
-----------------------------------------------------------------------------
LEMMA InitInv == Init => IInv
  BY DepositsAssumption DEF Init, IInv, TypeOK, CreditedOnce, KnowsAt, Ops

\* A handler that neither moves nor loses a lock keeps what it knows, as long
\* as nobody changes a deposit it holds and no credit is taken back.
LEMMA KnowsFrame ==
  ASSUME IInv, NEW s \in Sessions,
         pc'[s] = pc[s], job'[s] = job[s],
         \A d \in Deposits : lock[d] = s => lock'[d] = s /\ status'[d] = status[d],
         \A d \in Deposits : credits[d] = 1 => credits'[d] = 1
  PROVE  KnowsAt(s)'
<1>1. KnowsAt(s) /\ pc[s] \in {"idle", "select", "credit", "complete", "fail"}
  BY DEF IInv, TypeOK
<1>2. CASE pc[s] = "idle"
  BY <1>2 DEF KnowsAt
<1>3. CASE pc[s] # "idle"
  <2>1. job[s] \in Jobs /\ job[s].dep \in Deposits
    BY <1>1, <1>3 DEF KnowsAt, Jobs
  <2> QED BY <1>1, <1>3, <2>1 DEF KnowsAt
<1> QED BY <1>2, <1>3

LEMMA NextInv == IInv /\ [Next]_vars => IInv'
<1> SUFFICES ASSUME IInv, [Next]_vars PROVE IInv'
  OBVIOUS
<1>0. /\ status \in [Deposits -> {"none", "pending", "completed", "failed"}]
      /\ credits \in [Deposits -> Nat]
      /\ lock \in [Deposits -> Sessions \cup {None}]
      /\ pc \in [Sessions -> {"idle", "select", "credit", "complete", "fail"}]
      /\ job \in [Sessions -> Jobs \cup {None}]
      /\ event \in [Deposits -> {"none", "open", "sent", "acked"}]
      /\ crashes \in 0 .. MaxCrashes
      /\ \A d \in Deposits : credits[d] <= 1 /\ (status[d] = "completed" => credits[d] = 1)
  BY DEF IInv, TypeOK, CreditedOnce, Jobs
<1>1. ASSUME NEW d \in Deposits, Create(d) PROVE IInv'
  <2>1. TypeOK' /\ CreditedOnce'
    BY <1>0, <1>1 DEF Create, TypeOK, CreditedOnce, Jobs
  <2>2. ASSUME NEW t \in Sessions PROVE KnowsAt(t)'
    BY <1>0, <1>1, KnowsAt(t) DEF Create, KnowsAt, IInv
  <2> QED BY <2>1, <2>2 DEF IInv
<1>2. ASSUME NEW d \in Deposits, Pay(d) PROVE IInv'
  <2>1. TypeOK' /\ CreditedOnce'
    BY <1>0, <1>2 DEF Pay, TypeOK, CreditedOnce, Jobs
  <2>2. ASSUME NEW t \in Sessions PROVE KnowsAt(t)'
    BY <1>2, KnowsFrame DEF Pay
  <2> QED BY <2>1, <2>2 DEF IInv
<1>3. ASSUME NEW s \in Sessions, NEW op \in Ops, NEW d \in Deposits, Call(s, op, d)
      PROVE  IInv'
  <2>1. TypeOK' /\ CreditedOnce'
    BY <1>0, <1>3 DEF Call, TypeOK, CreditedOnce, Jobs
  <2>2. KnowsAt(s)'
    BY <1>0, <1>3 DEF Call, KnowsAt, Jobs
  <2>3. ASSUME NEW t \in Sessions, t # s PROVE KnowsAt(t)'
    BY <1>0, <1>3, <2>3, KnowsFrame DEF Call
  <2> QED BY <2>1, <2>2, <2>3 DEF IInv
<1>4. ASSUME NEW s \in Sessions, NEW d \in Deposits, CreateAndConfirm(s, d) PROVE IInv'
  <2>1. TypeOK' /\ CreditedOnce'
    BY <1>0, <1>4 DEF CreateAndConfirm, TypeOK, CreditedOnce, Jobs, Ops
  <2>2. KnowsAt(s)'
    BY <1>0, <1>4 DEF CreateAndConfirm, KnowsAt, Jobs, Ops
  <2>3. ASSUME NEW t \in Sessions, t # s PROVE KnowsAt(t)'
    BY <1>0, <1>4, <2>3 DEF CreateAndConfirm, KnowsAt, IInv, Jobs
  <2> QED BY <2>1, <2>2, <2>3 DEF IInv
<1>5. ASSUME NEW s \in Sessions, Step(s) PROVE IInv'
  <2>0. /\ pc[s] # "idle" => job[s] \in Jobs /\ job[s].dep \in Deposits
        /\ KnowsAt(s) /\ None # s
    BY DepositsAssumption DEF IInv, KnowsAt, Jobs
  <2>1. CASE Select(s)
    <3> USE <2>1 DEF Select, Granted, TakeLock
    <3>1. TypeOK' /\ CreditedOnce'
      BY <1>0, <2>0 DEF TypeOK, CreditedOnce, Jobs
    <3>2. KnowsAt(s)'
      BY <1>0, <2>0 DEF KnowsAt, Seen, Jobs, Ops
    <3>3. ASSUME NEW t \in Sessions, t # s PROVE KnowsAt(t)'
      BY <1>0, <2>0, <3>3, KnowsFrame, DepositsAssumption DEF Free
    <3> QED BY <3>1, <3>2, <3>3 DEF IInv
  <2>2. CASE Reject(s)
    <3> USE <2>2 DEF Reject, Return, Ack
    <3>1. TypeOK' /\ CreditedOnce'
      BY <1>0, <2>0 DEF TypeOK, CreditedOnce, Jobs
    <3>2. KnowsAt(s)'
      BY <1>0, <2>0 DEF KnowsAt
    <3>3. ASSUME NEW t \in Sessions, t # s PROVE KnowsAt(t)'
      BY <1>0, <3>3, KnowsFrame
    <3> QED BY <3>1, <3>2, <3>3 DEF IInv
  <2>3. CASE Credit(s)
    <3> USE <2>3 DEF Credit, KeyFree
    <3>1. TypeOK' /\ CreditedOnce'
      BY <1>0, <2>0 DEF TypeOK, CreditedOnce, Jobs
    <3>2. KnowsAt(s)'
      BY <1>0, <2>0 DEF KnowsAt, Jobs
    <3>3. ASSUME NEW t \in Sessions, t # s PROVE KnowsAt(t)'
      <4>1. lock[job[s].dep] = s
        BY <2>0 DEF KnowsAt
      <4> QED BY <1>0, <2>0, <3>3, <4>1, KnowsFrame
    <3> QED BY <3>1, <3>2, <3>3 DEF IInv
  <2>4. CASE Conflict(s)
    <3> USE <2>4 DEF Conflict, Return
    <3>1. TypeOK' /\ CreditedOnce'
      BY <1>0, <2>0 DEF TypeOK, CreditedOnce, Jobs
    <3>2. KnowsAt(s)'
      BY <1>0, <2>0 DEF KnowsAt
    <3>3. ASSUME NEW t \in Sessions, t # s PROVE KnowsAt(t)'
      <4>1. lock[job[s].dep] = s
        BY <2>0 DEF KnowsAt
      <4> QED BY <1>0, <2>0, <3>3, <4>1, KnowsFrame
    <3> QED BY <3>1, <3>2, <3>3 DEF IInv
  <2>5. CASE Complete(s)
    <3> USE <2>5 DEF Complete, Return, Ack
    <3>1. credits[job[s].dep] = 1
      BY <2>0 DEF KnowsAt
    <3>2. TypeOK' /\ CreditedOnce'
      BY <1>0, <2>0, <3>1 DEF TypeOK, CreditedOnce, Jobs
    <3>3. KnowsAt(s)'
      BY <1>0, <2>0 DEF KnowsAt
    <3>4. ASSUME NEW t \in Sessions, t # s PROVE KnowsAt(t)'
      BY <1>0, <2>0, <3>4, KnowsFrame, DepositsAssumption DEF Free
    <3> QED BY <3>2, <3>3, <3>4 DEF IInv
  <2>6. CASE Fail(s)
    <3> USE <2>6 DEF Fail, FailWith, Return
    <3>1. lock[job[s].dep] = s
      BY <2>0 DEF KnowsAt
    <3>2. TypeOK' /\ CreditedOnce'
      BY <1>0, <2>0 DEF TypeOK, CreditedOnce, Jobs
    <3>3. KnowsAt(s)'
      BY <1>0, <2>0 DEF KnowsAt
    <3>4. ASSUME NEW t \in Sessions, t # s PROVE KnowsAt(t)'
      BY <1>0, <2>0, <3>1, <3>4, KnowsFrame
    <3> QED BY <3>2, <3>3, <3>4 DEF IInv
  <2> QED BY <1>5, <2>1, <2>2, <2>3, <2>4, <2>5, <2>6 DEF Step
<1>6. ASSUME NEW s \in Sessions, Crash(s) PROVE IInv'
  <2> USE <1>6 DEF Crash, Return
  <2>1. TypeOK' /\ CreditedOnce'
    BY <1>0, DepositsAssumption DEF TypeOK, CreditedOnce, Jobs
  <2>2. KnowsAt(s)'
    BY <1>0 DEF KnowsAt
  <2>3. ASSUME NEW t \in Sessions, t # s PROVE KnowsAt(t)'
    BY <1>0, <2>3, KnowsFrame
  <2> QED BY <2>1, <2>2, <2>3 DEF IInv
<1>7. ASSUME UNCHANGED vars PROVE IInv'
  BY <1>7 DEF vars, IInv, TypeOK, CreditedOnce, KnowsAt
<1> QED BY <1>1, <1>2, <1>3, <1>4, <1>5, <1>6, <1>7 DEF Next

LEMMA Invariance == Spec => []IInv
<1> QED BY InitInv, NextInv, PTL DEF Spec
-----------------------------------------------------------------------------
\* Types: no deposit has a status outside the column's four words.
THEOREM TypeCorrect == Spec => []TypeOK
<1>1. IInv => TypeOK
  BY DEF IInv
<1> QED BY <1>1, Invariance, PTL

\* confirm_deposit, however often and by whomever it is called, with crashes
\* and redelivery: one credit per deposit, and none is completed without it.
THEOREM NeverCreditedTwice == Spec => []CreditedOnce
<1>1. IInv => CreditedOnce
  BY DEF IInv
<1> QED BY <1>1, Invariance, PTL

\* A confirmed deposit stays confirmed: cancel_deposit writes only under a row
\* lock it took while the status was pending, and confirm_deposit waits for it.
THEOREM CompletionIsFinal == Spec => CompletedIsFinal
<1> DEFINE Keeps == \A d \in Deposits : status[d] = "completed" => status'[d] = "completed"
<1>1. IInv /\ [Next]_vars => [Keeps]_vars
  <2> SUFFICES ASSUME IInv, Next, NEW e \in Deposits, status[e] = "completed"
               PROVE  status'[e] = "completed"
    OBVIOUS
  <2>0. status \in [Deposits -> {"none", "pending", "completed", "failed"}]
    BY DEF IInv, TypeOK
  <2>1. ASSUME NEW d \in Deposits, Create(d) \/ Pay(d) PROVE status'[e] = "completed"
    BY <2>0, <2>1 DEF Create, Pay
  <2>2. ASSUME NEW s \in Sessions, NEW op \in Ops, NEW d \in Deposits,
               Call(s, op, d) \/ CreateAndConfirm(s, d) \/ Crash(s)
        PROVE  status'[e] = "completed"
    BY <2>0, <2>2 DEF Call, CreateAndConfirm, Crash
  <2>3. ASSUME NEW s \in Sessions, Step(s) PROVE status'[e] = "completed"
    <3>1. CASE Fail(s)
      <4>1. status[job[s].dep] = "pending"
        BY <3>1 DEF IInv, KnowsAt, Fail, FailWith
      <4> QED BY <2>0, <3>1, <4>1 DEF Fail, FailWith
    <3>2. CASE Complete(s)
      BY <2>0, <3>2 DEF Complete
    <3>3. CASE Select(s) \/ Reject(s) \/ Credit(s) \/ Conflict(s)
      BY <3>3 DEF Select, Granted, Reject, Credit, Conflict
    <3> QED BY <2>3, <3>1, <3>2, <3>3 DEF Step
  <2>4. \E op \in Ops : TRUE
    BY DEF Ops
  <2> QED BY <2>1, <2>2, <2>3, <2>4 DEF Next
<1>2. Spec => [][Keeps]_vars
  BY <1>1, Invariance, PTL DEF Spec
<1> QED BY <1>2 DEF CompletedIsFinal
=============================================================================
