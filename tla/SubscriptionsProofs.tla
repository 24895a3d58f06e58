------------------------- MODULE SubscriptionsProofs -------------------------
(***************************************************************************)
(* Machine-checked proofs about Subscriptions, for any number of plans,    *)
(* handlers, checkouts, events and repetitions.  The invariants are not    *)
(* inductive: IInv adds that every event is about a Stripe subscription    *)
(* that was paid, and what a handler may still rely on of the row and the  *)
(* event it read without a lock.                                           *)
(***************************************************************************)
EXTENDS Subscriptions, SequenceTheorems, FiniteSetTheorems, TLAPS

RowType == [plan : Plans, status : Statuses, stripe : Nat]
StripeType == [plan : PaidPlans, labelled : Labels,
               state : {"checkout", "active", "past_due", "canceled"}]
Places == {"idle", "subscribe", "change", "cancel", "find", "link", "check", "insert",
           "stamp", "sync", "write"}
OfWebhooks == {"find", "link", "check", "insert", "stamp", "sync", "write"}

PaidFor(x, p) == x \in DOMAIN stripe /\ stripe[x].plan = p /\ stripe[x].state # "checkout"

\* What makes a row a rightful one.
Good(row) ==
  /\ row \in RowType
  /\ row.status \in {"active", "past_due"} /\ row.plan \notin FreePlans =>
       \E x \in DOMAIN stripe : PaidFor(x, row.plan)
  /\ row.stripe # 0 => PaidFor(row.stripe, row.plan)

\* What the API's handler s knows.  A row it read as active does not wait any more.
CallerKnows(s) ==
  LET row == mem[s].row IN
  /\ pc[s] \in {"subscribe", "change"} => mem[s].plan \in FreePlans
  /\ pc[s] = "cancel" => row # 0
  /\ pc[s] \in {"change", "cancel"} /\ row # 0 => rows[row].status # "pending"

\* What the webhook's handler s knows: its event is one that was sent; the row to link
\* is of the event's plan and, if it waited, waits or has been linked by now; the row
\* to write has been linked.
HandlerKnows(s) ==
  LET row == mem[s].row
      read == mem[s].read
      event == mem[s].event IN
  /\ pc[s] \in OfWebhooks => event \in sent
  /\ pc[s] \in {"link", "stamp"} => row # 0 /\ rows[row].plan = stripe[event.of].plan
  /\ pc[s] = "link" /\ read # "active" =>
       read = "pending" /\ (rows[row].status = "pending" \/ rows[row].stripe # 0)
  /\ pc[s] = "write" => row # 0 /\ read \in Statuses /\ rows[row].stripe # 0

MemType(m) ==
  /\ m.row \in 0 .. Len(rows)
  /\ m \in [plan : Plans \cup {None}, event : sent \cup {None}, row : Nat,
            read : Statuses \cup {"none"}]

Known(s) == pc[s] \in Places /\ MemType(mem[s]) /\ CallerKnows(s) /\ HandlerKnows(s)

IInv ==
  /\ rows \in Seq(RowType) /\ \A i \in 1 .. Len(rows) : Good(rows[i])
  /\ stripe \in Seq(StripeType)
  /\ \A e \in sent : e.of \in 1 .. Len(stripe) /\ stripe[e.of].state # "checkout"
  /\ acked \subseteq sent
  /\ pc \in [Sessions -> Places] /\ DOMAIN mem = Sessions
  /\ \A s \in Sessions : Known(s)
-----------------------------------------------------------------------------
LEMMA InitInv == Init => IInv
<1> SUFFICES ASSUME Init PROVE IInv
  OBVIOUS
<1>1. rows \in Seq(RowType) /\ stripe \in Seq(StripeType) /\ Len(rows) = 0 /\ Len(stripe) = 0
  BY EmptySeq DEF Init
<1>2. ASSUME NEW s \in Sessions PROVE Known(s)
  BY <1>1 DEF Init, Nothing, Known, MemType, CallerKnows, HandlerKnows, Places, OfWebhooks
<1> QED BY <1>1, <1>2 DEF Init, IInv, Places

LEMMA Types ==
  ASSUME IInv
  PROVE  /\ rows \in Seq(RowType) /\ Len(rows) \in Nat /\ DOMAIN rows = 1 .. Len(rows)
         /\ \A i \in 1 .. Len(rows) : Good(rows[i]) /\ rows[i] \in RowType
         /\ stripe \in Seq(StripeType) /\ Len(stripe) \in Nat /\ DOMAIN stripe = 1 .. Len(stripe)
         /\ \A x \in 1 .. Len(stripe) : stripe[x] \in StripeType
         /\ \A e \in sent : e.of \in 1 .. Len(stripe) /\ PaidFor(e.of, stripe[e.of].plan)
         /\ DOMAIN pc = Sessions /\ DOMAIN mem = Sessions
         /\ \A s \in Sessions : Known(s)
  BY LenProperties, ElementOfSeq DEF IInv, PaidFor

\* A sequence is in Seq(S) as soon as its elements are in S.
LEMMA SeqNarrow ==
  ASSUME NEW S, NEW T, NEW seq \in Seq(T), \A i \in 1 .. Len(seq) : seq[i] \in S
  PROVE  seq \in Seq(S)
<1>1. Len(seq) \in Nat /\ seq \in [1 .. Len(seq) -> T]
  BY LenProperties
<1>2. seq \in [1 .. Len(seq) -> S]
  BY <1>1
<1> QED BY <1>1, <1>2

LEMMA TypesFromInv == IInv => TypeOK
<1> SUFFICES ASSUME IInv PROVE TypeOK
  OBVIOUS
<1> DEFINE Narrow == [plan : Plans, status : Statuses, stripe : 0 .. Len(stripe)]
<1>1. ASSUME NEW i \in 1 .. Len(rows) PROVE rows[i] \in Narrow
  <2>1. rows[i] \in RowType /\ rows[i].stripe \in 0 .. Len(stripe)
    BY Types DEF Good, PaidFor, RowType
  <2> QED BY <2>1 DEF RowType
<1> HIDE DEF Narrow
<1>2. rows \in Seq(Narrow)
  BY <1>1, Types, SeqNarrow
<1>3. \A s \in Sessions : mem[s].row \in 0 .. Len(rows)
  BY Types DEF Known, MemType
<1> QED BY <1>2, <1>3, Types DEF IInv, TypeOK, Places, StripeType, Narrow

\* What was paid stays paid, and a rightful row stays one, whatever Stripe adds.
LEMMA GoodFrame ==
  ASSUME \A x \in DOMAIN stripe : /\ x \in DOMAIN stripe' /\ stripe'[x].plan = stripe[x].plan
                                  /\ stripe[x].state # "checkout" => stripe'[x].state # "checkout"
  PROVE  \A row : Good(row) => Good(row)'
  BY DEF Good, PaidFor

\* A step of Stripe alone: its subscriptions keep their plans, what was paid stays
\* paid, and an event that is new is about one that is.
LEMMA StripeInv ==
  ASSUME IInv, UNCHANGED <<rows, pc, mem, acked>>, stripe' \in Seq(StripeType),
         Len(stripe') >= Len(stripe), sent \subseteq sent',
         \A x \in 1 .. Len(stripe) :
           /\ stripe'[x].plan = stripe[x].plan
           /\ stripe[x].state # "checkout" => stripe'[x].state # "checkout",
         \A e \in sent' \ sent : e.of \in 1 .. Len(stripe') /\ stripe'[e.of].state # "checkout"
  PROVE  IInv'
<1>1. DOMAIN stripe' = 1 .. Len(stripe') /\ Len(stripe') \in Nat
  BY LenProperties
<1>2. \A row : Good(row) => Good(row)'
  BY <1>1, Types, GoodFrame
<1>3. \A i \in 1 .. Len(rows) : Good(rows[i])'
  BY <1>2, Types
<1>4. \A e \in sent' : e.of \in 1 .. Len(stripe') /\ stripe'[e.of].state # "checkout"
  BY <1>1, Types DEF IInv
<1>5. ASSUME NEW s \in Sessions PROVE Known(s)'
  <2>1. Known(s) /\ \A e \in sent : e.of \in 1 .. Len(stripe)
    BY Types
  <2>2. MemType(mem[s])'
    BY <2>1 DEF Known, MemType
  <2>3. CallerKnows(s)'
    BY <2>1 DEF Known, CallerKnows
  <2>4. HandlerKnows(s)'
    BY <2>1 DEF Known, HandlerKnows, OfWebhooks
  <2> QED BY <2>1, <2>2, <2>3, <2>4 DEF Known
<1> QED BY <1>3, <1>4, <1>5 DEF IInv

\* What no step of a handler does to a row: take its plan or its Stripe id away, make
\* it wait again, or end its waiting other than by linking it.
Keeps(i) ==
  /\ rows'[i].plan = rows[i].plan
  /\ rows[i].stripe # 0 => rows'[i].stripe # 0
  /\ rows'[i].status = "pending" => rows[i].status = "pending"
  /\ rows[i].status = "pending" => rows'[i].status = "pending" \/ rows'[i].stripe # 0

\* A step of handler s: the others keep what they know.
LEMMA HandlerInv ==
  ASSUME IInv, NEW s \in Sessions, UNCHANGED <<stripe, sent>>,
         rows' \in Seq(RowType), Len(rows') >= Len(rows),
         \A i \in 1 .. Len(rows') : Good(rows'[i]),
         \A i \in 1 .. Len(rows) : Keeps(i),
         NEW l \in Places, NEW m, Goto(s, l, m), acked' \subseteq sent, Known(s)'
  PROVE  IInv'
<1>1. Len(rows') \in Nat
  BY LenProperties
<1>2. \A i \in 1 .. Len(rows') : Good(rows[i])'
  BY DEF Good, PaidFor
<1>3. pc' \in [Sessions -> Places] /\ DOMAIN mem' = Sessions
  BY DEF Goto, IInv
<1>4. ASSUME NEW t \in Sessions, t # s PROVE Known(t)'
  <2>1. pc'[t] = pc[t] /\ mem'[t] = mem[t] /\ Known(t)
    BY <1>4, Types DEF Goto
  <2>2. MemType(mem[t])'
    BY <1>1, <2>1, Types DEF Known, MemType
  <2>3. mem[t].row \in 0 .. Len(rows) /\ Len(rows) \in Nat
    BY <2>1, Types DEF Known, MemType
  <2>4. mem[t].row # 0 => mem[t].row \in 1 .. Len(rows) /\ Keeps(mem[t].row)
    BY <2>3
  <2>5. CallerKnows(t)'
    BY <2>1, <2>4 DEF Known, CallerKnows, Keeps
  <2>6. HandlerKnows(t)'
    BY <2>1, <2>4 DEF Known, HandlerKnows, Keeps, OfWebhooks
  <2> QED BY <2>1, <2>2, <2>5, <2>6 DEF Known
<1> QED BY <1>2, <1>3, <1>4 DEF IInv

\* The rows with another in the place of the i-th.
SetRow(i, new) == [rows EXCEPT ![i] = new]

\* The same for a step that leaves the rows alone, changes one, or adds one.
LEMMA SameRows ==
  ASSUME IInv, NEW s \in Sessions, UNCHANGED <<rows, stripe, sent>>,
         NEW l \in Places, NEW m, Goto(s, l, m), acked' \subseteq sent, Known(s)'
  PROVE  IInv'
<1>1. \A i \in 1 .. Len(rows) : Keeps(i)
  BY DEF Keeps
<1> QED BY <1>1, Types, HandlerInv

LEMMA OneRow ==
  ASSUME IInv, NEW s \in Sessions, UNCHANGED <<stripe, sent>>,
         NEW i \in 1 .. Len(rows), NEW new, Good(new), rows' = SetRow(i, new),
         new.plan = rows[i].plan, rows[i].stripe # 0 => new.stripe # 0,
         new.status = "pending" => rows[i].status = "pending",
         rows[i].status = "pending" => new.status = "pending" \/ new.stripe # 0,
         NEW l \in Places, NEW m, Goto(s, l, m), acked' \subseteq sent, Known(s)'
  PROVE  IInv'
<1>1. new \in RowType
  BY DEF Good
<1>2. /\ rows' \in Seq(RowType) /\ Len(rows') = Len(rows)
      /\ \A j \in 1 .. Len(rows) : rows'[j] = IF j = i THEN new ELSE rows[j]
  BY <1>1, Types, ExceptSeq DEF SetRow
<1>3. \A j \in 1 .. Len(rows) : Keeps(j) /\ Good(rows'[j])
  BY <1>2, Types DEF Keeps
<1> QED BY <1>2, <1>3, Types, HandlerInv

LEMMA NewRow ==
  ASSUME IInv, NEW s \in Sessions, UNCHANGED <<stripe, sent>>,
         NEW new, Good(new), rows' = Append(rows, new),
         NEW l \in Places, NEW m, Goto(s, l, m), acked' \subseteq sent, Known(s)'
  PROVE  IInv'
<1>1. new \in RowType
  BY DEF Good
<1>2. /\ rows' \in Seq(RowType) /\ Len(rows') = Len(rows) + 1
      /\ \A j \in 1 .. Len(rows) : rows'[j] = rows[j]
      /\ rows'[Len(rows) + 1] = new
  BY <1>1, Types, AppendProperties
<1>3. \A j \in 1 .. Len(rows') : Good(rows'[j])
  BY <1>2, Types
<1>4. \A j \in 1 .. Len(rows) : Keeps(j)
  BY <1>2 DEF Keeps
<1> QED BY <1>2, <1>3, <1>4, Types, HandlerInv

\* A handler that is done knows nothing.
LEMMA IdleKnown ==
  ASSUME IInv, NEW s \in Sessions, Return(s), Len(rows') \in Nat
  PROVE  Known(s)'
<1>1. pc'[s] = "idle" /\ mem'[s] = Nothing
  BY Types DEF Return, Goto
<1> QED BY <1>1 DEF Known, MemType, CallerKnows, HandlerKnows, OfWebhooks, Places, Nothing

\* A handler that ends, answered or not, without having written.
LEMMA EndInv ==
  ASSUME IInv, NEW s \in Sessions, UNCHANGED <<rows, stripe, sent>>, Return(s), acked' \subseteq sent
  PROVE  IInv'
<1>1. Known(s)' /\ "idle" \in Places /\ Goto(s, "idle", Nothing)
  BY Types, IdleKnown DEF Places, Return
<1> QED BY <1>1, SameRows

LEMMA SetRowLen ==
  ASSUME IInv, NEW i \in 1 .. Len(rows), NEW new \in RowType
  PROVE  Len(SetRow(i, new)) \in Nat
  BY Types, ExceptSeq DEF SetRow

\* The UPDATE of a status, as a change of one row.
LEMMA UpdatedRow ==
  ASSUME IInv, NEW i \in 1 .. Len(rows), NEW read, NEW v \in Statuses
  PROVE  \E new \in RowType :
           /\ Updated(i, read, v) = SetRow(i, new)
           /\ new.plan = rows[i].plan /\ new.stripe = rows[i].stripe
           /\ new.status = IF read = v THEN rows[i].status ELSE v
<1> DEFINE new == [rows[i] EXCEPT !.status = IF read = v THEN @ ELSE v]
<1>1. rows \in [1 .. Len(rows) -> RowType] /\ rows[i] \in RowType
  BY Types, LenProperties
<1>2. Updated(i, read, v) = SetRow(i, new)
  BY <1>1 DEF Updated, RowType, SetRow
<1>3. /\ new \in RowType /\ new.plan = rows[i].plan /\ new.stripe = rows[i].stripe
      /\ new.status = IF read = v THEN rows[i].status ELSE v
  BY <1>1 DEF RowType
<1> QED BY <1>2, <1>3

\* A row that is cancelled, or of a free plan, needs no payment.
LEMMA GoodUnpaid ==
  ASSUME NEW row \in RowType, row.stripe = 0,
         row.status \in {"pending", "cancelled"} \/ row.plan \in FreePlans
  PROVE  Good(row)
  BY DEF Good

LEMMA FreshRow ==
  ASSUME NEW p \in Plans, NEW st \in Statuses
  PROVE  Row(p, st) \in RowType /\ Row(p, st).stripe = 0 /\ Row(p, st).plan = p
         /\ Row(p, st).status = st
  BY DEF Row, RowType
-----------------------------------------------------------------------------
(* Stripe *)

LEMMA HappensInv ==
  ASSUME IInv, NEW i \in DOMAIN stripe, NEW from, NEW events,
         NEW to \in {"active", "past_due", "canceled"}, Happens(i, from, to, events)
  PROVE  IInv'
<1> DEFINE new == [stripe[i] EXCEPT !.state = to]
<1>1. /\ stripe[i] \in StripeType /\ i \in 1 .. Len(stripe)
      /\ new \in StripeType /\ new.plan = stripe[i].plan /\ new.state = to
  BY Types DEF StripeType
<1>2. stripe' = [stripe EXCEPT ![i] = new]
  BY Types DEF Happens
<1> HIDE DEF new
<1>3. /\ stripe' \in Seq(StripeType) /\ Len(stripe') = Len(stripe)
      /\ \A x \in 1 .. Len(stripe) : stripe'[x] = IF x = i THEN new ELSE stripe[x]
  BY <1>1, <1>2, Types, ExceptSeq
<1>4. sent \subseteq sent' /\ \A e \in sent' \ sent : e.of = i
  BY DEF Happens
<1>5. Len(stripe') >= Len(stripe)
  BY <1>3, Types
<1>6. \A x \in 1 .. Len(stripe) :
        /\ stripe'[x].plan = stripe[x].plan
        /\ stripe[x].state # "checkout" => stripe'[x].state # "checkout"
  BY <1>1, <1>3
<1>7. \A e \in sent' \ sent : e.of \in 1 .. Len(stripe') /\ stripe'[e.of].state # "checkout"
  BY <1>1, <1>3, <1>4
<1>8. UNCHANGED <<rows, pc, mem, acked>>
  BY DEF Happens
<1> QED BY <1>3, <1>4, <1>5, <1>6, <1>7, <1>8, StripeInv

\* A Checkout Session alone.
LEMMA ChangePaidInv == ASSUME IInv, NEW p \in Plans, ChangePaid(p) PROVE IInv'
<1>0. PICK b \in Labels : stripe' = Append(stripe, [plan |-> p, labelled |-> b, state |-> "checkout"])
  BY DEF ChangePaid, OpenCheckout
<1> DEFINE new == [plan |-> p, labelled |-> b, state |-> "checkout"]
<1>1. new \in StripeType /\ stripe' = Append(stripe, new) /\ UNCHANGED <<rows, pc, mem, acked, sent>>
  BY <1>0 DEF ChangePaid, StripeType
<1> HIDE DEF new
<1>2. /\ stripe' \in Seq(StripeType) /\ Len(stripe') = Len(stripe) + 1
      /\ \A x \in 1 .. Len(stripe) : stripe'[x] = stripe[x]
  BY <1>1, Types, AppendProperties
<1> QED BY <1>1, <1>2, Types, StripeInv

\* A Checkout Session with its pending row.
LEMMA CreatePaidInv == ASSUME IInv, NEW p \in Plans, CreatePaid(p) PROVE IInv'
<1>0. PICK b \in Labels : stripe' = Append(stripe, [plan |-> p, labelled |-> b, state |-> "checkout"])
  BY DEF CreatePaid, OpenCheckout
<1> DEFINE new == [plan |-> p, labelled |-> b, state |-> "checkout"]
           row == PendingRow(p)
<1>1. /\ new \in StripeType /\ stripe' = Append(stripe, new) /\ rows' = Append(rows, row)
      /\ UNCHANGED <<pc, mem, acked, sent>>
  BY <1>0 DEF CreatePaid, StripeType
<1>2. row \in RowType /\ row.stripe = 0 /\ row.status = "pending"
  BY FreshRow DEF PendingRow, Statuses
<1> HIDE DEF new, row
<1>3. /\ stripe' \in Seq(StripeType) /\ Len(stripe') = Len(stripe) + 1
      /\ \A x \in 1 .. Len(stripe) : stripe'[x] = stripe[x]
      /\ rows' \in Seq(RowType) /\ Len(rows') = Len(rows) + 1
      /\ \A i \in 1 .. Len(rows) : rows'[i] = rows[i]
      /\ rows'[Len(rows) + 1] = row
  BY <1>1, <1>2, Types, AppendProperties
<1>4. \A r : Good(r) => Good(r)'
  <2>1. DOMAIN stripe' = 1 .. Len(stripe')
    BY <1>3, LenProperties
  <2> QED BY <1>3, <2>1, Types, GoodFrame
<1>5. \A i \in 1 .. Len(rows') : Good(rows'[i])
  BY <1>2, <1>3, GoodUnpaid, Types
<1>6. \A i \in 1 .. Len(rows') : Good(rows[i])'
  BY <1>4, <1>5
<1>7. \A e \in sent' : e.of \in 1 .. Len(stripe') /\ stripe'[e.of].state # "checkout"
  BY <1>1, <1>3, Types DEF IInv
<1>8. ASSUME NEW t \in Sessions PROVE Known(t)'
  <2>1. /\ Known(t) /\ \A e \in sent : e.of \in 1 .. Len(stripe)
        /\ mem[t].row \in 0 .. Len(rows)
    BY Types DEF Known, MemType
  <2>2. MemType(mem[t])'
    BY <1>1, <1>3, <2>1, Types DEF Known, MemType
  <2>3. mem[t].row # 0 => rows'[mem[t].row] = rows[mem[t].row]
    BY <1>3, <2>1, Types
  <2>4. CallerKnows(t)'
    BY <1>1, <2>1, <2>3 DEF Known, CallerKnows
  <2>5. HandlerKnows(t)'
    BY <1>1, <1>3, <2>1, <2>3 DEF Known, HandlerKnows, OfWebhooks
  <2> QED BY <1>1, <2>1, <2>2, <2>4, <2>5 DEF Known
<1> QED BY <1>1, <1>3, <1>6, <1>7, <1>8 DEF IInv
-----------------------------------------------------------------------------
(* The API *)

\* The row that a query for active ones has found.
LEMMA ActiveRow ==
  ASSUME IInv, Active # {}
  PROVE  TheOne(Active) \in 1 .. Len(rows) /\ rows[TheOne(Active)].status = "active"
  BY Types DEF Active, TheOne

LEMMA CallInv ==
  ASSUME IInv, NEW s \in Sessions, NEW l \in {"subscribe", "change", "cancel"},
         NEW p \in Plans \cup {None}, Call(s, l, p),
         l \in {"subscribe", "change"} => p \in FreePlans,
         l = "cancel" => Active # {}
  PROVE  IInv'
<1> DEFINE m == IF Active = {} THEN [Nothing EXCEPT !.plan = p]
                ELSE [Nothing EXCEPT !.plan = p, !.row = TheOne(Active), !.read = "active"]
<1>1. Goto(s, l, m) /\ UNCHANGED <<rows, stripe, sent, acked>>
  BY DEF Call
<1>2. /\ m.plan = p /\ m.event = None /\ m.row \in 0 .. Len(rows)
      /\ m \in [plan : Plans \cup {None}, event : {None}, row : Nat, read : {"active", "none"}]
      /\ m.row # 0 => rows[m.row].status = "active"
      /\ Active # {} => m.row # 0
  <2>1. CASE Active = {}
    BY <2>1, Types DEF Nothing
  <2>2. CASE Active # {}
    <3> DEFINE i == TheOne(Active)
    <3>1. i \in 1 .. Len(rows) /\ rows[i].status = "active" /\ Len(rows) \in Nat
      BY <2>2, ActiveRow, Types
    <3> HIDE DEF i
    <3>2. m = [plan |-> p, event |-> None, row |-> i, read |-> "active"]
      BY <2>2 DEF Nothing, i
    <3> HIDE DEF m
    <3> QED BY <2>2, <3>1, <3>2
  <2> QED BY <2>1, <2>2
<1> HIDE DEF m
<1>3. pc'[s] = l /\ mem'[s] = m
  BY <1>1, Types DEF Goto
<1>4. MemType(mem[s])'
  BY <1>1, <1>2, <1>3 DEF MemType, Statuses
<1>5. Known(s)'
  BY <1>1, <1>2, <1>3, <1>4 DEF Known, CallerKnows, HandlerKnows, OfWebhooks, Places
<1>6. l \in Places /\ acked' \subseteq sent
  BY <1>1 DEF Places, IInv
<1> QED BY <1>1, <1>5, <1>6, SameRows

LEMMA SubscribeInv == ASSUME IInv, NEW s \in Sessions, Subscribe(s) PROVE IInv'
<1> DEFINE new == Row(mem[s].plan, "active")
<1>1. mem[s].plan \in FreePlans /\ mem[s].plan \in Plans
  BY Types DEF Subscribe, Known, CallerKnows, Plans
<1>2. Good(new) /\ new \in RowType
  BY <1>1, FreshRow, GoodUnpaid DEF Statuses
<1>3. rows' = Append(rows, new) /\ Return(s) /\ UNCHANGED <<stripe, sent, acked>>
  BY DEF Subscribe
<1> HIDE DEF new
<1>4. Known(s)'
  BY <1>2, <1>3, Types, AppendProperties, IdleKnown
<1>5. acked' \subseteq sent /\ "idle" \in Places /\ Goto(s, "idle", Nothing)
  BY <1>3 DEF IInv, Places, Return
<1> QED BY <1>2, <1>3, <1>4, <1>5, NewRow

\* The row that a handler of the API has read, cancelled.
LEMMA CancelledRow ==
  ASSUME IInv, NEW i \in 1 .. Len(rows), rows[i].status # "pending", NEW read
  PROVE  \E new \in RowType :
           /\ Updated(i, read, "cancelled") = SetRow(i, new)
           /\ Good(new) /\ new.plan = rows[i].plan /\ new.stripe = rows[i].stripe
           /\ new.status # "pending"
<1>1. "cancelled" \in Statuses
  BY DEF Statuses
<1>2. PICK new \in RowType :
        /\ Updated(i, read, "cancelled") = SetRow(i, new)
        /\ new.plan = rows[i].plan /\ new.stripe = rows[i].stripe
        /\ new.status = IF read = "cancelled" THEN rows[i].status ELSE "cancelled"
  BY <1>1, UpdatedRow
<1>3. Good(rows[i])
  BY Types
<1>4. Good(new)
  BY <1>2, <1>3 DEF Good
<1> QED BY <1>2, <1>4

LEMMA CancelInv == ASSUME IInv, NEW s \in Sessions, Cancel(s) PROVE IInv'
<1>1. PICK i \in 1 .. Len(rows) : i = mem[s].row /\ rows[i].status # "pending"
  BY Types DEF Cancel, Known, MemType, CallerKnows
<1>2. Return(s) /\ Goto(s, "idle", Nothing) /\ UNCHANGED <<stripe, sent, acked>>
      /\ acked' \subseteq sent /\ "idle" \in Places
  BY DEF Cancel, Return, IInv, Places
<1>3. CASE rows' = Updated(i, mem[s].read, "cancelled")
  <2>1. PICK new \in RowType :
          /\ rows' = SetRow(i, new) /\ Good(new)
          /\ new.plan = rows[i].plan /\ new.stripe = rows[i].stripe
          /\ new.status # "pending"
    BY <1>1, <1>3, CancelledRow
  <2>2. Known(s)'
    BY <1>2, <2>1, Types, SetRowLen, IdleKnown
  <2> QED BY <1>1, <1>2, <2>1, <2>2, OneRow
<1>4. CASE UNCHANGED rows
  BY <1>2, <1>4, EndInv
<1> QED BY <1>1, <1>3, <1>4 DEF Cancel

LEMMA ChangeInv == ASSUME IInv, NEW s \in Sessions, Change(s) PROVE IInv'
<1> DEFINE new == Row(mem[s].plan, "active")
           old == IF mem[s].row = 0 THEN rows ELSE Updated(mem[s].row, mem[s].read, "cancelled")
<1>1. mem[s].plan \in FreePlans /\ mem[s].plan \in Plans
  BY Types DEF Change, Known, CallerKnows, Plans
<1>2. Good(new) /\ new \in RowType
  BY <1>1, FreshRow, GoodUnpaid DEF Statuses
<1>3. rows' = Append(old, new) /\ Return(s) /\ UNCHANGED <<stripe, sent, acked>>
  BY DEF Change
<1> HIDE DEF new
<1>4. /\ old \in Seq(RowType) /\ Len(old) = Len(rows)
      /\ \A j \in 1 .. Len(rows) :
           /\ Good(old[j]) /\ old[j].plan = rows[j].plan /\ old[j].stripe = rows[j].stripe
           /\ old[j].status = rows[j].status
              \/ (old[j].status # "pending" /\ rows[j].status # "pending")
  <2>1. CASE mem[s].row = 0
    BY <2>1, Types
  <2>2. CASE mem[s].row # 0
    <3> HIDE DEF old
    <3>a. Known(s) /\ pc[s] = "change"
      BY Types DEF Change
    <3>b. mem[s].row \in 1 .. Len(rows)
      BY <2>2, <3>a, Types DEF Known, MemType
    <3>c. rows[mem[s].row].status # "pending"
      BY <2>2, <3>a DEF Known, CallerKnows
    <3>1. PICK i \in 1 .. Len(rows) : i = mem[s].row /\ rows[i].status # "pending"
      BY <3>b, <3>c
    <3>2. PICK r \in RowType :
            /\ Updated(i, mem[s].read, "cancelled") = SetRow(i, r)
            /\ Good(r) /\ r.plan = rows[i].plan /\ r.stripe = rows[i].stripe
            /\ r.status # "pending"
      BY <3>1, CancelledRow
    <3>3. old = SetRow(i, r)
      BY <2>2, <3>1, <3>2 DEF old
    <3>4. /\ old \in Seq(RowType) /\ Len(old) = Len(rows)
          /\ \A j \in 1 .. Len(rows) : old[j] = IF j = i THEN r ELSE rows[j]
      BY <3>3, Types, ExceptSeq DEF SetRow
    <3> QED BY <3>1, <3>2, <3>4, Types
  <2> QED BY <2>1, <2>2
<1> HIDE DEF old
<1>5. /\ rows' \in Seq(RowType) /\ Len(rows') = Len(rows) + 1
      /\ \A j \in 1 .. Len(rows) : rows'[j] = old[j]
      /\ rows'[Len(rows) + 1] = new
  BY <1>2, <1>3, <1>4, AppendProperties
<1>6. \A j \in 1 .. Len(rows') : Good(rows'[j])
  BY <1>2, <1>4, <1>5, Types
<1>7. \A j \in 1 .. Len(rows) : Keeps(j)
  BY <1>4, <1>5 DEF Keeps
<1>8. Known(s)'
  BY <1>3, <1>5, Types, IdleKnown
<1>9. acked' \subseteq sent /\ "idle" \in Places /\ Goto(s, "idle", Nothing)
  BY <1>3 DEF IInv, Places, Return
<1> QED BY <1>3, <1>5, <1>6, <1>7, <1>8, <1>9, Types, HandlerInv
-----------------------------------------------------------------------------
(* The webhooks *)

LEMMA ReceiveInv == ASSUME IInv, NEW s \in Sessions, NEW e \in sent, Receive(s, e) PROVE IInv'
<1> DEFINE l == IF e.kind = "created" THEN "find" ELSE "sync"
           m == [Nothing EXCEPT !.event = e]
<1>1. Goto(s, l, m) /\ UNCHANGED <<rows, stripe, sent, acked>>
  BY DEF Receive, Begin
<1>2. l \in {"find", "sync"} /\ m.event = e /\ m.row = 0 /\ m.plan = None /\ m.read = "none"
      /\ m = [plan |-> None, event |-> e, row |-> 0, read |-> "none"]
  BY DEF Nothing
<1> HIDE DEF l, m
<1>3. pc'[s] = l /\ mem'[s] = m
  BY <1>1, Types DEF Goto
<1>4. Known(s)'
  BY <1>1, <1>2, <1>3, Types DEF Known, MemType, CallerKnows, HandlerKnows, OfWebhooks, Places
<1>5. l \in Places /\ acked' \subseteq sent
  BY <1>1, <1>2 DEF Places, IInv
<1> QED BY <1>1, <1>4, <1>5, SameRows

\* The event of a webhook's handler, and what acknowledging it does.
LEMMA EventOf ==
  ASSUME IInv, NEW s \in Sessions, pc[s] \in OfWebhooks
  PROVE  /\ mem[s].event \in sent /\ mem[s].event.of \in 1 .. Len(stripe)
         /\ stripe[mem[s].event.of].plan \in PaidPlans
         /\ PaidFor(mem[s].event.of, stripe[mem[s].event.of].plan)
         /\ mem[s].event.of # 0 /\ mem[s].event.of \in Nat
         /\ Answer(s) => acked' \subseteq sent /\ Return(s)
<1>1. mem[s].event \in sent
  BY Types DEF Known, HandlerKnows
<1>2. mem[s].event.of \in 1 .. Len(stripe)
  BY <1>1, Types
<1> QED BY <1>1, <1>2, Types DEF Answer, IInv, StripeType

\* A handler that goes on to place l with the row i it has found.
LEMMA FoundInv ==
  ASSUME IInv, NEW s \in Sessions, UNCHANGED <<rows, stripe, sent, acked>>,
         pc[s] \in OfWebhooks, NEW l \in {"link", "write", "check", "insert"},
         NEW i \in 0 .. Len(rows), NEW read \in Statuses \cup {"none"},
         NEW m, m.row = i, m.read = read, m.event = mem[s].event, MemType(m), Goto(s, l, m),
         l = "link" => /\ i # 0 /\ rows[i].plan = stripe[mem[s].event.of].plan
                       /\ rows[i].status = read /\ read \in {"pending", "active"},
         l = "write" => i # 0 /\ rows[i].stripe # 0 /\ read \in Statuses
  PROVE  IInv'
<1>1. pc'[s] = l /\ mem'[s] = m
  BY Types DEF Goto
<1>2. mem[s].event \in sent
  BY EventOf
<1>3. MemType(mem[s])'
  BY <1>1 DEF MemType
<1>4. Known(s)'
  BY <1>1, <1>2, <1>3 DEF Known, CallerKnows, HandlerKnows, OfWebhooks, Places
<1>5. l \in Places /\ acked' \subseteq sent
  BY DEF Places, IInv
<1> QED BY <1>4, <1>5, SameRows

LEMMA FindInv == ASSUME IInv, NEW s \in Sessions, Find(s) PROVE IInv'
<1> DEFINE found == Waiting(stripe[mem[s].event.of].plan)
           i == TheOne(found)
<1>1. /\ pc[s] \in OfWebhooks /\ UNCHANGED <<rows, stripe, sent>>
      /\ MemType(mem[s]) /\ Len(rows) \in Nat
  BY Types DEF Find, OfWebhooks, Known
<1>2. CASE Fails(s) \/ Answer(s)
  BY <1>1, <1>2, EventOf, EndInv DEF Fails, IInv
<1>3. CASE /\ Cardinality(found) = 1 /\ UNCHANGED acked
           /\ Goto(s, "link", [mem[s] EXCEPT !.row = i, !.read = rows[i].status])
  <2>1. found # {}
    BY <1>3, FS_EmptySet
  <2>2. PICK j \in 1 .. Len(rows) :
          /\ j = i /\ rows[j].plan = stripe[mem[s].event.of].plan
          /\ rows[j].status \in {"pending", "active"}
    BY <2>1, Types DEF Waiting, TheOne
  <2> DEFINE m == [mem[s] EXCEPT !.row = j, !.read = rows[j].status]
  <2>3. Goto(s, "link", m)
    BY <1>3, <2>2
  <2>4. rows[j].status \in Statuses /\ j \in 0 .. Len(rows) /\ j # 0 /\ j \in Nat
    BY <1>1, <2>2 DEF Statuses
  <2>5. /\ m.row = j /\ m.read = rows[j].status /\ m.event = mem[s].event /\ MemType(m)
    BY <1>1, <2>4 DEF MemType
  <2> HIDE DEF m, found, i
  <2> QED BY <1>1, <1>3, <2>2, <2>3, <2>4, <2>5, FoundInv
<1>4. CASE Goto(s, "check", mem[s]) /\ UNCHANGED acked
  <2>1. mem[s].row \in 0 .. Len(rows) /\ mem[s].read \in Statuses \cup {"none"}
    BY <1>1 DEF MemType
  <2> QED BY <1>1, <1>4, <2>1, FoundInv
<1> QED BY <1>2, <1>3, <1>4 DEF Find

LEMMA CheckInv == ASSUME IInv, NEW s \in Sessions, Check(s) PROVE IInv'
<1>1. /\ pc[s] \in OfWebhooks /\ UNCHANGED <<rows, stripe, sent, acked>>
      /\ MemType(mem[s]) /\ Len(rows) \in Nat
  BY Types DEF Check, OfWebhooks, Known
<1>2. CASE Return(s)
  BY <1>1, <1>2, EndInv DEF IInv
<1>3. CASE Goto(s, "insert", mem[s])
  <2>1. mem[s].row \in 0 .. Len(rows) /\ mem[s].read \in Statuses \cup {"none"}
    BY <1>1 DEF MemType
  <2> QED BY <1>1, <1>3, <2>1, FoundInv
<1> QED BY <1>2, <1>3 DEF Check

LEMMA SyncInv == ASSUME IInv, NEW s \in Sessions, Sync(s) PROVE IInv'
<1> DEFINE found == Linked(mem[s].event.of)
           i == TheOne(found)
<1>1. /\ pc[s] \in OfWebhooks /\ UNCHANGED <<rows, stripe, sent>>
      /\ MemType(mem[s]) /\ Len(rows) \in Nat
  BY Types DEF Sync, OfWebhooks, Known
<1>2. CASE Fails(s)
  BY <1>1, <1>2, EndInv DEF Fails, IInv
<1>3. CASE Answer(s)
  BY <1>1, <1>3, EventOf, EndInv
<1>4. CASE /\ Cardinality(found) = 1 /\ UNCHANGED acked
           /\ Goto(s, "write", [mem[s] EXCEPT !.row = i, !.read = rows[i].status])
  <2>1. found # {}
    BY <1>4, FS_EmptySet
  <2>2. PICK j \in 1 .. Len(rows) : j = i /\ rows[j].stripe # 0 /\ rows[j] \in RowType
    BY <1>1, <2>1, Types, EventOf DEF Linked, TheOne
  <2> DEFINE m == [mem[s] EXCEPT !.row = j, !.read = rows[j].status]
  <2>3. /\ rows[j].status \in Statuses /\ j \in 0 .. Len(rows) /\ j # 0 /\ j \in Nat
    BY <1>1, <2>2 DEF RowType
  <2>4. /\ m.row = j /\ m.read = rows[j].status /\ m.event = mem[s].event /\ MemType(m)
    BY <1>1, <2>3 DEF MemType
  <2>5. Goto(s, "write", m)
    BY <1>4, <2>2
  <2> HIDE DEF m, found, i
  <2> QED BY <1>1, <1>4, <2>2, <2>3, <2>4, <2>5, FoundInv
<1> QED BY <1>2, <1>3, <1>4 DEF Sync

LEMMA CrashInv == ASSUME IInv, NEW s \in Sessions, Crash(s) PROVE IInv'
  BY EndInv DEF Crash, IInv
-----------------------------------------------------------------------------
(* The commits of the webhooks *)

\* The last commit of a handler: row i becomes new.
LEMMA CommitInv ==
  ASSUME IInv, NEW s \in Sessions, pc[s] \in OfWebhooks, UNCHANGED <<stripe, sent>>, Answer(s),
         NEW i \in 1 .. Len(rows), NEW new, Good(new), rows' = SetRow(i, new),
         new.plan = rows[i].plan, new.stripe # 0,
         new.status = "pending" => rows[i].status = "pending"
  PROVE  IInv'
<1>1. Return(s) /\ acked' \subseteq sent /\ Goto(s, "idle", Nothing) /\ "idle" \in Places
  BY EventOf DEF Return, Places
<1>2. Known(s)'
  <2>1. new \in RowType
    BY DEF Good
  <2> QED BY <1>1, <2>1, SetRowLen, IdleKnown
<1> QED BY <1>1, <1>2, OneRow

LEMMA LinkInv == ASSUME IInv, NEW s \in Sessions, Link(s) PROVE IInv'
<1> DEFINE x == mem[s].event.of
           read == mem[s].read
<1>1. /\ pc[s] \in OfWebhooks /\ pc[s] = "link" /\ Answer(s) /\ UNCHANGED <<stripe, sent>>
  BY DEF Link, OfWebhooks
<1>2. PICK i \in 1 .. Len(rows) : i = mem[s].row /\ rows[i].plan = stripe[x].plan
  BY <1>1, Types DEF Known, MemType, HandlerKnows
<1>3. /\ x \in Nat /\ x # 0 /\ PaidFor(x, rows[i].plan)
      /\ x \in 1 .. Len(stripe)
  BY <1>1, <1>2, EventOf
<1>4. "active" \in Statuses
  BY DEF Statuses
<1>5. PICK r \in RowType :
        /\ Updated(i, read, "active") = SetRow(i, r)
        /\ r.plan = rows[i].plan /\ r.stripe = rows[i].stripe
        /\ r.status = IF read = "active" THEN rows[i].status ELSE "active"
  BY <1>4, UpdatedRow
<1> DEFINE new == [r EXCEPT !.stripe = x]
<1>6. /\ new \in RowType /\ new.plan = r.plan /\ new.status = r.status /\ new.stripe = x
  BY <1>3 DEF RowType
<1>7. rows' = SetRow(i, new)
  <2>1. rows' = [SetRow(i, r) EXCEPT ![i].stripe = x]
    BY <1>2, <1>5 DEF Link
  <2> QED BY <2>1, Types DEF SetRow
<1> HIDE DEF new, x
<1>8. Good(new)
  <2>1. \E y \in DOMAIN stripe : PaidFor(y, new.plan)
    BY <1>3, <1>5, <1>6, Types
  <2> QED BY <1>3, <1>5, <1>6, <2>1 DEF Good
<1> QED BY <1>1, <1>3, <1>5, <1>6, <1>7, <1>8, CommitInv

LEMMA StampInv == ASSUME IInv, NEW s \in Sessions, Stamp(s) PROVE IInv'
<1> DEFINE x == mem[s].event.of
<1>1. /\ pc[s] \in OfWebhooks /\ pc[s] = "stamp" /\ Answer(s) /\ UNCHANGED <<stripe, sent>>
  BY DEF Stamp, OfWebhooks
<1>2. PICK i \in 1 .. Len(rows) : i = mem[s].row /\ rows[i].plan = stripe[x].plan
  BY <1>1, Types DEF Known, MemType, HandlerKnows
<1>3. /\ x \in Nat /\ x # 0 /\ PaidFor(x, rows[i].plan)
      /\ x \in 1 .. Len(stripe) /\ rows[i] \in RowType
  BY <1>1, <1>2, EventOf, Types
<1> DEFINE new == [rows[i] EXCEPT !.stripe = x]
<1>4. /\ new \in RowType /\ new.plan = rows[i].plan /\ new.status = rows[i].status
      /\ new.stripe = x
  BY <1>3 DEF RowType
<1>5. rows' = SetRow(i, new)
  BY <1>2, Types DEF Stamp, SetRow
<1> HIDE DEF new, x
<1>6. Good(new)
  <2>1. \E y \in DOMAIN stripe : PaidFor(y, new.plan)
    BY <1>3, <1>4, Types
  <2> QED BY <1>3, <1>4, <2>1 DEF Good
<1> QED BY <1>1, <1>3, <1>4, <1>5, <1>6, CommitInv

LEMMA StatusAfterType ==
  ASSUME NEW kind, NEW read \in Statuses
  PROVE  StatusAfter(kind, read) \in Statuses
         /\ (StatusAfter(kind, read) = "pending" => read = "pending")
  BY DEF StatusAfter, Statuses

LEMMA WriteInv == ASSUME IInv, NEW s \in Sessions, Write(s) PROVE IInv'
<1> DEFINE kind == mem[s].event.kind
           v == StatusAfter(kind, mem[s].read)
<1>1. /\ pc[s] \in OfWebhooks /\ pc[s] = "write" /\ Answer(s) /\ UNCHANGED <<stripe, sent>>
  BY DEF Write, OfWebhooks
<1>2. PICK i \in 1 .. Len(rows) : i = mem[s].row /\ rows[i].stripe # 0
  BY <1>1, Types DEF Known, MemType, HandlerKnows
<1>3. PICK read \in Statuses : read = mem[s].read
  BY <1>1, Types DEF Known, HandlerKnows
<1>4. v \in Statuses /\ (v = "pending" => read = "pending")
  BY <1>3, StatusAfterType
<1> HIDE DEF v
<1>5. PICK r \in RowType :
        /\ Updated(i, read, v) = SetRow(i, r)
        /\ r.plan = rows[i].plan /\ r.stripe = rows[i].stripe
        /\ r.status = IF read = v THEN rows[i].status ELSE v
  BY <1>4, UpdatedRow
<1>7. rows' = SetRow(i, r)
  BY <1>2, <1>3, <1>5 DEF Write, v
<1>8. Good(r)
  <2>1. PaidFor(rows[i].stripe, rows[i].plan)
    BY <1>2, Types DEF Good
  <2>2. \E y \in DOMAIN stripe : PaidFor(y, r.plan)
    BY <1>5, <2>1 DEF PaidFor
  <2> QED BY <1>5, <2>1, <2>2 DEF Good
<1>9. r.status = "pending" => rows[i].status = "pending"
  BY <1>4, <1>5
<1> QED BY <1>1, <1>2, <1>5, <1>7, <1>8, <1>9, CommitInv

\* The first of two commits: the row that subscribe adds, active, for a plan paid.
LEMMA InsertInv == ASSUME IInv, NEW s \in Sessions, Insert(s) PROVE IInv'
<1> DEFINE p == stripe[mem[s].event.of].plan
           new == Row(p, "active")
           m == [mem[s] EXCEPT !.row = Len(rows')]
<1>1. /\ pc[s] \in OfWebhooks /\ pc[s] = "insert" /\ UNCHANGED <<stripe, sent, acked>>
      /\ rows' = Append(rows, new) /\ Goto(s, "stamp", m)
  BY DEF Insert, OfWebhooks
<1>2. p \in Plans /\ PaidFor(mem[s].event.of, p) /\ mem[s].event \in sent
  BY <1>1, EventOf DEF Plans
<1>3. new \in RowType /\ new.plan = p /\ new.stripe = 0
  BY <1>2, FreshRow DEF Statuses
<1> HIDE DEF new
<1>4. Good(new)
  BY <1>2, <1>3 DEF Good, PaidFor
<1>5. /\ Len(rows') = Len(rows) + 1 /\ rows'[Len(rows) + 1] = new /\ Len(rows) \in Nat
  BY <1>1, <1>3, Types, AppendProperties
<1>6. /\ m.row = Len(rows) + 1 /\ m.event = mem[s].event
      /\ m \in [plan : Plans \cup {None}, event : sent \cup {None}, row : Nat,
                read : Statuses \cup {"none"}]
  <2>1. mem[s] \in [plan : Plans \cup {None}, event : sent \cup {None}, row : Nat,
                    read : Statuses \cup {"none"}]
    BY Types DEF Known, MemType
  <2>2. Len(rows') \in Nat
    BY <1>5
  <2> QED BY <1>5, <2>1, <2>2
<1> HIDE DEF m
<1>7. pc'[s] = "stamp" /\ mem'[s] = m
  BY <1>1, Types DEF Goto
<1>8. stripe'[mem[s].event.of].plan = p
  BY <1>1
<1> HIDE DEF p
<1>9. MemType(mem[s])'
  BY <1>1, <1>5, <1>6, <1>7 DEF MemType
<1>10. Known(s)'
  BY <1>1, <1>2, <1>3, <1>5, <1>6, <1>7, <1>8, <1>9
     DEF Known, CallerKnows, HandlerKnows, OfWebhooks, Places
<1>11. "stamp" \in Places /\ acked' \subseteq sent
  BY <1>1 DEF Places, IInv
<1> QED BY <1>1, <1>4, <1>10, <1>11, NewRow
-----------------------------------------------------------------------------
LEMMA StutterInv == IInv /\ UNCHANGED vars => IInv'
<1> SUFFICES ASSUME IInv, UNCHANGED vars PROVE IInv'
  OBVIOUS
<1>1. \A i \in 1 .. Len(rows) : Good(rows[i])'
  BY Types DEF vars, Good, PaidFor
<1>2. ASSUME NEW s \in Sessions PROVE Known(s)'
  BY Types DEF vars, Known, MemType, CallerKnows, HandlerKnows
<1> QED BY <1>1, <1>2 DEF vars, IInv

LEMMA StepInv == ASSUME IInv, NEW s \in Sessions, Step(s) PROVE IInv'
  BY SubscribeInv, ChangeInv, CancelInv, FindInv, LinkInv, CheckInv, InsertInv, StampInv,
     SyncInv, WriteInv DEF Step

LEMMA NextInv == IInv /\ [Next]_vars => IInv'
<1> SUFFICES ASSUME IInv, [Next]_vars PROVE IInv'
  OBVIOUS
<1>1. CASE UNCHANGED vars
  BY <1>1, StutterInv
<1>2. ASSUME NEW i \in DOMAIN stripe,
             CustomerPays(i) \/ ChargeFails(i) \/ ChargePaid(i) \/ StripeEnds(i)
      PROVE  IInv'
  BY <1>2, HappensInv DEF CustomerPays, ChargeFails, ChargePaid, StripeEnds
<1>3. ASSUME NEW p \in Plans, CreatePaid(p) \/ ChangePaid(p) PROVE IInv'
  BY <1>3, CreatePaidInv, ChangePaidInv
<1>4. ASSUME NEW s \in Sessions, NEW p \in Plans, CallSubscribe(s, p) \/ CallChange(s, p)
      PROVE  IInv'
  BY <1>4, CallInv DEF CallSubscribe, CallChange
<1>5. ASSUME NEW s \in Sessions, CallCancel(s) \/ Step(s) \/ Crash(s) PROVE IInv'
  BY <1>5, CallInv, StepInv, CrashInv DEF CallCancel
<1>6. ASSUME NEW s \in Sessions, NEW e \in sent, Receive(s, e) PROVE IInv'
  BY <1>6, ReceiveInv
<1> QED BY <1>1, <1>2, <1>3, <1>4, <1>5, <1>6 DEF Next

LEMMA SpecInv == Spec => []IInv
  BY InitInv, NextInv, PTL DEF Spec

\* The rows, Stripe's subscriptions and the handlers keep their shape.
THEOREM SubscriptionsTypeCorrect == Spec => []TypeOK
  BY TypesFromInv, SpecInv, PTL

\* No order, repetition or loss of Stripe's events, and no overlap of the webhooks
\* with subscribe, change_plan and cancel_subscription, activates an unpaid plan.
THEOREM SubscriptionsPaidPlanWasPaid == Spec => []PaidPlanWasPaid
<1>1. IInv => PaidPlanWasPaid
  <2> SUFFICES ASSUME IInv PROVE PaidPlanWasPaid
    OBVIOUS
  <2> QED BY Types DEF PaidPlanWasPaid, Good, PaidFor
<1> QED BY <1>1, SpecInv, PTL

\* A row's Stripe id is one of a paid subscription to the row's own plan, even if it
\* is written over a row that was read before others changed it.
THEOREM SubscriptionsLinkedToItsPlan == Spec => []LinkedToItsPlan
<1>1. IInv => LinkedToItsPlan
  <2> SUFFICES ASSUME IInv PROVE LinkedToItsPlan
    OBVIOUS
  <2> QED BY Types DEF LinkedToItsPlan, Good, PaidFor
<1> QED BY <1>1, SpecInv, PTL
-----------------------------------------------------------------------------
(* What was cancelled *)

Revived(i) ==
  rows[i].status = "cancelled" /\ rows[i].stripe = 0 /\ rows'[i].status # "cancelled"

\* Rows that are added change none that is there.
LEMMA NoneByAppend ==
  ASSUME IInv, NEW new \in RowType, rows' = Append(rows, new), NEW i \in 1 .. Len(rows)
  PROVE  ~Revived(i)
  BY Types, AppendProperties DEF Revived

\* The UPDATEs of a status that IInv allows: to "cancelled", of a row with a Stripe id,
\* and of one that was read active and is written as active.
LEMMA NoneByUpdate ==
  ASSUME IInv, NEW j \in 1 .. Len(rows), NEW read, NEW v \in Statuses, NEW i \in 1 .. Len(rows),
         v = "cancelled" \/ read = v \/ rows[j].stripe # 0 \/ rows[j].status = "pending"
  PROVE  rows[i].status = "cancelled" /\ rows[i].stripe = 0 =>
           Updated(j, read, v)[i].status = "cancelled"
<1>1. PICK r \in RowType :
        /\ Updated(j, read, v) = SetRow(j, r)
        /\ r.status = IF read = v THEN rows[j].status ELSE v
  BY UpdatedRow
<1>2. SetRow(j, r)[i] = IF i = j THEN r ELSE rows[i]
  BY Types, ExceptSeq DEF SetRow
<1> QED BY <1>1, <1>2

LEMMA UpdatedLen ==
  ASSUME IInv, NEW j \in 1 .. Len(rows), NEW read, NEW v \in Statuses
  PROVE  /\ Updated(j, read, v) \in Seq(RowType) /\ Len(Updated(j, read, v)) = Len(rows)
         /\ DOMAIN Updated(j, read, v) = 1 .. Len(rows)
<1>1. PICK r \in RowType : Updated(j, read, v) = SetRow(j, r)
  BY UpdatedRow
<1>2. SetRow(j, r) \in Seq(RowType) /\ Len(SetRow(j, r)) = Len(rows)
  BY Types, ExceptSeq DEF SetRow
<1> QED BY <1>1, <1>2, LenProperties

LEMMA NoneByChange ==
  ASSUME IInv, NEW s \in Sessions, Change(s), NEW i \in 1 .. Len(rows)
  PROVE  ~Revived(i)
<1> DEFINE new == Row(mem[s].plan, "active")
           old == IF mem[s].row = 0 THEN rows ELSE Updated(mem[s].row, mem[s].read, "cancelled")
<1>1. new \in RowType /\ rows' = Append(old, new)
  <2>1. mem[s].plan \in Plans
    BY Types DEF Change, Known, CallerKnows, Plans
  <2> QED BY <2>1, FreshRow DEF Change, Statuses
<1> HIDE DEF new
<1>2. CASE mem[s].row = 0
  BY <1>1, <1>2, NoneByAppend
<1>3. CASE mem[s].row # 0
  <2>1. PICK j \in 1 .. Len(rows) : j = mem[s].row
    BY <1>3, Types DEF Known, MemType
  <2>2. PICK read : read = mem[s].read
    OBVIOUS
  <2>3. /\ old = Updated(j, read, "cancelled") /\ "cancelled" \in Statuses
    BY <1>3, <2>1, <2>2 DEF Statuses
  <2> HIDE DEF old
  <2>4. /\ old \in Seq(RowType) /\ Len(old) = Len(rows)
        /\ rows[i].status = "cancelled" /\ rows[i].stripe = 0 => old[i].status = "cancelled"
    BY <2>3, UpdatedLen, NoneByUpdate
  <2>5. rows'[i] = old[i]
    BY <1>1, <2>4, AppendProperties
  <2> QED BY <2>4, <2>5 DEF Revived
<1> QED BY <1>2, <1>3

LEMMA NoneByCancel ==
  ASSUME IInv, NEW s \in Sessions, Cancel(s), NEW i \in 1 .. Len(rows)
  PROVE  ~Revived(i)
<1>1. PICK j \in 1 .. Len(rows) : j = mem[s].row
  BY Types DEF Cancel, Known, MemType, CallerKnows
<1>2. CASE rows' = Updated(j, mem[s].read, "cancelled")
  <2>1. PICK read : read = mem[s].read
    OBVIOUS
  <2>2. "cancelled" \in Statuses
    BY DEF Statuses
  <2> QED BY <1>2, <2>1, <2>2, NoneByUpdate DEF Revived
<1>3. CASE UNCHANGED rows
  BY <1>3 DEF Revived
<1> QED BY <1>1, <1>2, <1>3 DEF Cancel

LEMMA NoneByLink ==
  ASSUME IInv, NEW s \in Sessions, Link(s), NEW i \in 1 .. Len(rows)
  PROVE  ~Revived(i)
<1>1. PICK j \in 1 .. Len(rows) :
        /\ j = mem[s].row
        /\ mem[s].read # "active" => rows[j].status = "pending" \/ rows[j].stripe # 0
  BY Types DEF Link, Known, MemType, HandlerKnows
<1>2. PICK read : read = mem[s].read
  OBVIOUS
<1> DEFINE new == Updated(j, read, "active")
<1>3. "active" \in Statuses
  BY DEF Statuses
<1>4. /\ DOMAIN new = 1 .. Len(rows)
      /\ rows[i].status = "cancelled" /\ rows[i].stripe = 0 => new[i].status = "cancelled"
      /\ new[i] \in RowType
  BY <1>1, <1>2, <1>3, NoneByUpdate, UpdatedLen, ElementOfSeq
<1>5. rows' = [new EXCEPT ![j].stripe = mem[s].event.of]
  BY <1>1, <1>2 DEF Link
<1> HIDE DEF new
<1>6. rows'[i].status = new[i].status
  BY <1>4, <1>5 DEF RowType
<1> QED BY <1>4, <1>6 DEF Revived

LEMMA NoneByWrite ==
  ASSUME IInv, NEW s \in Sessions, Write(s), NEW i \in 1 .. Len(rows)
  PROVE  ~Revived(i)
<1>1. PICK j \in 1 .. Len(rows) : j = mem[s].row /\ rows[j].stripe # 0
  BY Types DEF Write, Known, MemType, HandlerKnows
<1>2. PICK read \in Statuses : read = mem[s].read
  BY Types DEF Write, Known, HandlerKnows
<1>3. PICK v \in Statuses : v = StatusAfter(mem[s].event.kind, mem[s].read)
  BY <1>2, StatusAfterType
<1> DEFINE new == Updated(j, read, v)
<1>4. /\ DOMAIN new = 1 .. Len(rows)
      /\ rows[i].status = "cancelled" /\ rows[i].stripe = 0 => new[i].status = "cancelled"
      /\ new[i] \in RowType
  BY <1>1, NoneByUpdate, UpdatedLen, ElementOfSeq
<1>5. rows' = new
  BY <1>1, <1>2, <1>3 DEF Write
<1> QED BY <1>4, <1>5 DEF Revived

LEMMA NoneByStamp ==
  ASSUME IInv, NEW s \in Sessions, Stamp(s), NEW i \in 1 .. Len(rows)
  PROVE  ~Revived(i)
  BY Types DEF Stamp, Revived, RowType

LEMMA NoneByNext ==
  ASSUME IInv, Next, NEW i \in 1 .. Len(rows)
  PROVE  ~Revived(i)
<1>1. CASE UNCHANGED rows
  BY <1>1 DEF Revived
<1>2. ASSUME NEW p \in Plans, CreatePaid(p) PROVE ~Revived(i)
  BY <1>2, FreshRow, NoneByAppend DEF CreatePaid, PendingRow, Statuses
<1>3. ASSUME NEW s \in Sessions, Subscribe(s) PROVE ~Revived(i)
  <2>1. mem[s].plan \in Plans
    BY <1>3, Types DEF Subscribe, Known, CallerKnows, Plans
  <2> QED BY <1>3, <2>1, FreshRow, NoneByAppend DEF Subscribe, Statuses
<1>4. ASSUME NEW s \in Sessions, Insert(s) PROVE ~Revived(i)
  <2>1. stripe[mem[s].event.of].plan \in Plans
    BY <1>4, EventOf DEF Insert, OfWebhooks, Plans
  <2> QED BY <1>4, <2>1, FreshRow, NoneByAppend DEF Insert, Statuses
<1>5. ASSUME NEW s \in Sessions, Step(s) PROVE ~Revived(i)
  BY <1>1, <1>3, <1>4, <1>5, NoneByChange, NoneByCancel, NoneByLink, NoneByWrite, NoneByStamp
     DEF Step, Find, Check, Sync
<1>6. ASSUME NEW x \in DOMAIN stripe,
             CustomerPays(x) \/ ChargeFails(x) \/ ChargePaid(x) \/ StripeEnds(x)
      PROVE  UNCHANGED rows
  BY <1>6 DEF CustomerPays, ChargeFails, ChargePaid, StripeEnds, Happens
<1>7. ASSUME NEW s \in Sessions, CallCancel(s) \/ Crash(s) PROVE UNCHANGED rows
  BY <1>7 DEF CallCancel, Call, Crash
<1>8. ASSUME NEW s \in Sessions, NEW p \in Plans, CallSubscribe(s, p) \/ CallChange(s, p)
      PROVE  UNCHANGED rows
  BY <1>8 DEF CallSubscribe, CallChange, Call
<1>9. ASSUME NEW s \in Sessions, NEW e \in sent, Receive(s, e) PROVE UNCHANGED rows
  BY <1>9 DEF Receive, Begin
<1>10. ASSUME NEW p \in Plans, ChangePaid(p) PROVE UNCHANGED rows
  BY <1>10 DEF ChangePaid
<1> QED BY <1>1, <1>2, <1>5, <1>6, <1>7, <1>8, <1>9, <1>10 DEF Next

\* A subscription without a Stripe id that the agent has cancelled stays cancelled: a
\* webhook that read it active, or waiting, before writes nothing over it.
THEOREM SubscriptionsCancelledStays == Spec => CancelledStays
<1>1. IInv /\ [Next]_vars =>
        [\A i \in DOMAIN rows :
           rows[i].status = "cancelled" /\ rows[i].stripe = 0 => rows'[i].status = "cancelled"]_vars
  BY Types, NoneByNext DEF Revived
<1> QED BY <1>1, SpecInv, PTL DEF Spec, CancelledStays
=============================================================================
