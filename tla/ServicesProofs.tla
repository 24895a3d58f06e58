--------------------------- MODULE ServicesProofs ---------------------------
(***************************************************************************)
(* Proofs about the twenty services of MCServices, for every value of its  *)
(* constants.  Each service is proved on its own: a section per instance   *)
(* has the inductive invariant of that service (IInv), that its initial    *)
(* states satisfy it, one lemma for each of its actions, and what the      *)
(* invariant says of its properties (SpecInv).  The first section says     *)
(* that in every step of Next a service does a step of its own or none,    *)
(* and the last one joins the services' properties into those of Spec.     *)
(***************************************************************************)
EXTENDS MCServices, Sums, SequenceTheorems, FiniteSetTheorems, TLAPS
-----------------------------------------------------------------------------
(* Each service on its own: its initial states and its steps are those of its module. *)

LEMMA EventsStarts == Init => E!Init
  BY DEF Init
LEMMA EventsSteps == [Next]_vars => [E!Next]_(E!vars)
<1> SUFFICES ASSUME [Next]_vars PROVE E!Next \/ evars' = evars
  BY DEF evars, E!vars
<1> QED BY Zenon DEF Next, vars
LEMMA EventsRun == Spec => E!Init /\ [][E!Next]_(E!vars)
  BY EventsStarts, EventsSteps, PTL DEF Spec

LEMMA QueueStarts == Init => Q!Init
  BY DEF Init
LEMMA QueueSteps == [Next]_vars => [Q!Next]_(Q!vars)
<1> SUFFICES ASSUME [Next]_vars PROVE Q!Next \/ qvars' = qvars
  BY DEF qvars, Q!vars
<1> QED BY Zenon DEF Next, vars
LEMMA QueueRun == Spec => Q!Init /\ [][Q!Next]_(Q!vars)
  BY QueueStarts, QueueSteps, PTL DEF Spec

LEMMA TokensStarts == Init => R!Init
  BY DEF Init
LEMMA TokensSteps == [Next]_vars => [R!Next]_(R!vars)
<1> SUFFICES ASSUME [Next]_vars PROVE R!Next \/ rvars' = rvars
  BY DEF rvars, R!vars
<1> QED BY Zenon DEF Next, vars
LEMMA TokensRun == Spec => R!Init /\ [][R!Next]_(R!vars)
  BY TokensStarts, TokensSteps, PTL DEF Spec

LEMMA ChainsStarts == Init => C!Init
  BY DEF Init
LEMMA ChainsSteps == [Next]_vars => [C!Next]_(C!vars)
<1> SUFFICES ASSUME [Next]_vars PROVE C!Next \/ cvars' = cvars
  BY DEF cvars, C!vars
<1> QED BY Zenon DEF Next, vars
LEMMA ChainsRun == Spec => C!Init /\ [][C!Next]_(C!vars)
  BY ChainsStarts, ChainsSteps, PTL DEF Spec

LEMMA TasksStarts == Init => A!Init
  BY DEF Init
LEMMA TasksSteps == [Next]_vars => [A!Next]_(A!vars)
<1> SUFFICES ASSUME [Next]_vars PROVE A!Next \/ avars' = avars
  BY DEF avars, A!vars
<1> QED BY Zenon DEF Next, vars
LEMMA TasksRun == Spec => A!Init /\ [][A!Next]_(A!vars)
  BY TasksStarts, TasksSteps, PTL DEF Spec

LEMMA ActionsStarts == Init => X!Init
  BY DEF Init
LEMMA ActionsSteps == [Next]_vars => [X!Next]_(X!vars)
<1> SUFFICES ASSUME [Next]_vars PROVE X!Next \/ xvars' = xvars
  BY DEF xvars, X!vars
<1> QED BY Zenon DEF Next, vars
LEMMA ActionsRun == Spec => X!Init /\ [][X!Next]_(X!vars)
  BY ActionsStarts, ActionsSteps, PTL DEF Spec

LEMMA ServersStarts == Init => F!Init
  BY DEF Init
LEMMA ServersSteps == [Next]_vars => [F!Next]_(F!vars)
<1> SUFFICES ASSUME [Next]_vars PROVE F!Next \/ fvars' = fvars
  BY DEF fvars, F!vars
<1> QED BY Zenon DEF Next, vars
LEMMA ServersRun == Spec => F!Init /\ [][F!Next]_(F!vars)
  BY ServersStarts, ServersSteps, PTL DEF Spec

LEMMA BreakerStarts == Init => B!Init
  BY DEF Init
LEMMA BreakerSteps == [Next]_vars => [B!Next]_(B!vars)
<1> SUFFICES ASSUME [Next]_vars PROVE B!Next \/ bvars' = bvars
  BY DEF bvars, B!vars
<1> QED BY Zenon DEF Next, vars
LEMMA BreakerRun == Spec => B!Init /\ [][B!Next]_(B!vars)
  BY BreakerStarts, BreakerSteps, PTL DEF Spec

LEMMA RowsStarts == Init => L!Init
  BY DEF Init
LEMMA RowsSteps == [Next]_vars => [L!Next]_(L!vars)
<1> SUFFICES ASSUME [Next]_vars PROVE L!Next \/ lvars' = lvars
  BY DEF lvars, L!vars
<1> QED BY Zenon DEF Next, vars
LEMMA RowsRun == Spec => L!Init /\ [][L!Next]_(L!vars)
  BY RowsStarts, RowsSteps, PTL DEF Spec

LEMMA GrantsStarts == Init => O!Init
  BY DEF Init
LEMMA GrantsSteps == [Next]_vars => [O!Next]_(O!vars)
<1> SUFFICES ASSUME [Next]_vars PROVE O!Next \/ ovars' = ovars
  BY DEF ovars, O!vars
<1> QED BY Zenon DEF Next, vars
LEMMA GrantsRun == Spec => O!Init /\ [][O!Next]_(O!vars)
  BY GrantsStarts, GrantsSteps, PTL DEF Spec

LEMMA TrustStarts == Init => T!Init
  BY DEF Init
LEMMA TrustSteps == [Next]_vars => [T!Next]_(T!vars)
<1> SUFFICES ASSUME [Next]_vars PROVE T!Next \/ tvars' = tvars
  BY DEF tvars, T!vars
<1> QED BY Zenon DEF Next, vars
LEMMA TrustRun == Spec => T!Init /\ [][T!Next]_(T!vars)
  BY TrustStarts, TrustSteps, PTL DEF Spec

LEMMA InputsStarts == Init => U!Init
  BY DEF Init
LEMMA InputsSteps == [Next]_vars => [U!Next]_(U!vars)
<1> SUFFICES ASSUME [Next]_vars PROVE U!Next \/ uvars' = uvars
  BY DEF uvars, U!vars
<1> QED BY Zenon DEF Next, vars
LEMMA InputsRun == Spec => U!Init /\ [][U!Next]_(U!vars)
  BY InputsStarts, InputsSteps, PTL DEF Spec

LEMMA ContentsStarts == Init => D!Init
  BY DEF Init
LEMMA ContentsSteps == [Next]_vars => [D!Next]_(D!vars)
<1> SUFFICES ASSUME [Next]_vars PROVE D!Next \/ dvars' = dvars
  BY DEF dvars, D!vars
<1> QED BY Zenon DEF Next, vars
LEMMA ContentsRun == Spec => D!Init /\ [][D!Next]_(D!vars)
  BY ContentsStarts, ContentsSteps, PTL DEF Spec

LEMMA SnapshotsStarts == Init => S!Init
  BY DEF Init
LEMMA SnapshotsSteps == [Next]_vars => [S!Next]_(S!vars)
<1> SUFFICES ASSUME [Next]_vars PROVE S!Next \/ svars' = svars
  BY DEF svars, S!vars
<1> QED BY Zenon DEF Next, vars
LEMMA SnapshotsRun == Spec => S!Init /\ [][S!Next]_(S!vars)
  BY SnapshotsStarts, SnapshotsSteps, PTL DEF Spec

LEMMA VerdictsStarts == Init => V!Init
  BY DEF Init
LEMMA VerdictsSteps == [Next]_vars => [V!Next]_(V!vars)
<1> SUFFICES ASSUME [Next]_vars PROVE V!Next \/ vvars' = vvars
  BY DEF vvars, V!vars
<1> QED BY Zenon DEF Next, vars
LEMMA VerdictsRun == Spec => V!Init /\ [][V!Next]_(V!vars)
  BY VerdictsStarts, VerdictsSteps, PTL DEF Spec

LEMMA ShopStarts == Init => P!Init
  BY DEF Init
LEMMA ShopSteps == [Next]_vars => [P!Next]_(P!vars)
<1> SUFFICES ASSUME [Next]_vars PROVE P!Next \/ pvars' = pvars
  BY DEF pvars, P!vars
<1> QED BY Zenon DEF Next, vars
LEMMA ShopRun == Spec => P!Init /\ [][P!Next]_(P!vars)
  BY ShopStarts, ShopSteps, PTL DEF Spec

LEMMA HooksStarts == Init => H!Init
  BY DEF Init
LEMMA HooksSteps == [Next]_vars => [H!Next]_(H!vars)
<1> SUFFICES ASSUME [Next]_vars PROVE H!Next \/ hvars' = hvars
  BY DEF hvars, H!vars
<1> QED BY Zenon DEF Next, vars
LEMMA HooksRun == Spec => H!Init /\ [][H!Next]_(H!vars)
  BY HooksStarts, HooksSteps, PTL DEF Spec

LEMMA FeedsStarts == Init => W!Init
  BY DEF Init
LEMMA FeedsSteps == [Next]_vars => [W!Next]_(W!vars)
<1> SUFFICES ASSUME [Next]_vars PROVE W!Next \/ wvars' = wvars
  BY DEF wvars, W!vars
<1> QED BY Zenon DEF Next, vars
LEMMA FeedsRun == Spec => W!Init /\ [][W!Next]_(W!vars)
  BY FeedsStarts, FeedsSteps, PTL DEF Spec

LEMMA ClientsStarts == Init => Y!Init
  BY DEF Init
LEMMA ClientsSteps == [Next]_vars => [Y!Next]_(Y!vars)
<1> SUFFICES ASSUME [Next]_vars PROVE Y!Next \/ yvars' = yvars
  BY DEF yvars, Y!vars
<1> QED BY Zenon DEF Next, vars
LEMMA ClientsRun == Spec => Y!Init /\ [][Y!Next]_(Y!vars)
  BY ClientsStarts, ClientsSteps, PTL DEF Spec

LEMMA LimitsStarts == Init => G!Init
  BY DEF Init
LEMMA LimitsSteps == [Next]_vars => [G!Next]_(G!vars)
<1> SUFFICES ASSUME [Next]_vars PROVE G!Next \/ gvars' = gvars
  BY DEF gvars, G!vars
<1> QED BY Zenon DEF Next, vars
LEMMA LimitsRun == Spec => G!Init /\ [][G!Next]_(G!vars)
  BY LimitsStarts, LimitsSteps, PTL DEF Spec

-----------------------------------------------------------------------------
(* Chains: a settlement pays from the nodes of a run that has ended and no longer changes. *)

\* A run that has not ended has completed nothing: what is read later is final.
ChainsNotEnded(e) == chains[e].status \in {"free", "pending"}

\* What settlement s knows of its execution e: which nodes are left, and that each
\* other one with a price is paid or in hand, unless a transfer has failed.
ChainsKnowsAt(s) ==
  LET e == settlements[s].exec
      done == chains[e].completed
      todo == settlements[s].todo
      n == settlements[s].node IN
  ~C!At(s, "idle") =>
    /\ e \in Execs /\ ~ChainsNotEnded(e) /\ todo \subseteq done
    /\ C!At(s, "transfer") => n \in done \cap Priced
    /\ C!At(s, "settled") => todo = {} /\ ~settlements[s].failed
    /\ ~settlements[s].failed =>
         \A m \in (done \cap Priced) \ todo :
           transfers[e][m] = 1 \/ (C!At(s, "transfer") /\ m = n)

ChainsIInv ==
  /\ C!TypeOK /\ C!SettledMeansPaid
  /\ \A e \in Execs : ChainsNotEnded(e) => chains[e].completed = {}
  /\ \A s \in Settlers : ChainsKnowsAt(s)
-----------------------------------------------------------------------------
LEMMA ChainsInitInv == C!Init => ChainsIInv
  BY DEF C!Init, ChainsIInv, C!TypeOK, C!SettledMeansPaid, ChainsKnowsAt, ChainsNotEnded, C!At, C!NoRow, C!NotSettling

\* The types as the steps below use them, and what KnowsAt says of a settled one.
LEMMA ChainsTypes ==
  ASSUME ChainsIInv
  PROVE  /\ requests \in [Requests -> {"idle", "keyed", "free"}]
         /\ DOMAIN chains = Execs /\ DOMAIN settlements = Settlers
         /\ \A e \in Execs : transfers[e] \in [Nodes -> Nat]
         /\ \A e \in Execs : chains[e].completed \subseteq Nodes
         /\ \A s \in Settlers : settlements[s].pc \in {"idle", "next", "transfer", "settled", "partial"}
  BY DEF ChainsIInv, C!TypeOK

\* A settlement that does not move keeps what it knows, as long as a run that has
\* ended keeps its nodes and no transfer is taken back or made twice.
LEMMA ChainsKnowsFrame ==
  ASSUME ChainsIInv, NEW s \in Settlers, settlements'[s] = settlements[s],
         \A e \in Execs : ~ChainsNotEnded(e) =>
           ~ChainsNotEnded(e)' /\ chains'[e].completed = chains[e].completed,
         \A e \in Execs, n \in Nodes : transfers[e][n] = 1 => transfers'[e][n] = 1
  PROVE  ChainsKnowsAt(s)'
<1>1. ChainsKnowsAt(s)
  BY DEF ChainsIInv
<1>2. CASE C!At(s, "idle")
  BY <1>2 DEF ChainsKnowsAt, C!At
<1>3. CASE ~C!At(s, "idle")
  <2>1. settlements[s].exec \in Execs /\ ~ChainsNotEnded(settlements[s].exec)
    BY <1>1, <1>3 DEF ChainsKnowsAt
  <2>2. chains[settlements[s].exec].completed \subseteq Nodes
    BY <2>1, ChainsTypes
  <2> QED BY <1>1, <1>3, <2>1, <2>2 DEF ChainsKnowsAt, C!At
<1> QED BY <1>2, <1>3

\* What every settlement knows makes a settled one tell the truth.
LEMMA ChainsSettledFromKnows ==
  ASSUME NEW s \in Settlers, ChainsKnowsAt(s), C!At(s, "settled")
  PROVE  LET e == settlements[s].exec IN
         \A n \in chains[e].completed \cap Priced : transfers[e][n] = 1
  BY DEF ChainsKnowsAt, C!At

\* The half of SettledMeansPaid that is about the transfers alone.
ChainsPaidOnce ==
  \A e \in Execs, n \in Nodes :
    /\ transfers[e][n] <= 1
    /\ transfers[e][n] = 1 => n \in chains[e].completed \cap Priced

LEMMA ChainsAssemble ==
  ASSUME C!TypeOK', ChainsPaidOnce',
         \A e \in Execs : (ChainsNotEnded(e) => chains[e].completed = {})',
         \A s \in Settlers : ChainsKnowsAt(s)'
  PROVE  ChainsIInv'
<1>1. ASSUME NEW s \in Settlers, C!At(s, "settled")'
      PROVE  (LET e == settlements[s].exec IN
              \A n \in chains[e].completed \cap Priced : transfers[e][n] = 1)'
  BY <1>1 DEF ChainsKnowsAt, C!At
<1> QED BY <1>1 DEF ChainsIInv, C!SettledMeansPaid, ChainsPaidOnce
-----------------------------------------------------------------------------
(* The requests and the runs: they leave settlements and transfers alone *)

LEMMA ChainsRunsInv ==
  ASSUME ChainsIInv, UNCHANGED <<settlements, transfers>>, C!TypeOK',
         \A e \in Execs : ~ChainsNotEnded(e) =>
           ~ChainsNotEnded(e)' /\ chains'[e].completed = chains[e].completed,
         \A e \in Execs : (ChainsNotEnded(e) => chains[e].completed = {})'
  PROVE  ChainsIInv'
<1>1. ChainsPaidOnce'
  <2> SUFFICES ASSUME NEW e \in Execs, NEW n \in Nodes, transfers[e][n] = 1
      PROVE n \in chains'[e].completed \cap Priced
    BY DEF ChainsIInv, C!SettledMeansPaid, ChainsPaidOnce
  <2>1. n \in chains[e].completed \cap Priced /\ ~ChainsNotEnded(e)
    BY DEF ChainsIInv, C!SettledMeansPaid
  <2> QED BY <2>1
<1>2. \A s \in Settlers : ChainsKnowsAt(s)'
  BY ChainsKnowsFrame
<1> QED BY <1>1, <1>2, ChainsAssemble

LEMMA ChainsInsertInv == ASSUME ChainsIInv, NEW r \in Requests, C!Insert(r) PROVE ChainsIInv'
<1>1. requests' \in [Requests -> {"idle", "keyed", "free"}]
  BY ChainsTypes DEF C!Insert
<1>2. CASE UNCHANGED <<chains, runs>>
  <2>1. C!TypeOK'
    BY <1>1, <1>2 DEF C!Insert, ChainsIInv, C!TypeOK
  <2> QED BY <1>2, <2>1, ChainsRunsInv DEF C!Insert, ChainsIInv, ChainsNotEnded
<1>3. CASE ~UNCHANGED <<chains, runs>>
  <2>1. PICK e \in Execs, k \in BOOLEAN :
          /\ chains[e].status = "free" /\ runs' = runs \cup {e}
          /\ chains' = [chains EXCEPT ![e] = [key |-> k, status |-> "pending", completed |-> {}]]
    <3>1. (requests[r] = "keyed") \in BOOLEAN
      OBVIOUS
    <3> QED BY <1>3, <3>1, Zenon DEF C!Insert
  <2>2. C!TypeOK'
    BY <1>1, <2>1 DEF C!Insert, ChainsIInv, C!TypeOK
  <2>3. ASSUME NEW x \in Execs
        PROVE  /\ ~ChainsNotEnded(x) => ~ChainsNotEnded(x)' /\ chains'[x].completed = chains[x].completed
               /\ (ChainsNotEnded(x) => chains[x].completed = {})'
    BY <2>1 DEF ChainsIInv, C!TypeOK, ChainsNotEnded
  <2> QED BY <2>2, <2>3, ChainsRunsInv DEF C!Insert
<1> QED BY <1>2, <1>3

LEMMA ChainsAskInv == ASSUME ChainsIInv, NEW r \in Requests, NEW keyed \in BOOLEAN, C!Ask(r, keyed) PROVE ChainsIInv'
<1>1. C!TypeOK'
  BY DEF C!Ask, ChainsIInv, C!TypeOK
<1> QED BY <1>1, ChainsRunsInv DEF C!Ask, ChainsIInv, ChainsNotEnded

LEMMA ChainsRunEndsInv ==
  ASSUME ChainsIInv, NEW e \in Execs, NEW status \in C!Outcomes,
         NEW done \in SUBSET Nodes, C!RunEnds(e, status, done)
  PROVE  ChainsIInv'
<1> DEFINE Row == [key : BOOLEAN, completed : SUBSET Nodes,
                   status : {"free", "pending"} \cup C!Outcomes]
<1>0. chains' \in [Execs -> Row]
  <2>1. chains \in [Execs -> Row]
    BY DEF ChainsIInv, C!TypeOK
  <2>2. chains' = [chains EXCEPT ![e] = [@ EXCEPT !.status = status, !.completed = done]]
    BY <2>1 DEF C!RunEnds
  <2>3. [chains[e] EXCEPT !.status = status, !.completed = done] \in Row
    BY <2>1
  <2> QED BY <2>1, <2>2, <2>3
<1>1. C!TypeOK'
  BY <1>0 DEF C!RunEnds, ChainsIInv, C!TypeOK
<1>2. ASSUME NEW x \in Execs
      PROVE  /\ ~ChainsNotEnded(x) => ~ChainsNotEnded(x)' /\ chains'[x].completed = chains[x].completed
             /\ (ChainsNotEnded(x) => chains[x].completed = {})'
  BY DEF C!RunEnds, ChainsIInv, C!TypeOK, ChainsNotEnded
<1> QED BY <1>1, <1>2, ChainsRunsInv DEF C!RunEnds

LEMMA ChainsStatisticsInv ==
  ASSUME ChainsIInv, NEW e \in Execs, NEW ok \in BOOLEAN, C!Statistics(e, ok) PROVE ChainsIInv'
<1> DEFINE Row == [key : BOOLEAN, completed : SUBSET Nodes,
                   status : {"free", "pending"} \cup C!Outcomes]
<1>0. chains' \in [Execs -> Row]
  <2>1. chains \in [Execs -> Row]
    BY DEF ChainsIInv, C!TypeOK
  <2>2. CASE ok
    BY <2>1, <2>2 DEF C!Statistics
  <2>3. CASE ~ok
    <3>1. chains' = [chains EXCEPT ![e] = [@ EXCEPT !.status = "failed"]]
      BY <2>1, <2>3 DEF C!Statistics
    <3>2. [chains[e] EXCEPT !.status = "failed"] \in Row
      BY <2>1 DEF C!Outcomes
    <3> QED BY <2>1, <3>1, <3>2
  <2> QED BY <2>2, <2>3
<1>1. C!TypeOK'
  BY <1>0 DEF C!Statistics, ChainsIInv, C!TypeOK
<1>2. CASE ok
  BY <1>1, <1>2, ChainsRunsInv DEF C!Statistics, ChainsIInv, ChainsNotEnded
<1>3. CASE ~ok
  <2>1. chains[e].status \notin {"free", "pending"} \/ chains[e].completed = {}
    BY DEF ChainsIInv, ChainsNotEnded
  <2>2. ASSUME NEW x \in Execs
        PROVE  /\ ~ChainsNotEnded(x) => ~ChainsNotEnded(x)' /\ chains'[x].completed = chains[x].completed
               /\ (ChainsNotEnded(x) => chains[x].completed = {})'
    BY <1>3, <2>1 DEF C!Statistics, ChainsIInv, C!TypeOK, ChainsNotEnded
  <2> QED BY <1>1, <1>3, <2>2, ChainsRunsInv DEF C!Statistics
<1> QED BY <1>2, <1>3

LEMMA ChainsStopInv == ASSUME ChainsIInv, NEW e \in Execs, C!Stop(e) PROVE ChainsIInv'
<1>1. C!TypeOK'
  BY DEF C!Stop, ChainsIInv, C!TypeOK
<1> QED BY <1>1, ChainsRunsInv DEF C!Stop, ChainsIInv, ChainsNotEnded
-----------------------------------------------------------------------------
(* The steps of a settlement *)

\* A step of settlement s alone, which leaves the runs alone: what is left to show is
\* what the transfers are and what s knows afterwards.
LEMMA ChainsSettlerInv ==
  ASSUME ChainsIInv, NEW s \in Settlers, UNCHANGED <<requests, chains, runs>>,
         NEW record \in [pc : {"idle", "next", "transfer", "settled", "partial"},
                      exec : Execs \cup {None}, todo : SUBSET Nodes,
                      node : Nodes \cup {None}, failed : BOOLEAN],
         settlements' = [settlements EXCEPT ![s] = record],
         transfers' \in [Execs -> [Nodes -> Nat]], ChainsPaidOnce', ChainsKnowsAt(s)',
         \A e \in Execs, n \in Nodes : transfers[e][n] = 1 => transfers'[e][n] = 1
  PROVE  ChainsIInv'
<1>1. C!TypeOK'
  BY DEF ChainsIInv, C!TypeOK
<1>2. \A e \in Execs : ~ChainsNotEnded(e) => ~ChainsNotEnded(e)' /\ chains'[e].completed = chains[e].completed
  BY DEF ChainsNotEnded
<1>3. \A e \in Execs : (ChainsNotEnded(e) => chains[e].completed = {})'
  BY DEF ChainsIInv, ChainsNotEnded
<1>4. ASSUME NEW t \in Settlers, t # s PROVE ChainsKnowsAt(t)'
  <2>1. settlements'[t] = settlements[t]
    BY <1>4, ChainsTypes
  <2> QED BY <1>2, <2>1, ChainsKnowsFrame
<1> QED BY <1>1, <1>3, <1>4, ChainsAssemble

LEMMA ChainsPaidOnceHolds == ChainsIInv => ChainsPaidOnce
  BY DEF ChainsIInv, C!SettledMeansPaid, ChainsPaidOnce

\* A step that ends the settlement, wherever it was.
LEMMA ChainsIdleInv ==
  ASSUME ChainsIInv, NEW s \in Settlers, UNCHANGED <<requests, chains, runs, transfers>>,
         settlements' = [settlements EXCEPT ![s] = C!NotSettling]
  PROVE  ChainsIInv'
<1>1. C!NotSettling \in [pc : {"idle", "next", "transfer", "settled", "partial"},
                       exec : Execs \cup {None}, todo : SUBSET Nodes,
                       node : Nodes \cup {None}, failed : BOOLEAN]
  BY DEF C!NotSettling
<1>2. ChainsKnowsAt(s)'
  BY ChainsTypes DEF ChainsKnowsAt, C!At, C!NotSettling
<1>3. transfers' \in [Execs -> [Nodes -> Nat]] /\ ChainsPaidOnce'
  BY ChainsPaidOnceHolds DEF ChainsIInv, C!TypeOK, ChainsPaidOnce
<1> QED BY <1>1, <1>2, <1>3, ChainsSettlerInv

LEMMA ChainsBeginInv == ASSUME ChainsIInv, NEW s \in Settlers, NEW e \in Execs, C!Begin(s, e) PROVE ChainsIInv'
<1> DEFINE record == [C!NotSettling EXCEPT !.pc = "next", !.exec = e, !.todo = chains[e].completed]
<1>1. /\ record \in [pc : {"idle", "next", "transfer", "settled", "partial"},
                  exec : Execs \cup {None}, todo : SUBSET Nodes,
                  node : Nodes \cup {None}, failed : BOOLEAN]
      /\ record.pc = "next" /\ record.exec = e /\ record.todo = chains[e].completed
  BY ChainsTypes DEF C!NotSettling
<1>2. ChainsKnowsAt(s)'
  <2>1. settlements'[s] = record /\ chains' = chains
    BY ChainsTypes DEF C!Begin
  <2>2. ~ChainsNotEnded(e)
    BY DEF C!Begin, ChainsNotEnded
  <2> HIDE DEF record
  <2> QED BY <1>1, <2>1, <2>2 DEF ChainsKnowsAt, C!At, ChainsNotEnded
<1>3. transfers' \in [Execs -> [Nodes -> Nat]] /\ ChainsPaidOnce'
  BY ChainsPaidOnceHolds DEF C!Begin, ChainsIInv, C!TypeOK, ChainsPaidOnce
<1>4. settlements' = [settlements EXCEPT ![s] = record]
  BY DEF C!Begin
<1> HIDE DEF record
<1> QED BY <1>1, <1>2, <1>3, <1>4, ChainsSettlerInv DEF C!Begin

\* What the active settlement s works with.
LEMMA ChainsActive ==
  ASSUME ChainsIInv, NEW s \in Settlers, ~C!At(s, "idle")
  PROVE  /\ settlements[s].exec \in Execs /\ ~ChainsNotEnded(settlements[s].exec)
         /\ chains[settlements[s].exec].completed \subseteq Nodes
         /\ settlements[s].todo \subseteq chains[settlements[s].exec].completed
         /\ ChainsKnowsAt(s)
<1>1. ChainsKnowsAt(s)
  BY DEF ChainsIInv
<1> QED BY <1>1, ChainsTypes DEF ChainsKnowsAt

LEMMA ChainsSelectInv == ASSUME ChainsIInv, NEW s \in Settlers, NEW n \in Nodes, C!Select(s, n) PROVE ChainsIInv'
<1> DEFINE e == settlements[s].exec
           free == n \notin Priced \/ C!KeyTaken(e, n)
           record == [settlements[s] EXCEPT !.todo = @ \ {n},
                                         !.pc = IF free THEN "next" ELSE "transfer",
                                         !.node = IF free THEN None ELSE n]
<1>1. settlements' = [settlements EXCEPT ![s] = record] /\ UNCHANGED <<requests, chains, runs, transfers>>
  BY ChainsTypes DEF C!Select
<1>2. record \in [pc : {"idle", "next", "transfer", "settled", "partial"},
               exec : Execs \cup {None}, todo : SUBSET Nodes,
               node : Nodes \cup {None}, failed : BOOLEAN]
  BY DEF ChainsIInv, C!TypeOK
<1>3. /\ C!At(s, "next") /\ ~C!At(s, "idle") /\ ~C!At(s, "transfer") /\ n \in settlements[s].todo
      /\ settlements[s] \in [pc : {"idle", "next", "transfer", "settled", "partial"},
               exec : Execs \cup {None}, todo : SUBSET Nodes,
               node : Nodes \cup {None}, failed : BOOLEAN]
  BY DEF C!Select, C!At, ChainsIInv, C!TypeOK
<1>4. e \in Execs /\ ~ChainsNotEnded(e) /\ n \in chains[e].completed /\ ChainsKnowsAt(s)
      /\ settlements[s].todo \subseteq chains[e].completed
  BY <1>3, ChainsActive
<1>5. /\ record.exec = e /\ record.todo = settlements[s].todo \ {n}
      /\ record.failed = settlements[s].failed
      /\ record.pc = (IF free THEN "next" ELSE "transfer") /\ record.node = (IF free THEN None ELSE n)
  BY <1>3
<1>6. n \in Priced /\ C!KeyTaken(e, n) => transfers[e][n] = 1
  <2>1. transfers[e][n] \in Nat /\ transfers[e][n] <= 1
    BY <1>4, ChainsTypes, ChainsPaidOnceHolds DEF ChainsPaidOnce
  <2> QED BY <2>1 DEF C!KeyTaken
<1>7. ChainsKnowsAt(s)'
  <2>1. settlements'[s] = record /\ chains' = chains /\ transfers' = transfers
    BY <1>1, ChainsTypes
  <2>2. free \/ (~free /\ n \in Priced)
    OBVIOUS
  <2> HIDE DEF record, free
  <2>3. ~settlements[s].failed =>
          \A m \in (chains[e].completed \cap Priced) \ settlements[s].todo : transfers[e][m] = 1
    BY <1>3, <1>4 DEF ChainsKnowsAt
  <2>4. n \in Priced /\ free => transfers[e][n] = 1
    BY <1>6 DEF free
  <2> QED BY <1>3, <1>4, <1>5, <2>1, <2>2, <2>3, <2>4 DEF ChainsKnowsAt, C!At, ChainsNotEnded
<1>8. transfers' \in [Execs -> [Nodes -> Nat]] /\ ChainsPaidOnce'
  BY <1>1, ChainsPaidOnceHolds DEF ChainsIInv, C!TypeOK, ChainsPaidOnce
<1> HIDE DEF record
<1> QED BY <1>1, <1>2, <1>7, <1>8, ChainsSettlerInv

LEMMA ChainsPayInv == ASSUME ChainsIInv, NEW s \in Settlers, C!Pay(s) PROVE ChainsIInv'
<1> DEFINE e == settlements[s].exec
           n == settlements[s].node
           record == [settlements[s] EXCEPT !.pc = "next", !.node = None]
<1>1. CASE C!KeyTaken(e, n)
  BY <1>1, ChainsIdleInv DEF C!Pay
<1>2. CASE ~C!KeyTaken(e, n)
  <2>1. /\ settlements' = [settlements EXCEPT ![s] = record] /\ UNCHANGED <<requests, chains, runs>>
        /\ transfers' = [transfers EXCEPT ![e][n] = @ + 1]
    BY <1>2, ChainsTypes DEF C!Pay
  <2>2. /\ C!At(s, "transfer") /\ ~C!At(s, "idle")
        /\ settlements[s] \in [pc : {"idle", "next", "transfer", "settled", "partial"},
                 exec : Execs \cup {None}, todo : SUBSET Nodes,
                 node : Nodes \cup {None}, failed : BOOLEAN]
    BY DEF C!Pay, C!At, ChainsIInv, C!TypeOK
  <2>3. /\ e \in Execs /\ ~ChainsNotEnded(e) /\ settlements[s].todo \subseteq chains[e].completed
        /\ ChainsKnowsAt(s) /\ n \in chains[e].completed \cap Priced /\ n \in Nodes
    BY <2>2, ChainsActive DEF ChainsKnowsAt
  <2>4. transfers[e][n] = 0
    <3>1. transfers[e][n] \in Nat
      BY <2>3, ChainsTypes
    <3> QED BY <1>2, <3>1 DEF C!KeyTaken
  <2>5. record \in [pc : {"idle", "next", "transfer", "settled", "partial"},
                 exec : Execs \cup {None}, todo : SUBSET Nodes,
                 node : Nodes \cup {None}, failed : BOOLEAN]
    BY <2>2
  <2>6. /\ record.exec = e /\ record.todo = settlements[s].todo
        /\ record.failed = settlements[s].failed /\ record.pc = "next"
    BY <2>2
  <2> HIDE DEF record
  <2>7. transfers' \in [Execs -> [Nodes -> Nat]] /\ transfers'[e][n] = 1
    BY <2>1, <2>3, <2>4 DEF ChainsIInv, C!TypeOK
  <2>8. \A x \in Execs, m \in Nodes : ~(x = e /\ m = n) => transfers'[x][m] = transfers[x][m]
    BY <2>1, <2>3 DEF ChainsIInv, C!TypeOK
  <2>9. ChainsPaidOnce'
    BY <2>1, <2>3, <2>7, <2>8, ChainsPaidOnceHolds DEF ChainsPaidOnce
  <2>10. ChainsKnowsAt(s)'
    <3>1. settlements'[s] = record /\ chains' = chains
      BY <2>1, ChainsTypes
    <3>2. ~settlements[s].failed =>
            \A m \in (chains[e].completed \cap Priced) \ settlements[s].todo : transfers'[e][m] = 1
      BY <2>2, <2>3, <2>7, <2>8, ChainsTypes DEF ChainsKnowsAt
    <3> QED BY <2>3, <2>6, <3>1, <3>2 DEF ChainsKnowsAt, C!At, ChainsNotEnded
  <2>11. \A x \in Execs, m \in Nodes : transfers[x][m] = 1 => transfers'[x][m] = 1
    BY <2>7, <2>8
  <2> QED BY <2>1, <2>5, <2>7, <2>9, <2>10, <2>11, ChainsSettlerInv
<1> QED BY <1>1, <1>2

\* A step that moves settlement s, which stays with its execution and its nodes.
LEMMA ChainsMoveInv ==
  ASSUME ChainsIInv, NEW s \in Settlers, ~C!At(s, "idle"), UNCHANGED <<requests, chains, runs, transfers>>,
         NEW pc \in {"next", "settled", "partial"}, NEW node \in Nodes \cup {None},
         NEW raised \in BOOLEAN,
         settlements' = [settlements EXCEPT ![s].pc = pc, ![s].node = node, ![s].failed = raised],
         ~raised => ~settlements[s].failed /\ ~C!At(s, "transfer"),
         pc = "settled" => ~raised /\ settlements[s].todo = {}
  PROVE  ChainsIInv'
<1> DEFINE record == [settlements[s] EXCEPT !.pc = pc, !.node = node, !.failed = raised]
<1>1. settlements' = [settlements EXCEPT ![s] = record]
  BY ChainsTypes
<1>2. settlements[s] \in [pc : {"idle", "next", "transfer", "settled", "partial"},
               exec : Execs \cup {None}, todo : SUBSET Nodes,
               node : Nodes \cup {None}, failed : BOOLEAN]
  BY DEF ChainsIInv, C!TypeOK
<1>3. record \in [pc : {"idle", "next", "transfer", "settled", "partial"},
               exec : Execs \cup {None}, todo : SUBSET Nodes,
               node : Nodes \cup {None}, failed : BOOLEAN]
  BY <1>2
<1>4. /\ record.exec = settlements[s].exec /\ record.todo = settlements[s].todo
      /\ record.failed = raised /\ record.pc = pc
  BY <1>2
<1> HIDE DEF record
<1>5. ChainsKnowsAt(s)'
  <2>1. settlements'[s] = record /\ chains' = chains /\ transfers' = transfers
    BY <1>1, ChainsTypes
  <2>2. /\ settlements[s].exec \in Execs /\ ~ChainsNotEnded(settlements[s].exec)
        /\ settlements[s].todo \subseteq chains[settlements[s].exec].completed
    BY ChainsActive
  <2>3. ~raised => \A m \in (chains[settlements[s].exec].completed \cap Priced)
                               \ settlements[s].todo : transfers[settlements[s].exec][m] = 1
    BY ChainsActive DEF ChainsKnowsAt
  <2> QED BY <1>4, <2>1, <2>2, <2>3 DEF ChainsKnowsAt, C!At, ChainsNotEnded
<1>6. transfers' \in [Execs -> [Nodes -> Nat]] /\ ChainsPaidOnce'
  BY ChainsPaidOnceHolds DEF ChainsIInv, C!TypeOK, ChainsPaidOnce
<1> QED BY <1>1, <1>3, <1>5, <1>6, ChainsSettlerInv

LEMMA ChainsFailInv == ASSUME ChainsIInv, NEW s \in Settlers, C!Fail(s) PROVE ChainsIInv'
<1>1. ~C!At(s, "idle") /\ UNCHANGED <<requests, chains, runs, transfers>>
  BY DEF C!Fail, C!At
<1>2. settlements' = [settlements EXCEPT ![s].pc = "next", ![s].node = None, ![s].failed = TRUE]
  BY DEF C!Fail
<1> QED BY <1>1, <1>2, ChainsMoveInv

LEMMA ChainsAnswerInv == ASSUME ChainsIInv, NEW s \in Settlers, C!Answer(s) PROVE ChainsIInv'
<1> DEFINE pc == IF settlements[s].failed THEN "partial" ELSE "settled"
<1>1. ~C!At(s, "idle") /\ ~C!At(s, "transfer") /\ UNCHANGED <<requests, chains, runs, transfers>>
  BY DEF C!Answer, C!At
<1>2. /\ settlements' = [settlements EXCEPT ![s].pc = pc]
      /\ settlements[s] \in [pc : {"idle", "next", "transfer", "settled", "partial"},
               exec : Execs \cup {None}, todo : SUBSET Nodes,
               node : Nodes \cup {None}, failed : BOOLEAN]
  BY DEF C!Answer, ChainsIInv, C!TypeOK
<1>3. /\ pc \in {"next", "settled", "partial"}
      /\ pc = "settled" => ~settlements[s].failed /\ settlements[s].todo = {}
  BY DEF C!Answer
<1> HIDE DEF pc
<1>4. settlements' = [settlements EXCEPT ![s].pc = pc, ![s].node = settlements[s].node,
                                         ![s].failed = settlements[s].failed]
  <2>1. [settlements[s] EXCEPT !.pc = pc]
          = [settlements[s] EXCEPT !.pc = pc, !.node = settlements[s].node,
                                   !.failed = settlements[s].failed]
    BY <1>2
  <2> QED BY <1>2, <2>1, ChainsTypes
<1>5. settlements[s].node \in Nodes \cup {None} /\ settlements[s].failed \in BOOLEAN
  BY <1>2
<1> QED BY <1>1, <1>2, <1>3, <1>4, <1>5, ChainsMoveInv

LEMMA ChainsLeaveInv == ASSUME ChainsIInv, NEW s \in Settlers, C!Leave(s) PROVE ChainsIInv'
  BY ChainsIdleInv DEF C!Leave
-----------------------------------------------------------------------------
LEMMA ChainsStutterInv == ChainsIInv /\ UNCHANGED C!vars => ChainsIInv'
<1> SUFFICES ASSUME ChainsIInv, UNCHANGED C!vars PROVE ChainsIInv'
  OBVIOUS
<1>1. C!TypeOK'
  BY DEF ChainsIInv, C!TypeOK, C!vars
<1> QED BY <1>1, ChainsRunsInv DEF C!vars, ChainsIInv, ChainsNotEnded

LEMMA ChainsNextInv == ChainsIInv /\ [C!Next]_(C!vars) => ChainsIInv'
<1> SUFFICES ASSUME ChainsIInv, [C!Next]_(C!vars) PROVE ChainsIInv'
  OBVIOUS
<1>1. CASE UNCHANGED C!vars
  BY <1>1, ChainsStutterInv
<1>2. ASSUME NEW r \in Requests, C!Insert(r) \/ \E keyed \in BOOLEAN : C!Ask(r, keyed) PROVE ChainsIInv'
  BY <1>2, ChainsInsertInv, ChainsAskInv
<1>3. ASSUME NEW e \in Execs,
             \/ \E done \in SUBSET Nodes, status \in C!Outcomes : C!RunEnds(e, status, done)
             \/ \E ok \in BOOLEAN : C!Statistics(e, ok)
             \/ C!Stop(e)
      PROVE  ChainsIInv'
  BY <1>3, ChainsRunEndsInv, ChainsStatisticsInv, ChainsStopInv
<1>4. ASSUME NEW s \in Settlers,
             \/ \E e \in Execs : C!Begin(s, e)
             \/ \E n \in Nodes : C!Select(s, n)
             \/ C!Pay(s) \/ C!Fail(s) \/ C!Answer(s) \/ C!Leave(s)
      PROVE  ChainsIInv'
  BY <1>4, ChainsBeginInv, ChainsSelectInv, ChainsPayInv, ChainsFailInv, ChainsAnswerInv, ChainsLeaveInv
<1> QED BY <1>1, <1>2, <1>3, <1>4 DEF C!Next

LEMMA ChainsSpecInv == C!Spec => []ChainsIInv
  BY ChainsInitInv, ChainsNextInv, PTL DEF C!Spec

\* The tables, the tasks and the settlements keep their shape in every run of
\* execute_chain and settle_chain_execution.
THEOREM ChainsTypeCorrect == C!Spec => []C!TypeOK
<1>1. ChainsIInv => C!TypeOK
  BY DEF ChainsIInv
<1> QED BY <1>1, ChainsSpecInv, PTL

\* However many settlements of an execution run at once, are repeated, or end half
\* way, settle_chain_execution pays a node once at most and only after it completed,
\* and an answer "settled" means every priced node of the execution is paid.
THEOREM ChainsSettledMeansPaid == C!Spec => []C!SettledMeansPaid
<1>1. ChainsIInv => C!SettledMeansPaid
  BY DEF ChainsIInv
<1> QED BY <1>1, ChainsSpecInv, PTL

\* The nodes that _run_chain wrote for an execution never change once it has ended,
\* so that two settlements, however far apart, pay for the same set of nodes.
THEOREM ChainsCompletedIsFinal ==
  C!Spec => [][\A e \in Execs : ~ChainsNotEnded(e) => chains'[e].completed = chains[e].completed]_(C!vars)
<1>1. ChainsIInv /\ [C!Next]_(C!vars) =>
        [\A e \in Execs : ~ChainsNotEnded(e) => chains'[e].completed = chains[e].completed]_(C!vars)
  <2> SUFFICES ASSUME ChainsIInv, C!Next, NEW e \in Execs, ~ChainsNotEnded(e)
               PROVE  chains'[e].completed = chains[e].completed
    BY DEF C!vars
  <2>0. chains \in [Execs -> [key : BOOLEAN, completed : SUBSET Nodes,
                              status : {"free", "pending"} \cup C!Outcomes]]
    BY DEF ChainsIInv, C!TypeOK
  <2>1. CASE UNCHANGED chains
    BY <2>1
  <2>2. ASSUME NEW r \in Requests, C!Insert(r) PROVE chains'[e].completed = chains[e].completed
    BY <2>0, <2>2 DEF C!Insert, ChainsNotEnded
  <2>3. ASSUME NEW x \in Execs, NEW done, NEW status, C!RunEnds(x, status, done)
        PROVE  chains'[e].completed = chains[e].completed
    BY <2>0, <2>3 DEF C!RunEnds, ChainsNotEnded
  <2>4. ASSUME NEW x \in Execs, NEW ok \in BOOLEAN, C!Statistics(x, ok)
        PROVE  chains'[e].completed = chains[e].completed
    BY <2>0, <2>4 DEF C!Statistics
  <2> QED BY <2>1, <2>2, <2>3, <2>4
        DEF C!Next, C!Ask, C!Stop, C!Begin, C!Select, C!Pay, C!Fail, C!Answer, C!Leave
<1> QED BY <1>1, ChainsSpecInv, PTL DEF C!Spec
-----------------------------------------------------------------------------
(* ActionExecution: the row knows whether its hold is still to be captured or released. *)

ActionsOutcome(record) ==
  /\ record.status = "completed" => record.payment = IF record.verified THEN "captured" ELSE "released"
  /\ record.status = "failed" => record.payment = "released"
  /\ record.payment = "captured" => record.status = "completed"

\* A view of the funds as released is never stale: nobody but the executor that holds
\* the view would capture them.
ActionsReleasedIsFresh(x) == executors[x].view.payment = "released" => actions[x].payment = "released"

\* What the executor of x knows: before its second commit nothing is verified or
\* captured; after it, its view is a completed row that a cancellation may have failed.
ActionsExecutorKnows(x) ==
  LET record == actions[x]
      pc == executors[x].pc
      view == executors[x].view IN
  /\ pc = "idle" => record.status = "none" /\ record.payment = "held" /\ ~record.verified
  /\ pc # "idle" => record.status # "none"
  /\ pc \in {"created", "refreshed", "executing"} =>
       ~record.verified /\ record.payment # "captured" /\ record.status # "completed"
  /\ pc \in {"created", "refreshed"} => record.status \in {"pending", "failed"}
  /\ pc \in {"refreshed", "executing"} =>
       ~view.verified /\ view.payment # "captured" /\ ActionsReleasedIsFresh(x)
  /\ pc = "refreshed" => view.status \in {"pending", "failed"}
  /\ pc = "executing" => view.status = "executing"
  /\ pc = "committed" => /\ view.status = "completed" /\ ActionsReleasedIsFresh(x)

\* What a canceller knows: the row was pending, with its funds held, when it was read.
ActionsCancellerKnows(c) ==
  cancels[c].pc = "write" =>
    /\ cancels[c].of \in Executions
    /\ cancels[c].view.status = "pending" /\ cancels[c].view.payment = "held"
    /\ ~cancels[c].view.verified
    /\ actions[cancels[c].of].status # "none"

ActionsIInv ==
  /\ X!TypeOK
  /\ \A x \in Executions :
       /\ ActionsOutcome(actions[x]) /\ ActionsExecutorKnows(x)
       /\ actions[x].status = "pending" => actions[x].payment = "held" /\ ~actions[x].verified
  /\ \A c \in Cancellers : ActionsCancellerKnows(c)
-----------------------------------------------------------------------------
LEMMA ActionsInitInv == X!Init => ActionsIInv
  BY DEF X!Init, ActionsIInv, X!TypeOK, ActionsOutcome, ActionsExecutorKnows, ActionsCancellerKnows, ActionsReleasedIsFresh,
         X!NoAction, X!NotRunning, X!NoCancel, X!Rows

LEMMA ActionsTypes ==
  ASSUME ActionsIInv
  PROVE  /\ actions \in [Executions -> X!Rows]
         /\ executors \in [Executions ->
              [pc : {"idle", "created", "refreshed", "executing", "committed", "done"}, view : X!Rows]]
         /\ cancels \in [Cancellers ->
              [pc : {"idle", "write"}, of : Executions \cup {None}, view : X!Rows]]
  BY DEF ActionsIInv, X!TypeOK

\* An UPDATE column by column.
LEMMA ActionsWriteColumns ==
  ASSUME NEW record \in X!Rows, NEW view \in X!Rows, NEW new \in X!Rows
  PROVE  LET w == X!Write(record, view, new) IN
         /\ w \in X!Rows
         /\ w.status = IF new.status = view.status THEN record.status ELSE new.status
         /\ w.payment = IF new.payment = view.payment THEN record.payment ELSE new.payment
         /\ w.verified = IF new.verified = view.verified THEN record.verified ELSE new.verified
<1>1. DOMAIN record = {"status", "payment", "verified"}
  BY DEF X!Rows
<1> QED BY <1>1 DEF X!Write, X!Rows

\* A step on execution x leaves what is known of the other executions alone.
LEMMA ActionsOneExecution ==
  ASSUME ActionsIInv, NEW x \in Executions, NEW record \in X!Rows, NEW view,
         NEW pc \in {"created", "refreshed", "executing", "committed", "done"},
         actions' = [actions EXCEPT ![x] = record],
         executors' = [executors EXCEPT ![x] = [pc |-> pc, view |-> view]],
         cancels' = cancels, X!TypeOK', ActionsOutcome(record), record.status # "none",
         record.status = "pending" => record.payment = "held" /\ ~record.verified,
         ActionsExecutorKnows(x)'
  PROVE  ActionsIInv'
<1>1. actions'[x] = record /\ \A y \in Executions \ {x} :
        actions'[y] = actions[y] /\ executors'[y] = executors[y]
  BY ActionsTypes
<1>2. ASSUME NEW y \in Executions
      PROVE  /\ ActionsOutcome(actions'[y]) /\ ActionsExecutorKnows(y)'
             /\ actions'[y].status = "pending" => actions'[y].payment = "held" /\ ~actions'[y].verified
  <2>1. CASE y = x
    BY <1>1, <2>1
  <2>2. CASE y # x
    BY <1>1, <2>2 DEF ActionsIInv, ActionsExecutorKnows, ActionsReleasedIsFresh
  <2> QED BY <2>1, <2>2
<1>3. ASSUME NEW c \in Cancellers PROVE ActionsCancellerKnows(c)'
  BY <1>1 DEF ActionsIInv, ActionsCancellerKnows
<1>4. \A y \in Executions : ActionsOutcome(actions[y])'
  BY <1>2 DEF ActionsOutcome
<1> QED BY <1>2, <1>3, <1>4 DEF ActionsIInv
-----------------------------------------------------------------------------
LEMMA ActionsCreateInv == ASSUME ActionsIInv, NEW x \in Executions, X!Create(x) PROVE ActionsIInv'
<1> DEFINE record == [actions[x] EXCEPT !.status = "pending"]
<1>1. actions[x] \in X!Rows /\ actions[x].payment = "held" /\ ~actions[x].verified
  BY ActionsTypes DEF X!Create, ActionsIInv, ActionsExecutorKnows
<1>2. record.status = "pending" /\ record.payment = "held" /\ ~record.verified /\ record \in X!Rows
  BY <1>1 DEF X!Rows
<1>3. /\ actions' = [actions EXCEPT ![x] = record]
      /\ executors' = [executors EXCEPT ![x] = [pc |-> "created", view |-> executors[x].view]]
      /\ cancels' = cancels
  <2>1. [executors[x] EXCEPT !.pc = "created"] = [pc |-> "created", view |-> executors[x].view]
    BY ActionsTypes
  <2> QED BY <2>1, ActionsTypes DEF X!Create
<1> HIDE DEF record
<1>4. X!TypeOK'
  BY <1>2, <1>3, ActionsTypes DEF X!TypeOK
<1>5. ActionsExecutorKnows(x)'
  BY <1>2, <1>3, ActionsTypes DEF ActionsExecutorKnows
<1>6. ActionsOutcome(record)
  BY <1>2 DEF ActionsOutcome
<1> QED BY <1>2, <1>3, <1>4, <1>5, <1>6, ActionsOneExecution

LEMMA ActionsRefreshInv == ASSUME ActionsIInv, NEW x \in Executions, X!Refresh(x) PROVE ActionsIInv'
<1>1. /\ actions' = [actions EXCEPT ![x] = actions[x]] /\ actions[x] \in X!Rows
      /\ executors' = [executors EXCEPT ![x] = [pc |-> "refreshed", view |-> actions[x]]]
      /\ executors[x].pc = "created" /\ cancels' = cancels /\ actions' = actions
  BY ActionsTypes DEF X!Refresh
<1>2. X!TypeOK'
  BY <1>1, ActionsTypes DEF X!TypeOK
<1>3. ActionsExecutorKnows(x) /\ ActionsOutcome(actions[x]) /\ actions[x].status # "none"
      /\ (actions[x].status = "pending" => actions[x].payment = "held" /\ ~actions[x].verified)
  BY <1>1 DEF ActionsIInv, ActionsExecutorKnows
<1>4. ActionsExecutorKnows(x)'
  BY <1>1, <1>3, ActionsTypes DEF ActionsExecutorKnows, ActionsReleasedIsFresh, X!Rows
<1> QED BY <1>1, <1>2, <1>3, <1>4, ActionsOneExecution

\* The three UPDATEs of an executor: the row afterwards, and the types.
LEMMA ActionsUpdateRow ==
  ASSUME ActionsIInv, NEW x \in Executions, NEW new \in X!Rows,
         NEW pc \in {"executing", "committed", "done"}, X!Update(x, new, pc)
  PROVE  LET record == X!Write(actions[x], executors[x].view, new) IN
         /\ actions' = [actions EXCEPT ![x] = record] /\ actions'[x] = record /\ record \in X!Rows
         /\ executors' = [executors EXCEPT ![x] = [pc |-> pc, view |-> new]]
         /\ executors'[x] = [pc |-> pc, view |-> new]
         /\ cancels' = cancels /\ X!TypeOK'
<1>1. actions[x] \in X!Rows /\ executors[x].view \in X!Rows
  BY ActionsTypes
<1>2. X!Write(actions[x], executors[x].view, new) \in X!Rows
  BY <1>1, ActionsWriteColumns
<1> QED BY <1>2, ActionsTypes DEF X!Update, X!TypeOK

LEMMA ActionsStartInv == ASSUME ActionsIInv, NEW x \in Executions, X!Start(x) PROVE ActionsIInv'
<1> DEFINE view == executors[x].view
           new == [view EXCEPT !.status = "executing"]
           record == X!Write(actions[x], view, new)
<1>1. view \in X!Rows /\ actions[x] \in X!Rows /\ ActionsExecutorKnows(x) /\ ActionsOutcome(actions[x])
  BY ActionsTypes DEF ActionsIInv
<1>2. new \in X!Rows /\ new.status = "executing" /\ new.payment = view.payment
      /\ new.verified = view.verified
  BY <1>1 DEF X!Rows
<1>3. X!Update(x, new, "executing") /\ executors[x].pc = "refreshed"
  BY DEF X!Start
<1> HIDE DEF new
<1>4. /\ actions' = [actions EXCEPT ![x] = record] /\ actions'[x] = record /\ record \in X!Rows
      /\ executors' = [executors EXCEPT ![x] = [pc |-> "executing", view |-> new]]
      /\ executors'[x] = [pc |-> "executing", view |-> new] /\ cancels' = cancels /\ X!TypeOK'
  BY <1>2, <1>3, ActionsUpdateRow
<1>5. /\ record.payment = actions[x].payment /\ record.verified = actions[x].verified
      /\ record.status = IF view.status = "executing" THEN actions[x].status ELSE "executing"
  BY <1>1, <1>2, ActionsWriteColumns
<1> HIDE DEF record
<1>6. /\ record.status = "executing" /\ ~record.verified /\ record.payment # "captured"
      /\ ~new.verified /\ new.payment # "captured"
      /\ new.payment = "released" => record.payment = "released"
  BY <1>1, <1>2, <1>3, <1>5 DEF ActionsExecutorKnows, ActionsReleasedIsFresh
<1>7. ActionsExecutorKnows(x)'
  BY <1>2, <1>4, <1>6 DEF ActionsExecutorKnows, ActionsReleasedIsFresh
<1>8. ActionsOutcome(record)
  BY <1>6 DEF ActionsOutcome
<1> QED BY <1>4, <1>6, <1>7, <1>8, ActionsOneExecution

LEMMA ActionsCompleteInv ==
  ASSUME ActionsIInv, NEW x \in Executions, NEW valid \in BOOLEAN, X!Complete(x, valid) PROVE ActionsIInv'
<1> DEFINE view == executors[x].view
           new == [status |-> "completed", verified |-> valid, payment |-> X!Payment(view, valid)]
           record == X!Write(actions[x], view, new)
<1>1. view \in X!Rows /\ actions[x] \in X!Rows /\ ActionsExecutorKnows(x) /\ ActionsOutcome(actions[x])
  BY ActionsTypes DEF ActionsIInv
<1>2. /\ new \in X!Rows /\ new.status = "completed" /\ new.verified = valid
      /\ new.payment = IF valid THEN "captured" ELSE "released"
  BY DEF X!Rows, X!Payment
<1>3. X!Update(x, new, "committed") /\ executors[x].pc = "executing"
  BY DEF X!Complete
<1> HIDE DEF new
<1>4. /\ actions' = [actions EXCEPT ![x] = record] /\ actions'[x] = record /\ record \in X!Rows
      /\ executors' = [executors EXCEPT ![x] = [pc |-> "committed", view |-> new]]
      /\ executors'[x] = [pc |-> "committed", view |-> new] /\ cancels' = cancels /\ X!TypeOK'
  BY <1>2, <1>3, ActionsUpdateRow
<1>5. /\ record.payment = IF new.payment = view.payment THEN actions[x].payment ELSE new.payment
      /\ record.verified = IF new.verified = view.verified THEN actions[x].verified ELSE new.verified
      /\ record.status = IF new.status = view.status THEN actions[x].status ELSE new.status
  BY <1>1, <1>2, ActionsWriteColumns
<1> HIDE DEF record
<1>6. /\ view.status = "executing" /\ ~view.verified /\ ~actions[x].verified
      /\ view.payment # "captured"
      /\ view.payment = "released" => actions[x].payment = "released"
  BY <1>1, <1>3 DEF ActionsExecutorKnows, ActionsReleasedIsFresh
<1>7. record.status = "completed" /\ record.payment = new.payment
  BY <1>2, <1>5, <1>6
<1>8. record.verified <=> valid
  BY <1>2, <1>5, <1>6
<1>9. ActionsExecutorKnows(x)'
  BY <1>2, <1>4, <1>7 DEF ActionsExecutorKnows, ActionsReleasedIsFresh
<1>10. ActionsOutcome(record)
  BY <1>2, <1>7, <1>8 DEF ActionsOutcome
<1> QED BY <1>4, <1>7, <1>9, <1>10, ActionsOneExecution

LEMMA ActionsFailInv == ASSUME ActionsIInv, NEW x \in Executions, X!Fail(x) PROVE ActionsIInv'
<1> DEFINE view == executors[x].view
           new == [view EXCEPT !.status = "failed", !.payment = "released"]
           record == X!Write(actions[x], view, new)
<1>1. view \in X!Rows /\ actions[x] \in X!Rows /\ ActionsExecutorKnows(x)
  BY ActionsTypes DEF ActionsIInv
<1>2. new \in X!Rows /\ new.status = "failed" /\ new.payment = "released"
  BY <1>1 DEF X!Rows
<1>3. X!Update(x, new, "done") /\ executors[x].pc \in {"executing", "committed"}
  BY DEF X!Fail
<1> HIDE DEF new
<1>4. /\ actions' = [actions EXCEPT ![x] = record] /\ actions'[x] = record /\ record \in X!Rows
      /\ executors' = [executors EXCEPT ![x] = [pc |-> "done", view |-> new]]
      /\ executors'[x] = [pc |-> "done", view |-> new] /\ cancels' = cancels /\ X!TypeOK'
  BY <1>2, <1>3, ActionsUpdateRow
<1>5. /\ record.payment = IF new.payment = view.payment THEN actions[x].payment ELSE new.payment
      /\ record.status = IF new.status = view.status THEN actions[x].status ELSE new.status
  BY <1>1, <1>2, ActionsWriteColumns
<1> HIDE DEF record
<1>6. /\ view.status \in {"executing", "completed"}
      /\ view.payment = "released" => actions[x].payment = "released"
  BY <1>1, <1>3 DEF ActionsExecutorKnows, ActionsReleasedIsFresh
<1>7. record.status = "failed" /\ record.payment = "released"
  BY <1>2, <1>5, <1>6
<1>8. ActionsExecutorKnows(x)'
  BY <1>4, <1>7 DEF ActionsExecutorKnows
<1>9. ActionsOutcome(record)
  BY <1>7 DEF ActionsOutcome
<1> QED BY <1>4, <1>7, <1>8, <1>9, ActionsOneExecution

LEMMA ActionsLeaveInv == ASSUME ActionsIInv, NEW x \in Executions, X!Leave(x) PROVE ActionsIInv'
<1>1. /\ actions' = [actions EXCEPT ![x] = actions[x]] /\ actions[x] \in X!Rows
      /\ executors' = [executors EXCEPT ![x] = [pc |-> "done", view |-> X!NoAction]]
      /\ executors[x].pc # "idle" /\ cancels' = cancels /\ actions' = actions
  <2>1. [X!NotRunning EXCEPT !.pc = "done"] = [pc |-> "done", view |-> X!NoAction]
    BY DEF X!NotRunning
  <2> QED BY <2>1, ActionsTypes DEF X!Leave
<1>2. X!TypeOK'
  BY <1>1, ActionsTypes DEF X!TypeOK, X!NoAction, X!Rows
<1>3. ActionsExecutorKnows(x) /\ ActionsOutcome(actions[x]) /\ actions[x].status # "none"
      /\ (actions[x].status = "pending" => actions[x].payment = "held" /\ ~actions[x].verified)
  BY <1>1 DEF ActionsIInv, ActionsExecutorKnows
<1>4. ActionsExecutorKnows(x)'
  BY <1>1, <1>3, ActionsTypes DEF ActionsExecutorKnows
<1> QED BY <1>1, <1>2, <1>3, <1>4, ActionsOneExecution
-----------------------------------------------------------------------------
LEMMA ActionsReadInv ==
  ASSUME ActionsIInv, NEW c \in Cancellers, NEW x \in Executions, X!Read(c, x) PROVE ActionsIInv'
<1>1. /\ cancels'[c] = [pc |-> "write", of |-> x, view |-> actions[x]]
      /\ UNCHANGED <<actions, executors>> /\ actions[x].status = "pending"
      /\ \A d \in Cancellers \ {c} : cancels'[d] = cancels[d]
  BY ActionsTypes DEF X!Read
<1>2. X!TypeOK'
  BY ActionsTypes DEF X!Read, X!TypeOK
<1>3. actions[x].payment = "held" /\ ~actions[x].verified
  BY <1>1 DEF ActionsIInv
<1>4. ASSUME NEW d \in Cancellers PROVE ActionsCancellerKnows(d)'
  BY <1>1, <1>3 DEF ActionsIInv, ActionsCancellerKnows
<1>5. ASSUME NEW y \in Executions
      PROVE  /\ ActionsOutcome(actions[y])' /\ ActionsExecutorKnows(y)'
             /\ (actions[y].status = "pending" => actions[y].payment = "held" /\ ~actions[y].verified)'
  BY <1>1 DEF ActionsIInv, ActionsExecutorKnows, ActionsReleasedIsFresh, ActionsOutcome
<1> QED BY <1>2, <1>4, <1>5 DEF ActionsIInv

\* A cancellation writes over whatever the executor has made of the row by now.
LEMMA ActionsCancelInv == ASSUME ActionsIInv, NEW c \in Cancellers, X!Cancel(c) PROVE ActionsIInv'
<1>0. PICK x \in Executions : x = cancels[c].of
  BY DEF ActionsIInv, ActionsCancellerKnows, X!Cancel
<1> DEFINE view == cancels[c].view
           new == [view EXCEPT !.status = "failed", !.payment = "released"]
           record == X!Write(actions[x], view, new)
<1>1. /\ actions[x].status # "none" /\ view.status = "pending" /\ view.payment = "held"
  BY <1>0 DEF ActionsIInv, ActionsCancellerKnows, X!Cancel
<1>2. /\ actions[x] \in X!Rows /\ view \in X!Rows /\ new \in X!Rows /\ new.status = "failed"
      /\ new.payment = "released" /\ new.verified = view.verified
  BY <1>1, ActionsTypes DEF X!Rows
<1> HIDE DEF new
<1>3. /\ record \in X!Rows /\ record.status = "failed" /\ record.payment = "released"
      /\ record.verified = actions[x].verified
  BY <1>1, <1>2, ActionsWriteColumns
<1>4. /\ actions' = [actions EXCEPT ![x] = record] /\ executors' = executors
      /\ cancels' = [cancels EXCEPT ![c] = X!NoCancel]
  BY <1>0, ActionsTypes DEF X!Cancel, new
<1> HIDE DEF record
<1>5. X!TypeOK'
  BY <1>1, <1>3, <1>4, ActionsTypes DEF X!TypeOK, X!NoCancel, X!NoAction, X!Rows
<1>6. /\ actions'[x] = record /\ \A y \in Executions \ {x} : actions'[y] = actions[y]
      /\ cancels'[c].pc = "idle" /\ \A d \in Cancellers \ {c} : cancels'[d] = cancels[d]
  BY <1>1, <1>4, ActionsTypes DEF X!NoCancel
<1>7. ASSUME NEW d \in Cancellers PROVE ActionsCancellerKnows(d)'
  BY <1>3, <1>6 DEF ActionsIInv, ActionsCancellerKnows
<1>8. ActionsExecutorKnows(x)'
  <2>1. ActionsExecutorKnows(x) /\ executors[x].pc # "idle"
    BY <1>1 DEF ActionsIInv, ActionsExecutorKnows
  <2> QED BY <1>3, <1>4, <1>6, <2>1 DEF ActionsExecutorKnows, ActionsReleasedIsFresh
<1>9. ASSUME NEW y \in Executions
      PROVE  /\ ActionsOutcome(actions[y])' /\ ActionsExecutorKnows(y)'
             /\ (actions[y].status = "pending" => actions[y].payment = "held" /\ ~actions[y].verified)'
  <2>1. CASE y = x
    BY <1>3, <1>6, <1>8, <2>1 DEF ActionsOutcome
  <2>2. CASE y # x
    BY <1>4, <1>6, <2>2 DEF ActionsIInv, ActionsExecutorKnows, ActionsReleasedIsFresh, ActionsOutcome
  <2> QED BY <2>1, <2>2
<1> QED BY <1>5, <1>7, <1>9 DEF ActionsIInv
-----------------------------------------------------------------------------
LEMMA ActionsStutterInv == ActionsIInv /\ UNCHANGED X!vars => ActionsIInv'
  BY DEF X!vars, ActionsIInv, X!TypeOK, ActionsOutcome, ActionsExecutorKnows, ActionsReleasedIsFresh, ActionsCancellerKnows

LEMMA ActionsNextInv == ActionsIInv /\ [X!Next]_(X!vars) => ActionsIInv'
<1> SUFFICES ASSUME ActionsIInv, [X!Next]_(X!vars) PROVE ActionsIInv'
  OBVIOUS
<1>1. CASE UNCHANGED X!vars
  BY <1>1, ActionsStutterInv
<1>2. ASSUME NEW x \in Executions,
             \/ X!Create(x) \/ X!Refresh(x) \/ X!Start(x) \/ X!Fail(x) \/ X!Leave(x)
             \/ \E valid \in BOOLEAN : X!Complete(x, valid)
      PROVE  ActionsIInv'
  BY <1>2, ActionsCreateInv, ActionsRefreshInv, ActionsStartInv, ActionsFailInv, ActionsLeaveInv, ActionsCompleteInv
<1>3. ASSUME NEW c \in Cancellers, X!Cancel(c) \/ \E x \in Executions : X!Read(c, x) PROVE ActionsIInv'
  BY <1>3, ActionsCancelInv, ActionsReadInv
<1> QED BY <1>1, <1>2, <1>3 DEF X!Next

LEMMA ActionsSpecInv == X!Spec => []ActionsIInv
  BY ActionsInitInv, ActionsNextInv, PTL DEF X!Spec

\* The rows, and what the handlers know of them, keep their shape.
THEOREM ActionsTypeCorrect == X!Spec => []X!TypeOK
<1>1. ActionsIInv => X!TypeOK
  BY DEF ActionsIInv
<1> QED BY <1>1, ActionsSpecInv, PTL

\* However many cancellations overlap with execute_action and whatever columns each
\* finds changed, the status of a paid action and its payment agree.
THEOREM ActionsOutcomeMatchesPayment == X!Spec => []X!OutcomeMatchesPayment
<1>1. ActionsIInv => X!OutcomeMatchesPayment
  BY DEF ActionsIInv, X!OutcomeMatchesPayment, ActionsOutcome
<1> QED BY <1>1, ActionsSpecInv, PTL
-----------------------------------------------------------------------------
(* QueuedWebhooks: the last message of an open event is never completed. *)

LEMMA QueueConstants ==
  {MaxAttempts, MaxDeliveries} \subseteq Nat \ {0} /\ MaxMessages \in Nat
  BY ServicesAssumption
-----------------------------------------------------------------------------

QueueMessageType == [event : Events, attempt : Int, n : Int,
                state : {"ready", "locked", "done", "dead"}]
QueueNumbers == DOMAIN queue

\* Events that were neither delivered nor refused, and no send of which has failed.
QueueWaiting == {e \in Events \ dropped : attempts[e] = "open"}
QueueLater(q, m) == \E k \in DOMAIN q : k > m /\ q[k].event = q[m].event

QueueTypes ==
  /\ queue \in Seq(QueueMessageType) /\ attempts \in [Events -> {"none", "recorded", "open", "final"}]
  /\ DOMAIN workers = Workers
  /\ \A l \in entries \cup requeue.todo : l[1] \in QueueNumbers

\* The last message of a waiting event is not done.
QueueLastIsThere ==
  \A e \in Events : e \in QueueWaiting =>
    \E m \in QueueNumbers : /\ queue[m].event = e /\ queue[m].state # "done"
                            /\ ~QueueLater(queue, m)

\* What a worker r knows: its locks are of messages that were sent, and the one it is to
\* complete is not the last of a waiting event.
QueueKnows(q, r, waiting) ==
  /\ r \in [pc : {"idle", "next", "resend", "bury", "deadletter", "complete"},
            batch : SUBSET (Nat \X Int), at : Nat \X Int]
  /\ \A l \in r.batch : l[1] \in DOMAIN q
  /\ r.pc \in {"resend", "bury", "deadletter", "complete"} => r.at[1] \in DOMAIN q
  /\ r.pc = "complete" /\ q[r.at[1]].event \in waiting => QueueLater(q, r.at[1])

QueueIInv == QueueTypes /\ QueueLastIsThere /\ \A w \in Workers : QueueKnows(queue, workers[w], QueueWaiting)
-----------------------------------------------------------------------------
LEMMA QueueInitInv == Q!Init => QueueIInv
<1> SUFFICES ASSUME Q!Init PROVE QueueIInv
  OBVIOUS
<1>1. queue \in Seq(QueueMessageType)
  BY EmptySeq DEF Q!Init
<1>2. QueueTypes /\ QueueLastIsThere
  BY <1>1 DEF Q!Init, QueueTypes, QueueLastIsThere, QueueWaiting, Q!NoRequeue
<1>3. ASSUME NEW w \in Workers PROVE QueueKnows(queue, workers[w], QueueWaiting)
  BY <1>3 DEF Q!Init, QueueKnows, Q!Idle
<1> QED BY <1>2, <1>3 DEF QueueIInv

LEMMA Queue ==
  ASSUME QueueIInv
  PROVE  /\ queue \in Seq(QueueMessageType) /\ Len(queue) \in Nat /\ QueueNumbers = 1 .. Len(queue)
         /\ \A m \in QueueNumbers : /\ m \in Nat /\ m > 0 /\ queue[m] \in QueueMessageType
                                    /\ queue[m].event \in Events /\ queue[m].attempt \in Int
         /\ attempts \in [Events -> {"none", "recorded", "open", "final"}] /\ DOMAIN workers = Workers
         /\ \A w \in Workers : QueueKnows(queue, workers[w], QueueWaiting)
<1>1. queue \in Seq(QueueMessageType) /\ Len(queue) \in Nat /\ QueueNumbers = 1 .. Len(queue)
  BY LenProperties DEF QueueIInv, QueueTypes, QueueNumbers
<1>2. \A m \in QueueNumbers : queue[m] \in QueueMessageType
  BY <1>1, LenProperties
<1>3. \A m \in QueueNumbers : m \in Nat /\ m > 0
  BY <1>1
<1>4. \A m \in QueueNumbers : queue[m].event \in Events /\ queue[m].attempt \in Int
  BY <1>2 DEF QueueMessageType
<1> QED BY <1>1, <1>2, <1>3, <1>4 DEF QueueIInv, QueueTypes

\* No message goes or changes its event; and an event begins to wait only with a new
\* message for it.
QueuePersists ==
  \A m \in QueueNumbers :
    /\ m \in QueueNumbers' /\ queue'[m].event = queue[m].event
    /\ queue[m].event \in QueueWaiting' => queue[m].event \in QueueWaiting \/ QueueLater(queue', m)

\* A later message stays later.
LEMMA QueueLaterStays ==
  ASSUME QueueIInv, QueuePersists, NEW m \in QueueNumbers, QueueLater(queue, m)
  PROVE  QueueLater(queue', m)
BY DEF QueueLater, QueueNumbers, QueuePersists

\* A worker that does not move keeps what it knows.
LEMMA QueueWorkerFrame ==
  ASSUME QueueIInv, QueuePersists, NEW r, QueueKnows(queue, r, QueueWaiting)
  PROVE  QueueKnows(queue', r, QueueWaiting')
<1>1. r.pc = "complete" /\ queue'[r.at[1]].event \in QueueWaiting' => QueueLater(queue', r.at[1])
  <2> SUFFICES ASSUME r.pc = "complete", queue'[r.at[1]].event \in QueueWaiting'
               PROVE  QueueLater(queue', r.at[1])
    OBVIOUS
  <2>1. r.at[1] \in QueueNumbers /\ queue'[r.at[1]].event = queue[r.at[1]].event
    BY DEF QueueKnows, QueuePersists, QueueNumbers
  <2> QED BY <2>1, QueueLaterStays DEF QueueKnows, QueuePersists
<1>2. \A m \in DOMAIN queue : m \in DOMAIN queue'
  BY DEF QueuePersists, QueueNumbers
<1> QED BY <1>1, <1>2 DEF QueueKnows

\* What a step owes to the invariant.
LEMMA QueueStepInv ==
  ASSUME QueueIInv, queue' \in Seq(QueueMessageType), QueueLastIsThere', QueuePersists,
         attempts' \in [Events -> {"none", "recorded", "open", "final"}], DOMAIN workers' = Workers,
         \A l \in entries' \cup requeue'.todo : l[1] \in QueueNumbers,
         \A w \in Workers : \/ workers'[w] = workers[w]
                            \/ QueueKnows(queue', workers'[w], QueueWaiting')
  PROVE  QueueIInv'
<1>1. \A w \in Workers : QueueKnows(queue', workers'[w], QueueWaiting')
  BY Queue, QueueWorkerFrame
<1>2. QueueTypes'
  BY DEF QueueTypes, QueuePersists
<1> QED BY <1>1, <1>2 DEF QueueIInv

\* A send that succeeds makes the new message the event's last; one that fails drops it.
LEMMA QueueSendKeeps ==
  ASSUME QueueIInv, NEW e \in Events, NEW a \in Int, NEW sent \in BOOLEAN,
         Q!Send(queue, e, a, sent),
         \A f \in Events : attempts'[f] = attempts[f] \/ f = e
  PROVE  /\ queue' \in Seq(QueueMessageType) /\ QueueLastIsThere' /\ QueuePersists
         /\ \A m \in QueueNumbers : queue[m].event = e /\ e \in QueueWaiting' => QueueLater(queue', m)
<1> USE Queue
<1>1. CASE sent
  <2>0. PICK new \in Nat : new = Len(queue) + 1
    OBVIOUS
  <2>1. Q!Message(e, a) \in QueueMessageType /\ Q!Message(e, a).event = e /\ Q!Message(e, a).state = "ready"
    BY DEF Q!Message, QueueMessageType
  <2>2. queue' = Append(queue, Q!Message(e, a)) /\ dropped' = dropped
    BY <1>1 DEF Q!Send
  <2>3. /\ queue' \in Seq(QueueMessageType) /\ QueueNumbers' = 1 .. new
        /\ queue'[new] = Q!Message(e, a) /\ \A m \in QueueNumbers : queue'[m] = queue[m]
    <3>1. queue' \in Seq(QueueMessageType) /\ Len(queue') = new
      BY <2>0, <2>1, <2>2, AppendProperties
    <3>2. queue'[new] = Q!Message(e, a) /\ \A m \in QueueNumbers : queue'[m] = queue[m]
      BY <2>0, <2>1, <2>2, AppendProperties
    <3>3. DOMAIN queue' = 1 .. Len(queue')
      BY <3>1, LenProperties
    <3> QED BY <3>1, <3>2, <3>3 DEF QueueNumbers
  <2>4. \A f \in Events \ {e} : f \in QueueWaiting' => f \in QueueWaiting
    BY <2>2 DEF QueueWaiting
  <2>5. \A m \in QueueNumbers : queue[m].event = e => QueueLater(queue', m)
    <3> SUFFICES ASSUME NEW m \in QueueNumbers, queue[m].event = e PROVE QueueLater(queue', m)
      OBVIOUS
    <3>1. new \in QueueNumbers' /\ new > m /\ queue'[new].event = queue'[m].event
      BY <2>0, <2>1, <2>3
    <3> QED BY <3>1 DEF QueueLater, QueueNumbers
  <2>6. QueuePersists
    BY <2>0, <2>3, <2>4, <2>5 DEF QueuePersists
  <2>7. ASSUME NEW f \in Events, f \in QueueWaiting'
        PROVE  \E m \in QueueNumbers' : queue'[m].event = f /\ queue'[m].state # "done" /\ ~QueueLater(queue', m)
    <3>1. CASE f = e
      <4>1. ~QueueLater(queue', new)
        BY <2>3 DEF QueueLater, QueueNumbers
      <4> QED BY <2>0, <2>1, <2>3, <3>1, <4>1
    <3>2. CASE f # e
      <4>1. f \in QueueWaiting
        BY <2>4, <2>7, <3>2
      <4>2. PICK m \in QueueNumbers : queue[m].event = f /\ queue[m].state # "done" /\ ~QueueLater(queue, m)
        BY <4>1 DEF QueueIInv, QueueLastIsThere
      <4>3. ASSUME NEW k \in QueueNumbers', k > m PROVE queue'[k].event # queue'[m].event
        <5>1. CASE k = new
          BY <2>1, <2>3, <3>2, <4>2, <5>1
        <5>2. CASE k # new
          BY <2>0, <2>3, <4>2, <4>3, <5>2 DEF QueueLater, QueueNumbers
        <5> QED BY <5>1, <5>2
      <4>4. ~QueueLater(queue', m)
        BY <4>3 DEF QueueLater, QueueNumbers
      <4> QED BY <2>0, <2>3, <4>2, <4>4
    <3> QED BY <3>1, <3>2
  <2> QED BY <2>3, <2>5, <2>6, <2>7 DEF QueueLastIsThere
<1>2. CASE ~sent
  <2>1. queue' = queue /\ dropped' = dropped \cup {e}
    BY <1>2 DEF Q!Send
  <2>2. e \notin QueueWaiting' /\ \A f \in Events : f \in QueueWaiting' => f \in QueueWaiting
    BY <2>1 DEF QueueWaiting
  <2>3. QueueNumbers' = QueueNumbers /\ \A m : QueueLater(queue', m) <=> QueueLater(queue, m)
    BY <2>1 DEF QueueNumbers, QueueLater
  <2> QED BY <2>1, <2>2, <2>3 DEF QueueIInv, QueueLastIsThere, QueuePersists
<1> QED BY <1>1, <1>2

\* A change of states keeps a last message as long as none that is needed is completed.
LEMMA QueueStatesKeep ==
  ASSUME QueueIInv, queue' \in Seq(QueueMessageType), QueueNumbers' = QueueNumbers,
         \A m \in QueueNumbers : queue'[m].event = queue[m].event,
         \A f \in Events : f \in QueueWaiting' => f \in QueueWaiting,
         \A m \in QueueNumbers : queue'[m].state = "done" =>
           queue[m].state = "done" \/ queue[m].event \notin QueueWaiting \/ QueueLater(queue, m)
  PROVE  QueueLastIsThere' /\ QueuePersists
<1> USE Queue
<1>1. QueuePersists
  BY DEF QueuePersists
<1>2. \A m \in QueueNumbers : QueueLater(queue', m) <=> QueueLater(queue, m)
  BY DEF QueueLater, QueueNumbers
<1>3. ASSUME NEW f \in Events, f \in QueueWaiting'
      PROVE  \E m \in QueueNumbers' : queue'[m].event = f /\ queue'[m].state # "done" /\ ~QueueLater(queue', m)
  <2>1. PICK m \in QueueNumbers : queue[m].event = f /\ queue[m].state # "done" /\ ~QueueLater(queue, m)
    BY <1>3 DEF QueueIInv, QueueLastIsThere
  <2> QED BY <1>2, <1>3, <2>1
<1> QED BY <1>1, <1>3 DEF QueueLastIsThere

\* The queue as it was, and no event begins to wait.
LEMMA QueueFrame ==
  ASSUME QueueIInv, queue' = queue, dropped' = dropped,
         \A f \in Events : attempts'[f] = "open" => attempts[f] = "open"
  PROVE  queue' \in Seq(QueueMessageType) /\ QueueLastIsThere' /\ QueuePersists
<1>1. QueueNumbers' = QueueNumbers /\ \A f \in Events : f \in QueueWaiting' => f \in QueueWaiting
  BY DEF QueueNumbers, QueueWaiting
<1> QED BY <1>1, QueueStatesKeep, Queue
-----------------------------------------------------------------------------
\* One message gets another state.
LEMMA QueueStateSet ==
  ASSUME QueueIInv, NEW m \in DOMAIN queue, NEW s \in {"ready", "locked", "done", "dead"},
         queue' = [queue EXCEPT ![m].state = s]
  PROVE  /\ queue' \in Seq(QueueMessageType) /\ DOMAIN queue' = DOMAIN queue
         /\ \A k \in DOMAIN queue : /\ queue'[k].event = queue[k].event
                                    /\ queue'[k].attempt = queue[k].attempt /\ queue'[k].n = queue[k].n
                                    /\ queue'[k].state = IF k = m THEN s ELSE queue[k].state
<1> DEFINE new == [queue[m] EXCEPT !.state = s]
<1>1. /\ new \in QueueMessageType /\ new.event = queue[m].event /\ new.state = s
      /\ new.attempt = queue[m].attempt /\ new.n = queue[m].n
  BY Queue DEF QueueNumbers, QueueMessageType
<1>2. queue' = [queue EXCEPT ![m] = new]
  OBVIOUS
<1> HIDE DEF new
<1>3. queue \in [1 .. Len(queue) -> QueueMessageType] /\ Len(queue) \in Nat
  BY Queue, LenProperties
<1>4. queue' \in [1 .. Len(queue) -> QueueMessageType]
  BY <1>1, <1>2, <1>3
<1> QED BY <1>1, <1>2, <1>3, <1>4

LEMMA QueueRecordInv ==
  ASSUME QueueIInv, NEW e \in Events, Q!Record(e)
  PROVE  QueueIInv'
<1>1. attempts' \in [Events -> {"none", "recorded", "open", "final"}]
      /\ \A f \in Events : attempts'[f] = "open" => attempts[f] = "open"
  BY Queue DEF Q!Record
<1>2. queue' \in Seq(QueueMessageType) /\ QueueLastIsThere' /\ QueuePersists
  BY <1>1, QueueFrame DEF Q!Record
<1> QED BY <1>1, <1>2, QueueStepInv, Queue DEF Q!Record, QueueIInv, QueueTypes

LEMMA QueueEnqueueInv ==
  ASSUME QueueIInv, NEW e \in Events, NEW sent \in BOOLEAN, Q!Enqueue(e, sent)
  PROVE  QueueIInv'
<1>1. attempts' \in [Events -> {"none", "recorded", "open", "final"}]
      /\ \A f \in Events : attempts'[f] = attempts[f] \/ f = e
  BY Queue DEF Q!Enqueue
<1>2. queue' \in Seq(QueueMessageType) /\ QueueLastIsThere' /\ QueuePersists
  BY <1>1, QueueSendKeeps DEF Q!Enqueue
<1> QED BY <1>1, <1>2, QueueStepInv, Queue DEF Q!Enqueue, QueueIInv, QueueTypes

\* An expired lock changes one state, and not to done.
LEMMA QueueExpireInv ==
  ASSUME QueueIInv, NEW m \in DOMAIN queue, Q!Expire(m)
  PROVE  QueueIInv'
<1> USE Queue
<1>1. PICK s \in {"ready", "dead"} : queue' = [queue EXCEPT ![m].state = s]
  BY DEF Q!Expire
<1>2. queue' \in Seq(QueueMessageType) /\ QueueNumbers' = QueueNumbers
      /\ \A k \in QueueNumbers : queue'[k].event = queue[k].event
                            /\ (queue'[k].state = "done" => queue[k].state = "done")
  <2>0. s \in {"ready", "locked", "done", "dead"}
    OBVIOUS
  <2>1. /\ queue' \in Seq(QueueMessageType) /\ DOMAIN queue' = DOMAIN queue
        /\ \A k \in DOMAIN queue : /\ queue'[k].event = queue[k].event
                                   /\ queue'[k].state = IF k = m THEN s ELSE queue[k].state
    BY <1>1, <2>0, QueueStateSet
  <2> QED BY <2>1 DEF QueueNumbers
<1>3. \A f \in Events : f \in QueueWaiting' => f \in QueueWaiting
  BY DEF Q!Expire, QueueWaiting
<1>4. QueueLastIsThere' /\ QueuePersists
  BY <1>2, <1>3, QueueStatesKeep
<1> QED BY <1>2, <1>4, QueueStepInv DEF Q!Expire, QueueIInv, QueueTypes

LEMMA QueueReceiveInv ==
  ASSUME QueueIInv, NEW w \in Workers, NEW Some \in SUBSET DOMAIN queue, Q!Receive(w, Some)
  PROVE  QueueIInv'
<1> USE Queue
<1> DEFINE locked(m) == IF m \in Some THEN [queue[m] EXCEPT !.state = "locked", !.n = @ + 1]
                        ELSE queue[m]
<1>1. \A m \in QueueNumbers : /\ locked(m) \in QueueMessageType /\ locked(m).event = queue[m].event
                              /\ locked(m).state = "done" => queue[m].state = "done"
  <2> SUFFICES ASSUME NEW m \in QueueNumbers
               PROVE  /\ locked(m) \in QueueMessageType /\ locked(m).event = queue[m].event
                      /\ locked(m).state = "done" => queue[m].state = "done"
    OBVIOUS
  <2>1. CASE m \in Some
    <3>1. locked(m) = [queue[m] EXCEPT !.state = "locked", !.n = queue[m].n + 1]
      BY <2>1
    <3>2. PICK q \in QueueMessageType : q = queue[m]
      OBVIOUS
    <3>3. q.n + 1 \in Int
      BY DEF QueueMessageType
    <3> HIDE DEF locked
    <3>4. locked(m) = [event |-> q.event, attempt |-> q.attempt, n |-> q.n + 1, state |-> "locked"]
      BY <3>1, <3>2 DEF QueueMessageType
    <3> QED BY <3>2, <3>3, <3>4 DEF QueueMessageType
  <2>2. CASE m \notin Some
    BY <2>2
  <2> QED BY <2>1, <2>2
<1>2. queue' = [m \in 1 .. Len(queue) |-> locked(m)]
  BY DEF Q!Receive, QueueNumbers
<1> HIDE DEF locked
<1>3. queue' \in [1 .. Len(queue) -> QueueMessageType]
  <2>1. \A m \in 1 .. Len(queue) : locked(m) \in QueueMessageType
    BY <1>1
  <2> QED BY <1>2, <2>1, Zenon
<1>4. queue' \in Seq(QueueMessageType) /\ QueueNumbers' = QueueNumbers
  BY <1>3 DEF QueueNumbers
<1>5. \A m \in QueueNumbers : queue'[m].event = queue[m].event
                         /\ (queue'[m].state = "done" => queue[m].state = "done")
  <2>1. \A m \in QueueNumbers : queue'[m] = locked(m)
    BY <1>2, Zenon
  <2> QED BY <1>1, <2>1, Zenon
<1>6. \A f \in Events : f \in QueueWaiting' => f \in QueueWaiting
  BY DEF Q!Receive, QueueWaiting
<1>7. QueueLastIsThere' /\ QueuePersists
  BY <1>4, <1>5, <1>6, QueueStatesKeep
<1>8. QueueKnows(queue', workers'[w], QueueWaiting')
  <2>1. \A m \in Some : m \in Nat /\ m \in DOMAIN queue' /\ queue[m].n + 1 \in Int
    BY <1>4 DEF QueueNumbers, QueueMessageType
  <2> DEFINE batch == {<<m, queue[m].n + 1>> : m \in Some}
  <2>2. workers'[w] = [pc |-> "next", batch |-> batch, at |-> <<0, 0>>]
    BY DEF Q!Receive, Q!Idle
  <2>3. batch \in SUBSET (Nat \X Int) /\ \A l \in batch : l[1] \in DOMAIN queue'
    BY <2>1
  <2> HIDE DEF batch
  <2> QED BY <2>2, <2>3 DEF QueueKnows
<1> QED BY <1>4, <1>7, <1>8, QueueStepInv DEF Q!Receive, QueueIInv, QueueTypes

LEMMA QueueAttemptInv ==
  ASSUME QueueIInv, NEW w \in Workers, NEW l \in Q!Locks, NEW accepted \in BOOLEAN, Q!Attempt(w, l, accepted)
  PROVE  QueueIInv'
<1> USE Queue
<1>1. QueueKnows(queue, workers[w], QueueWaiting) /\ l \in workers[w].batch
  BY DEF Q!Attempt
<1>2. l[1] \in QueueNumbers /\ l \in Nat \X Int /\ queue[l[1]].event \in Events
  BY <1>1 DEF QueueKnows, QueueNumbers
<1>3. attempts' \in [Events -> {"none", "recorded", "open", "final"}]
      /\ (accepted => attempts'[queue[l[1]].event] = "final")
      /\ \A f \in Events : attempts'[f] \in {attempts[f], "final"}
  BY <1>2 DEF Q!Attempt, Q!Of
<1>4. (\A f \in Events : f \in QueueWaiting' => f \in QueueWaiting)
      /\ (accepted => queue[l[1]].event \notin QueueWaiting')
  BY <1>2, <1>3 DEF Q!Attempt, QueueWaiting
<1>5. queue' = queue
  BY DEF Q!Attempt
<1>6. QueueNumbers' = QueueNumbers
  BY <1>5 DEF QueueNumbers
<1>7. QueueLastIsThere' /\ QueuePersists
  BY <1>4, <1>5, <1>6, QueueStatesKeep
<1>8. QueueKnows(queue', workers'[w], QueueWaiting')
  <2>1. PICK pc \in {"complete", "bury", "resend"} :
           /\ workers'[w] = [pc |-> pc, batch |-> workers[w].batch \ {l}, at |-> l]
           /\ pc = "complete" => accepted
    <3> DEFINE pc == CASE accepted -> "complete" [] ~accepted /\ Q!Exhausted(l) -> "bury" [] OTHER -> "resend"
    <3>1. workers'[w] = [pc |-> pc, batch |-> workers[w].batch \ {l}, at |-> l]
      BY DEF Q!Attempt
    <3>2. pc \in {"complete", "bury", "resend"} /\ (pc = "complete" => accepted)
      OBVIOUS
    <3> HIDE DEF pc
    <3> QED BY <3>1, <3>2
  <2> QED BY <1>1, <1>2, <1>4, <1>5, <2>1 DEF QueueKnows, QueueNumbers
<1> QED BY <1>3, <1>5, <1>7, <1>8, QueueStepInv DEF Q!Attempt, QueueIInv, QueueTypes

LEMMA QueueResendInv ==
  ASSUME QueueIInv, NEW w \in Workers, NEW sent \in BOOLEAN, Q!Resend(w, sent)
  PROVE  QueueIInv'
<1> USE Queue
<1>1. PICK at : at = workers[w].at[1]
  OBVIOUS
<1>2. QueueKnows(queue, workers[w], QueueWaiting) /\ workers[w].pc = "resend" /\ at \in QueueNumbers
  BY <1>1 DEF Q!Resend, Q!At, QueueKnows, QueueNumbers
<1>3. /\ queue' \in Seq(QueueMessageType) /\ QueueLastIsThere' /\ QueuePersists
      /\ queue[at].event \in QueueWaiting' => QueueLater(queue', at)
  BY <1>1, <1>2, QueueSendKeeps DEF Q!Resend, Q!Of
<1>4. workers'[w] = [workers[w] EXCEPT !.pc = "complete"]
  BY DEF Q!Resend, Q!Go
<1>5. QueueKnows(queue', workers'[w], QueueWaiting')
  BY <1>1, <1>2, <1>3, <1>4 DEF QueueKnows, QueuePersists, QueueNumbers
<1> QED BY <1>3, <1>5, QueueStepInv DEF Q!Resend, Q!Go, QueueIInv, QueueTypes

LEMMA QueueBuryInv ==
  ASSUME QueueIInv, NEW w \in Workers, Q!Bury(w)
  PROVE  QueueIInv'
<1> USE Queue
<1>1. QueueKnows(queue, workers[w], QueueWaiting) /\ workers[w].pc = "bury" /\ workers[w].at[1] \in QueueNumbers
  BY DEF Q!Bury, Q!At, QueueKnows, QueueNumbers
<1>2. queue' \in Seq(QueueMessageType) /\ QueueLastIsThere' /\ QueuePersists
  BY QueueFrame DEF Q!Bury
<1>3. workers'[w] = [workers[w] EXCEPT !.pc = "deadletter"]
  BY DEF Q!Bury, Q!Go
<1>4. QueueKnows(queue', workers'[w], QueueWaiting')
  BY <1>1, <1>3 DEF QueueKnows, QueueNumbers, Q!Bury
<1> QED BY <1>1, <1>2, <1>4, QueueStepInv DEF Q!Bury, Q!Go, QueueIInv, QueueTypes

LEMMA QueueSettleInv ==
  ASSUME QueueIInv, NEW w \in Workers, NEW ok \in BOOLEAN, Q!Settle(w, ok)
  PROVE  QueueIInv'
<1> USE Queue
<1>1. PICK at : at = workers[w].at[1]
  OBVIOUS
<1>2. QueueKnows(queue, workers[w], QueueWaiting) /\ at \in QueueNumbers
      /\ (workers[w].pc = "complete" /\ queue[at].event \in QueueWaiting => QueueLater(queue, at))
  BY <1>1 DEF Q!Settle, Q!At, QueueKnows, QueueNumbers
<1>3. \A f \in Events : f \in QueueWaiting' => f \in QueueWaiting
  BY DEF Q!Settle, QueueWaiting
<1>4. queue' \in Seq(QueueMessageType) /\ QueueLastIsThere' /\ QueuePersists /\ QueueNumbers' = QueueNumbers
  <2>1. CASE ~ok
    BY <2>1, QueueFrame DEF Q!Settle, QueueNumbers
  <2>2. CASE ok
    <3>1. PICK s \in {"done", "dead"} : /\ queue' = [queue EXCEPT ![at].state = s]
                                        /\ s = "done" => workers[w].pc = "complete"
      BY <1>1, <2>2 DEF Q!Settle, Q!At
    <3>2. queue' \in Seq(QueueMessageType) /\ QueueNumbers' = QueueNumbers
          /\ \A k \in QueueNumbers : queue'[k].event = queue[k].event
               /\ (queue'[k].state = "done" => queue[k].state = "done" \/ (k = at /\ s = "done"))
      <4>1. at \in DOMAIN queue /\ s \in {"ready", "locked", "done", "dead"}
        BY <1>2 DEF QueueNumbers
      <4>2. /\ queue' \in Seq(QueueMessageType) /\ DOMAIN queue' = DOMAIN queue
            /\ \A k \in DOMAIN queue :
                 /\ queue'[k].event = queue[k].event
                 /\ queue'[k].state = IF k = at THEN s ELSE queue[k].state
        BY <3>1, <4>1, QueueStateSet
      <4> QED BY <4>2 DEF QueueNumbers
    <3> QED BY <1>2, <1>3, <3>1, <3>2, QueueStatesKeep
  <2> QED BY <2>1, <2>2
<1>5. QueueKnows(queue', workers'[w], QueueWaiting')
  <2>1. workers'[w] = [pc |-> "next", batch |-> workers[w].batch, at |-> <<0, 0>>]
    BY <1>2 DEF Q!Settle, QueueKnows
  <2> QED BY <1>2, <1>4, <2>1 DEF QueueKnows, QueueNumbers
<1> QED BY <1>4, <1>5, QueueStepInv DEF Q!Settle, QueueIInv, QueueTypes

LEMMA QueueLeaveInv ==
  ASSUME QueueIInv, NEW w \in Workers, Q!Leave(w)
  PROVE  QueueIInv'
<1>1. queue' \in Seq(QueueMessageType) /\ QueueLastIsThere' /\ QueuePersists
  BY QueueFrame DEF Q!Leave
<1>2. QueueKnows(queue', workers'[w], QueueWaiting')
  BY Queue DEF Q!Leave, QueueKnows, Q!Idle
<1> QED BY <1>1, <1>2, QueueStepInv, Queue DEF Q!Leave, QueueIInv, QueueTypes

\* The replay of dead letters sends messages for entries, and only those.
LEMMA QueueReadEntriesInv ==
  ASSUME QueueIInv, NEW Some \in SUBSET entries, Q!ReadEntries(Some)
  PROVE  QueueIInv'
<1>1. queue' \in Seq(QueueMessageType) /\ QueueLastIsThere' /\ QueuePersists
  BY QueueFrame DEF Q!ReadEntries
<1> QED BY <1>1, QueueStepInv, Queue DEF Q!ReadEntries, QueueIInv, QueueTypes

LEMMA QueueRequeueInv ==
  ASSUME QueueIInv, NEW l \in entries, NEW sent \in BOOLEAN, Q!Requeue(l, sent)
  PROVE  QueueIInv'
<1>1. l[1] \in QueueNumbers /\ queue[l[1]].event \in Events
  BY Queue DEF QueueIInv, QueueTypes
<1>2. Q!Send(queue, queue[l[1]].event, 1, sent) /\ attempts' = attempts
  BY DEF Q!Requeue, Q!Of
<1>3. queue' \in Seq(QueueMessageType) /\ QueueLastIsThere' /\ QueuePersists
  <2>1. PICK e \in Events : e = queue[l[1]].event
    BY <1>1
  <2> QED BY <1>2, <2>1, QueueSendKeeps
<1>4. \A k \in requeue'.todo : k[1] \in QueueNumbers
  BY DEF Q!Requeue, QueueIInv, QueueTypes
<1> QED BY <1>2, <1>3, <1>4, QueueStepInv, Queue DEF Q!Requeue, QueueIInv, QueueTypes

LEMMA QueueEndRequeueInv ==
  ASSUME QueueIInv, NEW committed \in BOOLEAN, Q!EndRequeue(committed)
  PROVE  QueueIInv'
<1>1. queue' \in Seq(QueueMessageType) /\ QueueLastIsThere' /\ QueuePersists
  BY QueueFrame DEF Q!EndRequeue
<1> QED BY <1>1, QueueStepInv, Queue DEF Q!EndRequeue, Q!NoRequeue, QueueIInv, QueueTypes

LEMMA QueueStutterInv ==
  ASSUME QueueIInv, UNCHANGED Q!vars
  PROVE  QueueIInv'
<1>1. queue' \in Seq(QueueMessageType) /\ QueueLastIsThere' /\ QueuePersists
  BY QueueFrame DEF Q!vars
<1> QED BY <1>1, QueueStepInv, Queue DEF Q!vars, QueueIInv, QueueTypes
-----------------------------------------------------------------------------
LEMMA QueueNextInv == QueueIInv /\ [Q!Next]_(Q!vars) => QueueIInv'
<1> SUFFICES ASSUME QueueIInv, [Q!Next]_(Q!vars) PROVE QueueIInv'
  OBVIOUS
<1>0. CASE \E e \in Events : Q!Record(e)
  BY <1>0, QueueRecordInv
<1>1. CASE \E e \in Events, sent \in BOOLEAN : Q!Enqueue(e, sent)
  BY <1>1, QueueEnqueueInv
<1>2. CASE \E m \in DOMAIN queue : Q!Expire(m)
  BY <1>2, QueueExpireInv
<1>3. CASE \E w \in Workers, Some \in SUBSET DOMAIN queue : Q!Receive(w, Some)
  BY <1>3, QueueReceiveInv
<1>4. CASE \E w \in Workers, l \in Q!Locks, accepted \in BOOLEAN : Q!Attempt(w, l, accepted)
  BY <1>4, QueueAttemptInv
<1>5. CASE \E w \in Workers, b \in BOOLEAN : Q!Resend(w, b) \/ Q!Settle(w, b)
  BY <1>5, QueueResendInv, QueueSettleInv
<1>6. CASE \E w \in Workers : Q!Bury(w) \/ Q!Leave(w)
  BY <1>6, QueueBuryInv, QueueLeaveInv
<1>7. CASE \E Some \in SUBSET entries : Q!ReadEntries(Some)
  BY <1>7, QueueReadEntriesInv
<1>8. CASE \E l \in entries, sent \in BOOLEAN : Q!Requeue(l, sent)
  BY <1>8, QueueRequeueInv
<1>9. CASE \E committed \in BOOLEAN : Q!EndRequeue(committed)
  BY <1>9, QueueEndRequeueInv
<1>10. CASE UNCHANGED Q!vars
  BY <1>10, QueueStutterInv
<1> QED BY <1>0, <1>1, <1>2, <1>3, <1>4, <1>5, <1>6, <1>7, <1>8, <1>9, <1>10 DEF Q!Next

LEMMA QueueSpecInv == Q!Spec => []QueueIInv
BY QueueInitInv, QueueNextInv, PTL DEF Q!Spec

\* Webhooks of the queue: unless a send failed, an event that was neither delivered nor
\* refused is still kept, in the queue or in a dead-letter entry nobody retried; for any
\* number of events, workers and messages, through lock expiries, redeliveries, replays
\* and crashes.
THEOREM QueuedNothingLost == Q!Spec => []Q!NothingLost
<1>1. QueueIInv => Q!NothingLost
  <2> SUFFICES ASSUME QueueIInv, NEW e \in Events \ dropped, attempts[e] = "open" PROVE Q!Kept(e)
    BY DEF Q!NothingLost
  <2>1. PICK m \in QueueNumbers : queue[m].event = e /\ queue[m].state # "done"
    BY DEF QueueIInv, QueueLastIsThere, QueueWaiting
  <2> QED BY <2>1 DEF Q!Kept, QueueNumbers
<1> QED BY <1>1, QueueSpecInv, PTL
-----------------------------------------------------------------------------
(* The shape of the queue, by the invariant above. *)

QueueShaped(m) == m.attempt \in 1..MaxAttempts /\ m.n \in 0..MaxDeliveries /\ (m.state = "ready" => m.n < MaxDeliveries)

\* A worker is about to send again only what has attempts left.
QueueWorks(q, r) ==
  /\ r.pc \in {"idle", "next", "resend", "bury", "deadletter", "complete"}
  /\ r.batch \subseteq Q!Locks /\ r.at \in Q!Locks \cup {<<0, 0>>}
  /\ r.pc \in {"resend", "bury"} => r.at \in Q!Locks
  /\ r.pc = "resend" => q[r.at[1]].attempt < MaxAttempts

QueueShape ==
  /\ Len(queue) <= MaxMessages /\ \A m \in QueueNumbers : QueueShaped(queue[m])
  /\ retried \subseteq entries /\ entries \subseteq Q!Locks /\ dropped \subseteq Events
  /\ \A w \in Workers : QueueWorks(queue, workers[w])
  /\ requeue.pc \in {"idle", "send"} /\ requeue.todo \cup requeue.done \subseteq entries

LEMMA QueueShapeInit == Q!Init => QueueShape
<1> SUFFICES ASSUME Q!Init PROVE QueueShape
  OBVIOUS
<1>1. \A w \in Workers : QueueWorks(queue, workers[w])
  BY DEF Q!Init, QueueWorks, Q!Idle
<1>2. Len(queue) <= MaxMessages /\ QueueNumbers = {}
  BY QueueConstants, EmptySeq DEF Q!Init, QueueNumbers
<1> QED BY <1>1, <1>2 DEF Q!Init, QueueShape, Q!NoRequeue

\* What a step owes to the shape.
LEMMA QueueShapeStep ==
  ASSUME QueueIInv, QueueShape, Len(queue') <= MaxMessages, \A m \in QueueNumbers' : QueueShaped(queue'[m]),
         \A m \in QueueNumbers : queue'[m].attempt = queue[m].attempt,
         \A w \in Workers : workers'[w] = workers[w] \/ QueueWorks(queue', workers'[w]),
         retried' \subseteq entries', entries' \subseteq Q!Locks, dropped' \subseteq Events,
         requeue'.pc \in {"idle", "send"}, requeue'.todo \cup requeue'.done \subseteq entries'
  PROVE  QueueShape'
<1>1. ASSUME NEW w \in Workers, workers'[w] = workers[w] PROVE QueueWorks(queue', workers'[w])
  <2>1. QueueWorks(queue, workers[w]) /\ QueueKnows(queue, workers[w], QueueWaiting)
    BY DEF QueueShape, QueueIInv
  <2>2. workers[w].pc = "resend" => workers[w].at[1] \in QueueNumbers
    BY <2>1 DEF QueueKnows, QueueNumbers
  <2> QED BY <1>1, <2>1, <2>2 DEF QueueWorks
<1> QED BY <1>1 DEF QueueShape

\* A step that leaves the queue alone.
LEMMA QueueShapeFrame ==
  ASSUME QueueShape, queue' = queue
  PROVE  /\ Len(queue') <= MaxMessages /\ \A m \in QueueNumbers' : QueueShaped(queue'[m])
         /\ \A m \in QueueNumbers : queue'[m].attempt = queue[m].attempt
BY DEF QueueShape, QueueNumbers

LEMMA QueueShapeSend ==
  ASSUME QueueIInv, QueueShape, NEW e \in Events, NEW a \in 1..MaxAttempts, NEW sent \in BOOLEAN, Q!Send(queue, e, a, sent)
  PROVE  /\ Len(queue') <= MaxMessages /\ \A m \in QueueNumbers' : QueueShaped(queue'[m])
         /\ (\A m \in QueueNumbers : queue'[m].attempt = queue[m].attempt) /\ dropped' \subseteq Events
<1>1. CASE sent
  <2>1. Len(queue) < MaxMessages /\ queue' = Append(queue, Q!Message(e, a)) /\ Len(queue) \in Nat
    BY <1>1, Queue DEF Q!Send
  <2>2. Q!Message(e, a) \in QueueMessageType /\ QueueShaped(Q!Message(e, a))
    BY QueueConstants DEF Q!Message, QueueMessageType, QueueShaped
  <2>3. /\ queue' \in Seq(QueueMessageType) /\ Len(queue') = Len(queue) + 1 /\ queue'[Len(queue) + 1] = Q!Message(e, a)
        /\ \A m \in 1 .. Len(queue) : queue'[m] = queue[m]
    BY <2>1, <2>2, Queue, AppendProperties
  <2>4. QueueNumbers' = 1 .. Len(queue) + 1 /\ QueueNumbers = 1 .. Len(queue)
    BY <2>3, Queue, LenProperties DEF QueueNumbers
  <2>5. \A m \in QueueNumbers' : m = Len(queue) + 1 \/ m \in QueueNumbers
    BY <2>1, <2>4
  <2>6. Len(queue') <= MaxMessages
    BY <2>1, <2>3, QueueConstants
  <2> QED BY <2>2, <2>3, <2>4, <2>5, <2>6 DEF QueueShape, Q!Send
<1>2. CASE ~sent
  BY <1>2, QueueShapeFrame DEF Q!Send, QueueShape
<1> QED BY <1>1, <1>2

\* The state of one message changes, and not back to ready unless it can be delivered again.
LEMMA QueueShapeState ==
  ASSUME QueueIInv, QueueShape, NEW m \in DOMAIN queue, NEW s \in {"ready", "locked", "done", "dead"},
         queue' = [queue EXCEPT ![m].state = s], s = "ready" => queue[m].n < MaxDeliveries
  PROVE  /\ Len(queue') <= MaxMessages /\ \A k \in QueueNumbers' : QueueShaped(queue'[k])
         /\ \A k \in QueueNumbers : queue'[k].attempt = queue[k].attempt
<1>1. /\ queue' \in Seq(QueueMessageType) /\ DOMAIN queue' = DOMAIN queue
      /\ \A k \in DOMAIN queue : /\ queue'[k].attempt = queue[k].attempt /\ queue'[k].n = queue[k].n
                                 /\ queue'[k].state = IF k = m THEN s ELSE queue[k].state
  BY QueueStateSet
<1>2. Len(queue') = Len(queue)
  BY <1>1, Queue
<1> QED BY <1>1, <1>2 DEF QueueShape, QueueShaped, QueueNumbers

LEMMA QueueShapeEnqueue == ASSUME QueueIInv, QueueShape, NEW e \in Events, NEW sent \in BOOLEAN, Q!Enqueue(e, sent) PROVE QueueShape'
<1>1. 1 \in 1..MaxAttempts
  BY QueueConstants
<1> QED BY <1>1, QueueShapeSend, QueueShapeStep DEF Q!Enqueue, QueueShape

LEMMA QueueShapeExpire == ASSUME QueueIInv, QueueShape, NEW m \in DOMAIN queue, Q!Expire(m) PROVE QueueShape'
<1>1. \E s \in {"ready", "dead"} : queue' = [queue EXCEPT ![m].state = s] /\ (s = "ready" => queue[m].n < MaxDeliveries)
  BY DEF Q!Expire
<1> QED BY <1>1, QueueShapeState, QueueShapeStep DEF Q!Expire, QueueShape

LEMMA QueueShapeReceive ==
  ASSUME QueueIInv, QueueShape, NEW w \in Workers, NEW Some \in SUBSET DOMAIN queue, Q!Receive(w, Some)
  PROVE  QueueShape'
<1>1. /\ DOMAIN queue = 1 .. Len(queue) /\ Len(queue) \in Nat
      /\ \A m \in DOMAIN queue : queue[m] \in QueueMessageType /\ QueueShaped(queue[m])
      /\ \A m \in Some : queue[m].state = "ready"
  BY Queue DEF QueueShape, QueueNumbers, Q!Receive
<1>2. DOMAIN queue' = DOMAIN queue /\ Len(queue') = Len(queue)
  <2>1. DOMAIN queue' = DOMAIN queue
    BY DEF Q!Receive
  <2>2. QueueIInv'
    BY QueueReceiveInv
  <2>3. queue' \in Seq(QueueMessageType)
    BY <2>2 DEF QueueIInv, QueueTypes
  <2> QED BY <1>1, <2>1, <2>3
<1>3. ASSUME NEW m \in DOMAIN queue PROVE QueueShaped(queue'[m]) /\ queue'[m].attempt = queue[m].attempt
  <2>1. CASE m \notin Some
    BY <1>1, <2>1 DEF Q!Receive
  <2>2. CASE m \in Some
    <3>1. PICK q \in QueueMessageType : q = queue[m]
      BY <1>1
    <3>2. queue'[m] = [event |-> q.event, attempt |-> q.attempt, n |-> q.n + 1, state |-> "locked"]
      BY <2>2, <3>1 DEF Q!Receive, QueueMessageType
    <3>3. q.n \in 0..MaxDeliveries /\ q.n < MaxDeliveries /\ q.attempt \in 1..MaxAttempts
      BY <1>1, <2>2, <3>1 DEF QueueShaped
    <3> QED BY <3>1, <3>2, <3>3, QueueConstants DEF QueueShaped
  <2> QED BY <2>1, <2>2
<1>4. \A m \in Some : <<m, queue[m].n + 1>> \in Q!Locks
  BY <1>1, QueueConstants DEF QueueShape, QueueShaped, Q!Locks, Q!Messages
<1>5. QueueWorks(queue', workers'[w])
  <2> DEFINE batch == {<<m, queue[m].n + 1>> : m \in Some}
  <2>1. workers'[w] = [pc |-> "next", batch |-> batch, at |-> <<0, 0>>]
    BY Queue DEF Q!Receive, Q!Idle
  <2>2. batch \subseteq Q!Locks
    BY <1>4
  <2> HIDE DEF batch
  <2> QED BY <2>1, <2>2 DEF QueueWorks
<1>6. Len(queue') <= MaxMessages /\ \A m \in QueueNumbers' : QueueShaped(queue'[m])
  BY <1>2, <1>3 DEF QueueShape, QueueNumbers
<1>7. \A v \in Workers : workers'[v] = workers[v] \/ QueueWorks(queue', workers'[v])
  BY <1>5, Queue DEF Q!Receive
<1> QED BY <1>3, <1>6, <1>7, QueueShapeStep DEF Q!Receive, QueueShape, QueueNumbers

LEMMA QueueShapeAttempt ==
  ASSUME QueueIInv, QueueShape, NEW w \in Workers, NEW l \in Q!Locks, NEW accepted \in BOOLEAN, Q!Attempt(w, l, accepted)
  PROVE  QueueShape'
<1>1. QueueWorks(queue, workers[w]) /\ l[1] \in QueueNumbers /\ queue' = queue
  BY Queue DEF QueueShape, Q!Attempt, QueueKnows, QueueNumbers
<1>2. queue[l[1]].attempt \in 1..MaxAttempts
  BY <1>1 DEF QueueShape, QueueShaped
<1>3. PICK pc \in {"complete", "bury", "resend"} :
         /\ workers'[w] = [pc |-> pc, batch |-> workers[w].batch \ {l}, at |-> l]
         /\ pc = "resend" => ~Q!Exhausted(l)
  <2> DEFINE pc == CASE accepted -> "complete" [] ~accepted /\ Q!Exhausted(l) -> "bury" [] OTHER -> "resend"
  <2>1. workers'[w] = [pc |-> pc, batch |-> workers[w].batch \ {l}, at |-> l]
    BY Queue DEF Q!Attempt
  <2>2. pc \in {"complete", "bury", "resend"} /\ (pc = "resend" => ~Q!Exhausted(l))
    OBVIOUS
  <2> HIDE DEF pc
  <2> QED BY <2>1, <2>2
<1>4. ~Q!Exhausted(l) => queue[l[1]].attempt < MaxAttempts
  BY <1>2, QueueConstants DEF Q!Exhausted, Q!Of
<1>5. QueueWorks(queue', workers'[w])
  BY <1>1, <1>3, <1>4 DEF QueueWorks
<1>6. \A v \in Workers : workers'[v] = workers[v] \/ QueueWorks(queue', workers'[v])
  BY <1>5, Queue DEF Q!Attempt
<1> QED BY <1>1, <1>6, QueueShapeFrame, QueueShapeStep DEF Q!Attempt, QueueShape

LEMMA QueueShapeResend ==
  ASSUME QueueIInv, QueueShape, NEW w \in Workers, NEW sent \in BOOLEAN, Q!Resend(w, sent)
  PROVE  QueueShape'
<1>1. PICK at : at = workers[w].at[1]
  OBVIOUS
<1>2. QueueWorks(queue, workers[w]) /\ at \in QueueNumbers /\ queue[at].attempt < MaxAttempts /\ workers[w].at \in Q!Locks
  BY <1>1, Queue DEF QueueShape, Q!Resend, Q!At, QueueKnows, QueueNumbers, QueueWorks
<1>3. queue[at].event \in Events /\ queue[at].attempt + 1 \in 1..MaxAttempts
  BY <1>2, Queue, QueueConstants DEF QueueShape, QueueShaped
<1>4. Q!Send(queue, queue[at].event, queue[at].attempt + 1, sent)
  BY <1>1 DEF Q!Resend, Q!Of
<1>5. /\ Len(queue') <= MaxMessages /\ \A m \in QueueNumbers' : QueueShaped(queue'[m])
      /\ (\A m \in QueueNumbers : queue'[m].attempt = queue[m].attempt) /\ dropped' \subseteq Events
  <2>1. PICK e \in Events, a \in 1..MaxAttempts : e = queue[at].event /\ a = queue[at].attempt + 1
    BY <1>3
  <2> QED BY <1>4, <2>1, QueueShapeSend
<1>6. workers'[w] = [pc |-> "complete", batch |-> workers[w].batch, at |-> workers[w].at]
  BY Queue DEF Q!Resend, Q!Go, QueueKnows
<1>7. QueueWorks(queue', workers'[w])
  BY <1>2, <1>6 DEF QueueWorks
<1> QED BY <1>5, <1>7, QueueShapeStep DEF Q!Resend, Q!Go, QueueShape

LEMMA QueueShapeBury == ASSUME QueueIInv, QueueShape, NEW w \in Workers, Q!Bury(w) PROVE QueueShape'
<1>1. QueueWorks(queue, workers[w]) /\ workers[w].at \in Q!Locks /\ queue' = queue
  BY DEF QueueShape, Q!Bury, Q!At, QueueWorks
<1>2. workers'[w] = [pc |-> "deadletter", batch |-> workers[w].batch, at |-> workers[w].at]
  BY Queue DEF Q!Bury, Q!Go, QueueKnows
<1>3. QueueWorks(queue', workers'[w])
  BY <1>1, <1>2 DEF QueueWorks
<1> QED BY <1>1, <1>3, QueueShapeFrame, QueueShapeStep DEF Q!Bury, Q!Go, QueueShape

LEMMA QueueShapeSettle == ASSUME QueueIInv, QueueShape, NEW w \in Workers, NEW ok \in BOOLEAN, Q!Settle(w, ok) PROVE QueueShape'
<1>1. PICK at : at = workers[w].at[1]
  OBVIOUS
<1>2. QueueWorks(queue, workers[w]) /\ at \in DOMAIN queue
  BY <1>1, Queue DEF QueueShape, Q!Settle, Q!At, QueueKnows
<1>3. workers'[w] = [pc |-> "next", batch |-> workers[w].batch, at |-> <<0, 0>>]
  BY Queue DEF Q!Settle, QueueKnows
<1>4. QueueWorks(queue', workers'[w])
  BY <1>2, <1>3 DEF QueueWorks
<1>5. queue' = queue \/ \E s \in {"done", "dead"} : queue' = [queue EXCEPT ![at].state = s]
  BY <1>1 DEF Q!Settle
<1>6. /\ Len(queue') <= MaxMessages /\ \A m \in QueueNumbers' : QueueShaped(queue'[m])
      /\ \A m \in QueueNumbers : queue'[m].attempt = queue[m].attempt
  BY <1>2, <1>5, QueueShapeFrame, QueueShapeState
<1>7. \A v \in Workers : workers'[v] = workers[v] \/ QueueWorks(queue', workers'[v])
  BY <1>4, Queue DEF Q!Settle
<1> QED BY <1>6, <1>7, QueueShapeStep DEF Q!Settle, QueueShape

LEMMA QueueShapeRequeue ==
  ASSUME QueueIInv, QueueShape, NEW l \in entries, NEW sent \in BOOLEAN, Q!Requeue(l, sent)
  PROVE  QueueShape'
<1>1. queue[l[1]].event \in Events /\ 1 \in 1..MaxAttempts
  BY Queue, QueueConstants DEF QueueIInv, QueueTypes
<1>2. Q!Send(queue, queue[l[1]].event, 1, sent)
  BY DEF Q!Requeue, Q!Of
<1>3. /\ Len(queue') <= MaxMessages /\ \A m \in QueueNumbers' : QueueShaped(queue'[m])
      /\ (\A m \in QueueNumbers : queue'[m].attempt = queue[m].attempt) /\ dropped' \subseteq Events
  <2>1. PICK e \in Events : e = queue[l[1]].event
    BY <1>1
  <2> QED BY <1>1, <1>2, <2>1, QueueShapeSend
<1> QED BY <1>3, QueueShapeStep DEF Q!Requeue, QueueShape

LEMMA QueueShapeNext == QueueIInv /\ QueueShape /\ [Q!Next]_(Q!vars) => QueueShape'
<1> SUFFICES ASSUME QueueIInv, QueueShape, [Q!Next]_(Q!vars) PROVE QueueShape'
  OBVIOUS
<1>0. ASSUME NEW e \in Events, Q!Record(e) PROVE QueueShape'
  BY <1>0, QueueShapeFrame, QueueShapeStep DEF Q!Record, QueueShape
<1>1. CASE \E e \in Events, sent \in BOOLEAN : Q!Enqueue(e, sent)
  BY <1>1, QueueShapeEnqueue
<1>2. CASE \E m \in DOMAIN queue : Q!Expire(m)
  BY <1>2, QueueShapeExpire
<1>3. CASE \E w \in Workers, Some \in SUBSET DOMAIN queue : Q!Receive(w, Some)
  BY <1>3, QueueShapeReceive
<1>4. CASE \E w \in Workers, l \in Q!Locks, accepted \in BOOLEAN : Q!Attempt(w, l, accepted)
  BY <1>4, QueueShapeAttempt
<1>5. CASE \E w \in Workers, b \in BOOLEAN : Q!Resend(w, b) \/ Q!Settle(w, b)
  BY <1>5, QueueShapeResend, QueueShapeSettle
<1>6. ASSUME NEW w \in Workers, Q!Bury(w) \/ Q!Leave(w) PROVE QueueShape'
  <2>1. CASE Q!Leave(w)
    <3>1. QueueWorks(queue', workers'[w])
      BY <2>1, Queue DEF Q!Leave, QueueWorks, Q!Idle
    <3> QED BY <2>1, <3>1, QueueShapeFrame, QueueShapeStep DEF Q!Leave, QueueShape
  <2> QED BY <1>6, <2>1, QueueShapeBury
<1>7. ASSUME NEW Some \in SUBSET entries, Q!ReadEntries(Some) PROVE QueueShape'
  BY <1>7, QueueShapeFrame, QueueShapeStep DEF Q!ReadEntries, QueueShape
<1>8. CASE \E l \in entries, sent \in BOOLEAN : Q!Requeue(l, sent)
  BY <1>8, QueueShapeRequeue
<1>9. ASSUME NEW committed \in BOOLEAN, Q!EndRequeue(committed) PROVE QueueShape'
  BY <1>9, QueueShapeFrame, QueueShapeStep DEF Q!EndRequeue, Q!NoRequeue, QueueShape
<1>10. CASE UNCHANGED Q!vars
  BY <1>10, QueueShapeFrame, QueueShapeStep DEF Q!vars, QueueShape
<1> QED BY <1>0, <1>1, <1>2, <1>3, <1>4, <1>5, <1>6, <1>7, <1>8, <1>9, <1>10 DEF Q!Next

LEMMA QueueSpecTypes == Q!Spec => []Q!TypeOK
<1>1. QueueIInv /\ QueueShape => Q!TypeOK
  <2> SUFFICES ASSUME QueueIInv, QueueShape PROVE Q!TypeOK
    OBVIOUS
  <2>1. \A m \in DOMAIN queue : queue[m] \in QueueMessageType /\ QueueShaped(queue[m])
    BY Queue DEF QueueShape, QueueNumbers
  <2>2. \A w \in Workers : QueueWorks(queue, workers[w])
    BY DEF QueueShape
  <2>3. \A m \in DOMAIN queue : queue[m] \in
            [event : Events, attempt : 1 .. MaxAttempts, n : 0 .. MaxDeliveries,
             state : {"ready", "locked", "done", "dead"}]
    BY <2>1 DEF QueueMessageType, QueueShaped
  <2>4. dropped \subseteq Events /\ Len(queue) <= MaxMessages /\ attempts \in [Events -> {"none", "recorded", "open", "final"}]
    BY DEF QueueShape, QueueIInv, QueueTypes
  <2> QED BY <2>2, <2>3, <2>4 DEF Q!TypeOK, QueueShape, QueueWorks
<1> QED BY <1>1, QueueSpecInv, QueueInitInv, QueueNextInv, QueueShapeInit, QueueShapeNext, PTL DEF Q!Spec
-----------------------------------------------------------------------------
(* EventDelivery: a count that a fan-out has read stands for failures that happened. *)

LEMMA EventsConstants == MaxRetries \in Nat \ {0} /\ MaxFailedDeliveries \in Nat /\ MaxEvents \in Nat
  BY ServicesAssumption
-----------------------------------------------------------------------------
\* The rows of TypeOK.
EventsSubRows == [url : Urls \cup {None}, status : {"free", "active", "paused", "deleted"}, fails : Nat]
EventsFans == [pc : {"idle", "next", "try", "commit"}, todo : SUBSET Subs,
         at : Subs \cup {None}, seen : [Subs -> Nat], count : Nat,
         tries : 0 .. MaxRetries, won : BOOLEAN]
EventsRegs == [pc : {"idle", "insert", "update"}, url : Urls \cup {None}, row : Subs \cup {None},
         status : {"free", "active", "paused"}, fails : Nat]
EventsTypes ==
  /\ subs \in [Subs -> EventsSubRows]
  /\ deliveries \in [Subs -> [any : BOOLEAN, failed : Nat]]
  /\ fan \in [Dispatchers -> EventsFans]
  /\ reg \in [Registrars -> EventsRegs]
  /\ events \in 0 .. MaxEvents

\* What fan-out f counts has failed: before it began, or in its own tries, which the
\* commit is still to add to the table.
EventsCounts(f, table) ==
  /\ \A s \in Subs : f.seen[s] <= table[s].failed
  /\ f.pc \in {"idle", "next"} => f.tries = 0
  /\ f.pc \in {"try", "commit"} => f.at \in Subs
  /\ f.pc \in {"idle", "next", "try"} => ~f.won
  /\ f.pc = "try" => f.tries < MaxRetries /\ f.count <= table[f.at].failed + f.tries
  /\ f.pc = "commit" =>
       IF f.won THEN f.count = 0 /\ f.tries >= 1 ELSE f.count <= table[f.at].failed + f.tries

EventsIInv ==
  /\ EventsTypes
  /\ E!PausedHadFailures
  /\ \A s \in Subs : subs[s].fails <= deliveries[s].failed
  /\ \A d \in Dispatchers : EventsCounts(fan[d], deliveries)
  /\ \A r \in Registrars : reg[r].pc = "update" => reg[r].row \in Subs
-----------------------------------------------------------------------------
LEMMA EventsNoFanIsOne == E!NoFan \in EventsFans /\ (EventsTypes => EventsCounts(E!NoFan, deliveries)) /\ E!NoReg \in EventsRegs
<1>1. E!NoFan \in EventsFans /\ E!NoReg \in EventsRegs
  BY EventsConstants DEF E!NoFan, EventsFans, E!NoReg, EventsRegs
<1>2. EventsTypes => EventsCounts(E!NoFan, deliveries)
  BY DEF E!NoFan, EventsCounts, EventsTypes
<1> QED BY <1>1, <1>2

LEMMA EventsInitInv == E!Init => EventsIInv
<1> SUFFICES ASSUME E!Init PROVE EventsIInv
  OBVIOUS
<1>1. EventsTypes
  BY EventsNoFanIsOne, EventsConstants DEF E!Init, EventsTypes, EventsSubRows
<1> QED BY <1>1, EventsNoFanIsOne DEF E!Init, EventsIInv, E!PausedHadFailures, E!NoReg

\* The deliveries of others are only added.
LEMMA EventsCountsGrow ==
  ASSUME NEW f \in EventsFans, NEW table, NEW longer, EventsCounts(f, table),
         \A s \in Subs : /\ table[s].failed \in Nat /\ longer[s].failed \in Nat
                         /\ table[s].failed <= longer[s].failed
  PROVE  EventsCounts(f, longer)
<1>1. f.count \in Nat /\ f.tries \in Nat /\ f.seen \in [Subs -> Nat]
  BY EventsConstants DEF EventsFans
<1>2. \A s \in Subs : f.seen[s] <= longer[s].failed
  BY <1>1 DEF EventsCounts
<1> QED BY <1>1, <1>2 DEF EventsCounts

\* A commit adds at least as many failures as it writes.
LEMMA EventsWrittenInv ==
  ASSUME EventsIInv, NEW d \in Dispatchers, NEW s \in Subs, NEW n \in Nat, NEW wrote \in BOOLEAN,
         NEW lost \in Nat, n <= deliveries[s].failed + lost, E!Written(d, s, n, wrote, lost)
  PROVE  EventsIInv'
<1>a. /\ subs[s] \in EventsSubRows /\ deliveries[s] \in [any : BOOLEAN, failed : Nat] /\ fan[d] \in EventsFans
      /\ deliveries[s].failed \in Nat
  BY DEF EventsIInv, EventsTypes
<1> DEFINE record == [subs[s] EXCEPT !.fails = IF wrote THEN n ELSE @,
                                  !.status = IF E!Pauses(n) THEN "paused" ELSE @]
           done == [any |-> TRUE, failed |-> deliveries[s].failed + lost]
           f == [fan[d] EXCEPT !.pc = "next", !.at = None, !.count = 0, !.tries = 0, !.won = FALSE]
<1>1. /\ subs' = [subs EXCEPT ![s] = record] /\ deliveries' = [deliveries EXCEPT ![s] = done]
      /\ fan' = [fan EXCEPT ![d] = f] /\ reg' = reg /\ events' = events
  BY <1>a DEF E!Written, EventsIInv, EventsTypes
<1>2. record \in EventsSubRows /\ record.fails = (IF wrote THEN n ELSE subs[s].fails)
      /\ record.status = (IF E!Pauses(n) THEN "paused" ELSE subs[s].status)
  BY <1>a DEF EventsSubRows
<1>3. done \in [any : BOOLEAN, failed : Nat] /\ done.failed = deliveries[s].failed + lost
  BY <1>a
<1>4. f \in EventsFans /\ f.pc = "next" /\ f.tries = 0 /\ ~f.won /\ f.seen = fan[d].seen
  <2>1. 0 \in 0 .. MaxRetries /\ 0 \in Nat /\ "next" \in {"idle", "next", "try", "commit"}
    BY EventsConstants
  <2> QED BY <1>a, <2>1 DEF EventsFans
<1> HIDE DEF record, done, f
<1>5. EventsTypes'
  BY <1>1, <1>2, <1>3, <1>4 DEF EventsIInv, EventsTypes
<1>6. /\ \A t \in Subs : /\ deliveries[t].failed \in Nat /\ deliveries'[t].failed \in Nat
                         /\ deliveries[t].failed <= deliveries'[t].failed
      /\ deliveries'[s].failed = deliveries[s].failed + lost
  BY <1>1, <1>3 DEF EventsIInv, EventsTypes
<1>7. ASSUME NEW t \in Subs
      PROVE  (subs[t].status = "paused" => deliveries[t].failed >= MaxFailedDeliveries)'
             /\ (subs[t].fails <= deliveries[t].failed)'
  <2>1. CASE t # s
    BY <1>1, <2>1 DEF EventsIInv, EventsTypes, E!PausedHadFailures
  <2>2. CASE t = s
    <3>1. subs'[s] = record /\ subs[s].fails \in Nat
      BY <1>1, <1>a DEF EventsIInv, EventsTypes, EventsSubRows
    <3>2. subs[s].fails <= deliveries[s].failed /\ (subs[s].status = "paused" => deliveries[s].failed >= MaxFailedDeliveries)
      BY DEF EventsIInv, E!PausedHadFailures
    <3> QED BY <1>2, <1>6, <2>2, <3>1, <3>2, EventsConstants DEF E!Pauses
  <2> QED BY <2>1, <2>2
<1>8. ASSUME NEW e \in Dispatchers PROVE EventsCounts(fan'[e], deliveries')
  <2>1. fan[e] \in EventsFans /\ EventsCounts(fan[e], deliveries)
    BY DEF EventsIInv, EventsTypes
  <2>2. EventsCounts(fan[e], deliveries')
    BY <1>6, <2>1, EventsCountsGrow
  <2>3. CASE e = d
    <3>1. fan'[e] = f
      BY <1>1, <2>3 DEF EventsIInv, EventsTypes
    <3> QED BY <1>4, <2>2, <2>3, <3>1 DEF EventsCounts
  <2>4. CASE e # d
    BY <1>1, <2>2, <2>4 DEF EventsIInv, EventsTypes
  <2> QED BY <2>3, <2>4
<1> QED BY <1>1, <1>5, <1>7, <1>8 DEF EventsIInv, E!PausedHadFailures

\* A step of a fan-out that writes nothing.
LEMMA EventsFanInv ==
  ASSUME EventsIInv, NEW d \in Dispatchers, NEW f \in EventsFans, fan' = [fan EXCEPT ![d] = f],
         EventsCounts(f, deliveries), UNCHANGED <<subs, deliveries, reg>>, events' \in 0 .. MaxEvents
  PROVE  EventsIInv'
<1>1. EventsTypes'
  BY DEF EventsIInv, EventsTypes
<1>2. \A e \in Dispatchers : EventsCounts(fan'[e], deliveries')
  BY DEF EventsIInv, EventsTypes
<1> QED BY <1>1, <1>2 DEF EventsIInv, E!PausedHadFailures

\* A step of the API on the row of s: it pauses nothing and invents no failure.
LEMMA EventsRowInv ==
  ASSUME EventsIInv, NEW s \in Subs, NEW record \in EventsSubRows, subs' = [subs EXCEPT ![s] = record],
         record.status = "paused" => subs[s].status = "paused",
         record.fails = 0 \/ record.fails = subs[s].fails,
         NEW r \in Registrars, NEW next \in EventsRegs, reg' = [reg EXCEPT ![r] = next],
         next.pc = "update" => next.row \in Subs,
         UNCHANGED <<deliveries, fan, events>>
  PROVE  EventsIInv'
<1>1. EventsTypes'
  BY DEF EventsIInv, EventsTypes
<1>2. \A t \in Subs : deliveries[t].failed \in Nat
  BY DEF EventsIInv, EventsTypes
<1>3. ASSUME NEW t \in Subs
      PROVE  (subs[t].status = "paused" => deliveries[t].failed >= MaxFailedDeliveries)'
             /\ (subs[t].fails <= deliveries[t].failed)'
  <2>1. subs'[t] = subs[t] \/ (t = s /\ subs'[t] = record)
    BY DEF EventsIInv, EventsTypes
  <2> QED BY <2>1, <1>2 DEF EventsIInv, E!PausedHadFailures
<1> QED BY <1>1, <1>3 DEF EventsIInv, E!PausedHadFailures, EventsTypes

LEMMA EventsNextInv == EventsIInv /\ [E!Next]_(E!vars) => EventsIInv'
<1> SUFFICES ASSUME EventsIInv, [E!Next]_(E!vars) PROVE EventsIInv'
  OBVIOUS
<1>a. /\ \A d \in Dispatchers : fan[d] \in EventsFans /\ EventsCounts(fan[d], deliveries)
      /\ \A s \in Subs : subs[s] \in EventsSubRows /\ deliveries[s].failed \in Nat /\ subs[s].fails <= deliveries[s].failed
      /\ \A r \in Registrars : reg[r] \in EventsRegs
  BY DEF EventsIInv, EventsTypes
<1>1. ASSUME NEW r \in Registrars, NEW u \in Urls, E!SelectUrl(r, u) PROVE EventsIInv'
  <2> DEFINE found == {s \in Subs : E!Exists(s) /\ subs[s].url = u}
  <2>1. PICK next \in EventsRegs : reg' = [reg EXCEPT ![r] = next] /\ (next.pc = "update" => next.row \in Subs)
    <3>1. CASE found = {}
      <4>1. [E!NoReg EXCEPT !.pc = "insert", !.url = u] \in EventsRegs
        BY DEF E!NoReg, EventsRegs
      <4>2. [E!NoReg EXCEPT !.pc = "insert", !.url = u].pc = "insert"
        BY DEF E!NoReg
      <4> QED BY <1>1, <3>1, <4>1, <4>2 DEF E!SelectUrl
    <3>2. CASE found # {}
      <4>1. PICK s : s \in found /\ s = CHOOSE q \in found : TRUE
        BY <3>2
      <4>2. subs[s].status \in {"active", "paused"} /\ subs[s].fails \in Nat /\ s \in Subs
        BY <4>1, <1>a DEF E!Exists, EventsSubRows
      <4>3. [pc |-> "update", url |-> u, row |-> s, status |-> subs[s].status, fails |-> subs[s].fails] \in EventsRegs
        BY <4>2 DEF EventsRegs
      <4> QED BY <1>1, <3>2, <4>1, <4>2, <4>3 DEF E!SelectUrl
    <3> QED BY <3>1, <3>2
  <2> QED BY <1>1, <2>1 DEF E!SelectUrl, EventsIInv, EventsTypes, E!PausedHadFailures
<1>2. ASSUME NEW r \in Registrars, E!Insert(r) PROVE EventsIInv'
  <2>1. PICK s \in Subs : subs' = [subs EXCEPT ![s] = [url |-> reg[r].url, status |-> "active", fails |-> 0]]
    BY <1>2 DEF E!Insert
  <2>2. [url |-> reg[r].url, status |-> "active", fails |-> 0] \in EventsSubRows
    BY <1>a DEF EventsSubRows, EventsRegs
  <2> QED BY <1>2, <2>1, <2>2, EventsRowInv, EventsNoFanIsOne DEF E!Insert, E!NoReg
<1>3. ASSUME NEW r \in Registrars, E!Update(r) PROVE EventsIInv'
  <2>1. PICK s \in Subs : s = reg[r].row
    BY <1>3 DEF E!Update, EventsIInv
  <2> DEFINE record == IF ~E!Exists(s) THEN subs[s]
                    ELSE [subs[s] EXCEPT !.status = IF reg[r].status = "active" THEN @ ELSE "active",
                                         !.fails = IF reg[r].fails = 0 THEN @ ELSE 0]
  <2>2. /\ record \in EventsSubRows
        /\ record.status = "paused" => subs[s].status = "paused"
        /\ record.fails = 0 \/ record.fails = subs[s].fails
    BY <1>a DEF EventsSubRows
  <2>3. subs' = [subs EXCEPT ![s] = record]
    BY <1>3, <2>1 DEF E!Update, EventsIInv, EventsTypes
  <2> HIDE DEF record
  <2> QED BY <1>3, <2>2, <2>3, EventsRowInv, EventsNoFanIsOne DEF E!Update, E!NoReg
<1>4. ASSUME NEW s \in Subs, E!Delete(s) PROVE EventsIInv'
  <2> DEFINE record == [subs[s] EXCEPT !.status = "deleted"]
  <2>1. record \in EventsSubRows /\ record.status = "deleted" /\ record.fails = subs[s].fails
    BY <1>a DEF EventsSubRows
  <2>2. subs' = [subs EXCEPT ![s] = record]
    BY <1>4 DEF E!Delete
  <2> HIDE DEF record
  <2> QED BY <1>4, <1>a, <2>1, <2>2 DEF E!Delete, EventsIInv, EventsTypes, E!PausedHadFailures
<1>5. ASSUME NEW d \in Dispatchers, NEW Some \in SUBSET Subs, E!Dispatch(d, Some) PROVE EventsIInv'
  <2> DEFINE f == [E!NoFan EXCEPT !.pc = "next", !.todo = Some, !.seen = [s \in Subs |-> IF s \in Some THEN subs[s].fails ELSE 0]]
  <2>1. [s \in Subs |-> IF s \in Some THEN subs[s].fails ELSE 0] \in [Subs -> Nat]
    BY <1>a DEF EventsSubRows
  <2>2. f \in EventsFans
    BY <2>1, EventsNoFanIsOne DEF EventsFans
  <2>3. EventsCounts(f, deliveries)
    BY <1>a DEF E!NoFan, EventsCounts
  <2>4. fan' = [fan EXCEPT ![d] = f] /\ UNCHANGED <<subs, deliveries, reg>>
    BY <1>5 DEF E!Dispatch
  <2>5. events' \in 0 .. MaxEvents
    BY <1>5, EventsConstants DEF E!Dispatch, EventsIInv, EventsTypes
  <2> HIDE DEF f
  <2> QED BY <2>2, <2>3, <2>4, <2>5, EventsFanInv
<1>6. ASSUME NEW d \in Dispatchers, NEW s \in Subs, E!Begin(d, s) PROVE EventsIInv'
  <2> DEFINE f == [fan[d] EXCEPT !.pc = "try", !.todo = @ \ {s}, !.at = s, !.count = fan[d].seen[s]]
  <2>0. fan[d] \in EventsFans /\ fan[d].pc = "next" /\ EventsCounts(fan[d], deliveries)
    BY <1>6, <1>a DEF E!Begin
  <2>1. f \in EventsFans /\ f.pc = "try" /\ f.at = s /\ f.count = fan[d].seen[s] /\ f.tries = fan[d].tries
        /\ f.seen = fan[d].seen /\ f.won = fan[d].won
    BY <2>0 DEF EventsFans
  <2>2. EventsCounts(f, deliveries)
    BY <2>0, <2>1, <1>a, EventsConstants DEF EventsCounts, EventsFans
  <2>3. fan' = [fan EXCEPT ![d] = f] /\ UNCHANGED <<subs, deliveries, reg, events>>
    BY <1>6, <1>a DEF E!Begin, EventsIInv, EventsTypes
  <2> HIDE DEF f
  <2> QED BY <2>1, <2>2, <2>3, EventsFanInv DEF EventsIInv, EventsTypes
<1>7. ASSUME NEW d \in Dispatchers, E!End(d) \/ E!Raise(d) \/ E!Crash(d) PROVE EventsIInv'
  <2>1. fan' = [fan EXCEPT ![d] = E!NoFan] /\ UNCHANGED <<subs, deliveries, reg, events>>
    BY <1>7 DEF E!End, E!Raise, E!Crash
  <2> QED BY <2>1, EventsNoFanIsOne, EventsFanInv DEF EventsIInv, EventsTypes
<1>8. ASSUME NEW d \in Dispatchers, E!Blocked(d) PROVE EventsIInv'
  <2>1. PICK s \in Subs : s = fan[d].at
    BY <1>8, <1>a DEF E!Blocked, EventsCounts
  <2>2. fan[d].count + 1 \in Nat /\ fan[d].tries + 1 \in Nat /\ fan[d].count + 1 <= deliveries[s].failed + (fan[d].tries + 1)
    BY <1>8, <1>a, <2>1, EventsConstants DEF E!Blocked, EventsCounts, EventsFans
  <2>3. E!Written(d, s, fan[d].count + 1, TRUE, fan[d].tries + 1)
    BY <1>8, <2>1 DEF E!Blocked
  <2> QED BY <2>2, <2>3, EventsWrittenInv
<1>9. ASSUME NEW d \in Dispatchers, NEW ok \in BOOLEAN, E!Attempt(d, ok) PROVE EventsIInv'
  <2> DEFINE n == IF ok THEN 0 ELSE fan[d].count + 1
             pc == IF ok \/ E!Pauses(n) \/ fan[d].tries + 1 = MaxRetries THEN "commit" ELSE "try"
             f == [fan[d] EXCEPT !.pc = pc, !.count = n, !.tries = @ + 1, !.won = ok]
  <2>0. /\ fan[d] \in EventsFans /\ fan[d].pc = "try" /\ EventsCounts(fan[d], deliveries)
        /\ fan[d].count \in Nat /\ fan[d].tries \in Nat /\ fan[d].at \in Subs
        /\ fan[d].count <= deliveries[fan[d].at].failed + fan[d].tries /\ fan[d].tries < MaxRetries
        /\ deliveries[fan[d].at].failed \in Nat
    BY <1>9, <1>a, EventsConstants DEF E!Attempt, EventsFans, EventsCounts
  <2>1. /\ n \in Nat /\ pc \in {"try", "commit"} /\ fan[d].tries + 1 \in 0 .. MaxRetries
        /\ n = (IF ok THEN 0 ELSE fan[d].count + 1) /\ (pc = "try" => ~ok /\ fan[d].tries + 1 # MaxRetries)
    BY <2>0, EventsConstants
  <2>2. fan' = [fan EXCEPT ![d] = f] /\ UNCHANGED <<subs, deliveries, reg, events>>
    BY <1>9, <1>a DEF E!Attempt, EventsIInv, EventsTypes
  <2> HIDE DEF n, pc
  <2>3. /\ f \in EventsFans /\ f.pc = pc /\ f.at = fan[d].at /\ f.count = n /\ f.tries = fan[d].tries + 1
        /\ f.seen = fan[d].seen /\ f.won = ok
    BY <2>0, <2>1 DEF EventsFans
  <2> HIDE DEF f
  <2>4. EventsCounts(f, deliveries)
    BY <2>0, <2>1, <2>3, EventsConstants DEF EventsCounts
  <2> QED BY <2>2, <2>3, <2>4, EventsFanInv DEF EventsIInv, EventsTypes
<1>10. ASSUME NEW d \in Dispatchers, E!Commit(d) PROVE EventsIInv'
  <2>1. PICK s \in Subs : s = fan[d].at
    BY <1>10, <1>a DEF E!Commit, EventsCounts
  <2> DEFINE lost == IF fan[d].won THEN fan[d].tries - 1 ELSE fan[d].tries
             wrote == fan[d].tries >= 2 \/ fan[d].count # fan[d].seen[s]
  <2>2. fan[d].count \in Nat /\ lost \in Nat /\ wrote \in BOOLEAN /\ fan[d].count <= deliveries[s].failed + lost
    BY <1>10, <1>a, <2>1, EventsConstants DEF E!Commit, EventsCounts, EventsFans
  <2>3. E!Written(d, s, fan[d].count, wrote, lost)
    BY <1>10, <2>1 DEF E!Commit
  <2> HIDE DEF lost, wrote
  <2> QED BY <2>2, <2>3, EventsWrittenInv
<1>11. CASE UNCHANGED E!vars
  BY <1>11 DEF E!vars, EventsIInv, EventsTypes, E!PausedHadFailures
<1> QED BY <1>1, <1>2, <1>3, <1>4, <1>5, <1>6, <1>7, <1>8, <1>9, <1>10, <1>11 DEF E!Next, E!Deliver

LEMMA EventsSpecInv == E!Init /\ [][E!Next]_(E!vars) => [](E!TypeOK /\ E!PausedHadFailures)
<1>1. E!Init /\ [][E!Next]_(E!vars) => []EventsIInv
  BY EventsInitInv, EventsNextInv, PTL
<1>2. EventsIInv => E!TypeOK /\ E!PausedHadFailures
  BY DEF EventsIInv, EventsTypes, E!TypeOK, EventsSubRows, EventsFans, EventsRegs
<1> QED BY <1>1, <1>2, PTL
-----------------------------------------------------------------------------
(* OpenClaw: the same for the webhooks of agents. *)

LEMMA HooksConstants == MaxHookFailures \in Nat \ {0} /\ MaxFans \in Nat /\ MaxRegisters \in Nat
  BY ServicesAssumption
-----------------------------------------------------------------------------
HooksHookRows == [status : {"free", "active", "paused", "deleted"}, fails : Nat]
HooksTypes ==
  /\ hooks \in [Hooks -> HooksHookRows]
  /\ DOMAIN fans = Fans /\ \A f \in Fans : DOMAIN fans[f] \subseteq Hooks
  /\ failed \in [Hooks -> Nat]
  /\ fanned \in 0..MaxFans /\ registered \in 0..MaxRegisters

\* The count of a row that is not paused leaves room for one more failure, and each count
\* that is stored had its failures.
HooksRowBacked(h) ==
  /\ hooks[h].fails <= failed[h] /\ hooks[h].fails <= MaxHookFailures
  /\ hooks[h].status = "active" => hooks[h].fails < MaxHookFailures
  /\ hooks[h].status = "paused" => failed[h] >= MaxHookFailures

\* So had each count that a fan-out has loaded.
HooksFanBacked(f) ==
  \A h \in DOMAIN fans[f] :
    fans[f][h] \in Nat /\ fans[f][h] <= failed[h] /\ fans[f][h] < MaxHookFailures

HooksIInv == HooksTypes /\ (\A h \in Hooks : HooksRowBacked(h)) /\ (\A f \in Fans : HooksFanBacked(f))
-----------------------------------------------------------------------------
LEMMA HooksInitInv == H!Init => HooksIInv
  BY HooksConstants DEF H!Init, HooksIInv, HooksTypes, HooksHookRows, HooksRowBacked, HooksFanBacked

LEMMA HooksDoneTypes ==
  ASSUME HooksTypes, NEW f \in Fans, NEW h \in Hooks, H!Done(f, h)
  PROVE  /\ DOMAIN fans' = Fans /\ \A g \in Fans : DOMAIN fans'[g] \subseteq DOMAIN fans[g]
         /\ \A g \in Fans : \A k \in DOMAIN fans'[g] : fans'[g][k] = fans[g][k]
<1>1. fans'[f] = (IF H!Exists(h) THEN H!Without(fans[f], h) ELSE <<>>) /\ DOMAIN fans' = Fans
      /\ \A g \in Fans \ {f} : fans'[g] = fans[g]
  BY DEF H!Done, HooksTypes
<1>2. DOMAIN fans'[f] \subseteq DOMAIN fans[f] /\ \A k \in DOMAIN fans'[f] : fans'[f][k] = fans[f][k]
  BY <1>1 DEF H!Without
<1> QED BY <1>1, <1>2

LEMMA HooksNextInv == HooksIInv /\ [H!Next]_(H!vars) => HooksIInv'
<1> SUFFICES ASSUME HooksIInv, [H!Next]_(H!vars) PROVE HooksIInv'
  OBVIOUS
<1>a. /\ HooksTypes /\ \A h \in Hooks : HooksRowBacked(h) /\ hooks[h] \in HooksHookRows /\ failed[h] \in Nat
      /\ \A f \in Fans : HooksFanBacked(f)
  BY DEF HooksIInv, HooksTypes
<1>1. ASSUME NEW r \in Registrations, H!Look(r) PROVE HooksIInv'
  <2>1. HooksTypes'
    BY <1>1, <1>a, HooksConstants DEF H!Look, HooksTypes
  <2> QED BY <1>1, <1>a, <2>1 DEF H!Look, HooksIInv, HooksRowBacked, HooksFanBacked
<1>2. ASSUME NEW r \in Registrations, H!Insert(r) PROVE HooksIInv'
  <2>1. PICK h \in Hooks : hooks' = [hooks EXCEPT ![h] = [status |-> "active", fails |-> 0]]
    BY <1>2 DEF H!Insert
  <2>2. HooksTypes'
    BY <1>2, <1>a, <2>1 DEF H!Insert, HooksTypes, HooksHookRows
  <2>3. ASSUME NEW k \in Hooks PROVE HooksRowBacked(k)'
    BY <1>2, <1>a, <2>1, HooksConstants DEF H!Insert, HooksRowBacked, HooksTypes
  <2> QED BY <1>2, <1>a, <2>2, <2>3 DEF H!Insert, HooksIInv, HooksFanBacked
<1>3. ASSUME NEW h \in Hooks, NEW record \in HooksHookRows, hooks' = [hooks EXCEPT ![h] = record],
             record.status = hooks[h].status \/ record.status = "deleted",
             record.fails = hooks[h].fails \/ record.fails = 0,
             UNCHANGED <<fans, failed>>, fanned' \in 0..MaxFans, registered' \in 0..MaxRegisters
      PROVE HooksIInv'
  <2>1. HooksTypes'
    BY <1>3, <1>a DEF HooksTypes
  <2>2. ASSUME NEW k \in Hooks PROVE HooksRowBacked(k)'
    <3>1. CASE k = h
      BY <1>3, <1>a, <3>1, HooksConstants DEF HooksRowBacked, HooksTypes, HooksHookRows
    <3>2. CASE k # h
      BY <1>3, <1>a, <3>2 DEF HooksRowBacked, HooksTypes
    <3> QED BY <3>1, <3>2
  <2> QED BY <1>3, <1>a, <2>1, <2>2 DEF HooksIInv, HooksFanBacked
<1>4. ASSUME NEW r \in Registrations, H!Update(r) PROVE HooksIInv'
  <2>1. PICK h \in DOMAIN registers[r] :
          hooks' = [hooks EXCEPT ![h].fails = IF H!Exists(h) /\ registers[r][h] > 0 THEN 0 ELSE @]
    BY <1>4 DEF H!Update
  <2>2. CASE h \in Hooks
    <3> DEFINE record == [hooks[h] EXCEPT !.fails = IF H!Exists(h) /\ registers[r][h] > 0 THEN 0 ELSE @]
    <3>1. record \in HooksHookRows /\ record.status = hooks[h].status /\ (record.fails = hooks[h].fails \/ record.fails = 0)
      BY <1>a, <2>2 DEF HooksHookRows
    <3>2. hooks' = [hooks EXCEPT ![h] = record]
      BY <2>1, <1>a, <2>2 DEF HooksTypes
    <3> HIDE DEF record
    <3> QED BY <1>3, <1>4, <2>2, <3>1, <3>2, <1>a DEF H!Update, HooksTypes
  <2>3. CASE h \notin Hooks
    <3>1. hooks' = hooks
      BY <2>1, <2>3, <1>a DEF HooksTypes
    <3> QED BY <1>4, <3>1, <1>a DEF H!Update, HooksIInv, HooksTypes, HooksRowBacked, HooksFanBacked
  <2> QED BY <2>2, <2>3
<1>5. ASSUME NEW h \in Hooks, H!Delete(h) PROVE HooksIInv'
  <2> DEFINE record == [hooks[h] EXCEPT !.status = "deleted"]
  <2>1. record \in HooksHookRows /\ record.status = "deleted" /\ record.fails = hooks[h].fails
    BY <1>a DEF HooksHookRows
  <2>2. hooks' = [hooks EXCEPT ![h] = record]
    BY <1>5 DEF H!Delete
  <2> HIDE DEF record
  <2> QED BY <1>3, <1>5, <2>1, <2>2, <1>a DEF H!Delete, HooksTypes
<1>6. ASSUME NEW h \in Hooks, H!Test(h) PROVE HooksIInv'
  <2> DEFINE record == [hooks[h] EXCEPT !.fails = 0]
  <2>1. record \in HooksHookRows /\ record.status = hooks[h].status /\ record.fails = 0
    BY <1>a DEF HooksHookRows
  <2>2. hooks' = [hooks EXCEPT ![h] = record]
    BY <1>6 DEF H!Test
  <2> HIDE DEF record
  <2> QED BY <1>3, <1>6, <2>1, <2>2, <1>a DEF H!Test, HooksTypes
<1>7. ASSUME NEW f \in Fans, H!Select(f) PROVE HooksIInv'
  <2>1. PICK todo \in SUBSET H!Active : fans' = [fans EXCEPT ![f] = [h \in todo |-> hooks[h].fails]]
    BY <1>7 DEF H!Select
  <2>2. \A h \in todo : h \in Hooks /\ hooks[h].status = "active"
    BY DEF H!Active
  <2>3. HooksTypes'
    BY <1>7, <1>a, <2>1, <2>2, HooksConstants DEF H!Select, HooksTypes
  <2>4. \A g \in Fans : HooksFanBacked(g)'
    BY <1>7, <1>a, <2>1, <2>2 DEF H!Select, HooksTypes, HooksFanBacked, HooksRowBacked, HooksHookRows
  <2> QED BY <1>7, <1>a, <2>3, <2>4 DEF H!Select, HooksIInv, HooksRowBacked
<1>8. ASSUME NEW f \in Fans, NEW h \in Hooks, H!Delivered(f, h) PROVE HooksIInv'
  <2>1. /\ H!Done(f, h) /\ failed' = failed /\ fanned' = fanned /\ registered' = registered
        /\ hooks' = [hooks EXCEPT ![h].fails = IF fans[f][h] = 0 \/ ~H!Exists(h) THEN @ ELSE 0]
    BY <1>8 DEF H!Delivered
  <2> DEFINE record == [hooks[h] EXCEPT !.fails = IF fans[f][h] = 0 \/ ~H!Exists(h) THEN @ ELSE 0]
  <2>2. record \in HooksHookRows /\ record.status = hooks[h].status /\ (record.fails = hooks[h].fails \/ record.fails = 0)
    BY <1>a DEF HooksHookRows
  <2>3. hooks' = [hooks EXCEPT ![h] = record]
    BY <2>1
  <2> HIDE DEF record
  <2>4. HooksTypes'
    BY <1>a, <2>1, <2>2, <2>3, HooksDoneTypes DEF HooksTypes
  <2>5. ASSUME NEW k \in Hooks PROVE HooksRowBacked(k)'
    <3>1. CASE k = h
      BY <1>a, <2>1, <2>2, <2>3, <3>1, HooksConstants DEF HooksRowBacked, HooksTypes, HooksHookRows
    <3>2. CASE k # h
      BY <1>a, <2>1, <2>3, <3>2 DEF HooksRowBacked, HooksTypes
    <3> QED BY <3>1, <3>2
  <2>6. \A g \in Fans : HooksFanBacked(g)'
    BY <1>a, <2>1, HooksDoneTypes DEF HooksFanBacked
  <2> QED BY <2>4, <2>5, <2>6 DEF HooksIInv
<1>9. ASSUME NEW f \in Fans, NEW h \in Hooks, H!GaveUp(f, h) PROVE HooksIInv'
  <2> DEFINE n == fans[f][h] + 1
             record == [hooks[h] EXCEPT !.fails = n, !.status = IF H!Pauses(n) THEN "paused" ELSE @]
  <2>1. n \in Nat /\ n <= failed[h] + 1 /\ n <= MaxHookFailures
    BY <1>9, <1>a, HooksConstants DEF H!GaveUp, HooksFanBacked
  <2>2. /\ H!Done(f, h) /\ fanned' = fanned /\ registered' = registered
        /\ hooks' = IF H!Exists(h) THEN [hooks EXCEPT ![h] = record] ELSE hooks
        /\ failed' = [failed EXCEPT ![h] = @ + 1]
    <3>1. [hooks EXCEPT ![h].fails = n, ![h].status = IF H!Pauses(n) THEN "paused" ELSE @]
            = [hooks EXCEPT ![h] = record]
      BY <1>a DEF HooksTypes, HooksHookRows
    <3> QED BY <1>9, <3>1 DEF H!GaveUp
  <2>3. record \in HooksHookRows /\ record.fails = n /\ record.status = IF n >= MaxHookFailures THEN "paused" ELSE hooks[h].status
    BY <1>a, <2>1 DEF HooksHookRows, H!Pauses
  <2> HIDE DEF record, n
  <2>4. HooksTypes'
    BY <1>a, <2>2, <2>3, HooksDoneTypes DEF HooksTypes
  <2>5. /\ failed'[h] = failed[h] + 1 /\ \A k \in Hooks \ {h} : failed'[k] = failed[k]
        /\ \A k \in Hooks : failed'[k] \in Nat /\ failed[k] <= failed'[k]
    BY <1>a, <2>2 DEF HooksTypes
  <2>6. ASSUME NEW k \in Hooks PROVE HooksRowBacked(k)'
    <3>1. CASE k # h \/ ~H!Exists(h)
      <4>1. hooks'[k] = hooks[k]
        BY <2>2, <3>1, <1>a DEF HooksTypes
      <4>2. hooks[k].fails \in Nat /\ failed[k] \in Nat /\ failed'[k] \in Nat /\ failed[k] <= failed'[k]
        BY <1>a, <2>5 DEF HooksHookRows
      <4> QED BY <1>a, <4>1, <4>2, HooksConstants DEF HooksRowBacked
    <3>2. CASE k = h /\ H!Exists(h)
      <4>1. hooks'[h] = record
        BY <2>2, <3>2, <1>a DEF HooksTypes
      <4> QED BY <1>a, <2>1, <2>3, <2>5, <3>2, <4>1, HooksConstants DEF HooksRowBacked, HooksHookRows
    <3> QED BY <3>1, <3>2
  <2>7. ASSUME NEW g \in Fans PROVE HooksFanBacked(g)'
    BY <1>a, <2>2, <2>5, HooksDoneTypes DEF HooksFanBacked, HooksTypes
  <2> QED BY <2>4, <2>6, <2>7 DEF HooksIInv
<1>10. ASSUME NEW f \in Fans, H!Crash(f) PROVE HooksIInv'
  BY <1>10, <1>a DEF H!Crash, HooksIInv, HooksTypes, HooksRowBacked, HooksFanBacked
<1>11. CASE UNCHANGED H!vars
  BY <1>11, <1>a DEF H!vars, HooksIInv, HooksTypes, HooksRowBacked, HooksFanBacked
<1> QED BY <1>1, <1>2, <1>4, <1>5, <1>6, <1>7, <1>8, <1>9, <1>10, <1>11 DEF H!Next

LEMMA HooksSpecInv == H!Init /\ [][H!Next]_(H!vars) => [](H!TypeOK /\ H!PausedHadFailures)
<1>1. H!Init /\ [][H!Next]_(H!vars) => []HooksIInv
  BY HooksInitInv, HooksNextInv, PTL
<1>2. HooksIInv => H!TypeOK /\ H!PausedHadFailures
  BY HooksConstants DEF HooksIInv, HooksTypes, H!TypeOK, HooksHookRows, HooksRowBacked, H!PausedHadFailures
<1> QED BY <1>1, <1>2, PTL
-----------------------------------------------------------------------------
(* Federation: what a job has read of a server is backed by failures it had. *)

LEMMA ServersConstants == MaxFailedCalls \in Nat
  BY ServicesAssumption
-----------------------------------------------------------------------------
\* What f failed calls can account for in a row that somebody has read or written.
ServersBacked(view, f) ==
  /\ view \in F!Rows
  /\ view.status = "inactive" => f >= 2
  /\ view.score >= 100 - 50 * f

\* A failed refresh has cost at most 30 of its call's 50 points, so that the health
\* request can take 20 more.
ServersSpared(view, f) == view \in F!Rows /\ view.score - 20 >= 100 - 50 * f

\* Every row that is stored or remembered is backed by the failures of its server.
ServersJobBacked(j) ==
  /\ jobs[j].kind \in {"idle", "route", "refresh", "health", "failed"}
  /\ jobs[j].kind # "idle" => jobs[j].server \in Servers
                              /\ ServersBacked(jobs[j].view, failures[jobs[j].server])
  /\ jobs[j].kind = "failed" => ServersSpared(jobs[j].view, failures[jobs[j].server])

ServersJobRows == [kind : {"idle", "route", "refresh", "health", "failed"},
            server : Servers \cup {None}, view : F!Rows]
ServersTypes ==
  /\ DOMAIN servers = Servers
  /\ jobs \in [Jobs -> ServersJobRows]
  /\ DOMAIN monitor \subseteq Servers
  /\ failures \in [Servers -> 0 .. MaxFailedCalls]

ServersIInv ==
  /\ ServersTypes /\ servers = [v \in Servers |-> servers[v]]
  /\ \A v \in Servers : ServersBacked(servers[v], failures[v])
  /\ \A j \in Jobs : ServersJobBacked(j)
  /\ \A v \in DOMAIN monitor : ServersBacked(monitor[v], failures[v])
-----------------------------------------------------------------------------
LEMMA ServersInitInv == F!Init => ServersIInv
  BY ServersConstants DEF F!Init, ServersIInv, ServersTypes, ServersJobRows, ServersBacked, ServersJobBacked, F!Rows, F!NoRow, F!NoJob

\* More failures back what fewer did.
LEMMA ServersBackedGrows ==
  ASSUME NEW view, NEW f \in Nat, NEW g \in Nat, f <= g, ServersBacked(view, f)
  PROVE  ServersBacked(view, g)
  BY DEF ServersBacked, F!Rows

\* A write takes each column from the row or from the new one.
LEMMA ServersWriteBacked ==
  ASSUME NEW old, NEW view \in F!Rows, NEW new, NEW f \in Nat, ServersBacked(old, f), ServersBacked(new, f)
  PROVE  ServersBacked(F!Write(old, view, new), f)
<1>1. CASE old.status = "gone"
  BY <1>1 DEF F!Write
<1>2. CASE old.status # "gone"
  <2>1. F!Write(old, view, new) = [x \in {"score", "status"} |-> IF new[x] = view[x] THEN old[x] ELSE new[x]]
    BY <1>2 DEF F!Write, ServersBacked, F!Rows
  <2> QED BY <2>1 DEF ServersBacked, F!Rows
<1> QED BY <1>1, <1>2

\* One failed call costs at most 30 points in a request, which leaves 20 of its 50.
LEMMA ServersLoweredBacked ==
  ASSUME NEW view, NEW f \in Nat, ServersBacked(view, f), NEW points \in 0 .. 30
  PROVE  ServersBacked(F!Lowered(view, points), f + 1) /\ ServersSpared(F!Lowered(view, points), f + 1)
  BY DEF F!Lowered, F!Rated, F!AtLeast0, ServersBacked, ServersSpared, F!Rows

LEMMA ServersLoweredAgain ==
  ASSUME NEW view, NEW f \in Nat, ServersSpared(view, f)
  PROVE  ServersBacked(F!Lowered(view, 20), f)
  BY DEF F!Lowered, F!Rated, F!AtLeast0, ServersBacked, ServersSpared, F!Rows

LEMMA ServersCheckedBacked ==
  ASSUME NEW view, NEW f \in Nat, ServersBacked(view, f)
  PROVE  /\ ServersBacked(F!Checked(view, "healthy"), f)
         /\ \A result \in {"unhealthy", "error"} : ServersBacked(F!Checked(view, result), f + 1)
  BY DEF F!Checked, F!Or, F!AtLeast0, F!AtMost100, ServersBacked, F!Rows

\* What a request remembers stays backed while others fail.
LEMMA ServersJobGrows ==
  ASSUME NEW k \in Jobs, ServersJobBacked(k), jobs'[k] = jobs[k],
         \A v \in Servers : failures[v] \in Nat /\ failures'[v] \in Nat /\ failures[v] <= failures'[v]
  PROVE  ServersJobBacked(k)'
<1>1. CASE jobs[k].kind = "idle"
  BY <1>1 DEF ServersJobBacked
<1>2. CASE jobs[k].kind # "idle"
  <2>1. PICK s \in Servers : s = jobs[k].server
    BY <1>2 DEF ServersJobBacked
  <2>2. ServersBacked(jobs[k].view, failures[s]) /\ (jobs[k].kind = "failed" => ServersSpared(jobs[k].view, failures[s]))
    BY <1>2, <2>1 DEF ServersJobBacked
  <2>3. ServersBacked(jobs[k].view, failures'[s])
    BY <2>2, ServersBackedGrows
  <2>4. jobs[k].kind = "failed" => ServersSpared(jobs[k].view, failures'[s])
    BY <2>2 DEF ServersSpared, F!Rows
  <2> QED BY <1>2, <2>1, <2>3, <2>4 DEF ServersJobBacked
<1> QED BY <1>1, <1>2

LEMMA ServersNextInv == ServersIInv /\ [F!Next]_(F!vars) => ServersIInv'
<1> SUFFICES ASSUME ServersIInv, [F!Next]_(F!vars) PROVE ServersIInv'
  OBVIOUS
<1>a. /\ DOMAIN servers = Servers /\ servers = [v \in Servers |-> servers[v]]
      /\ \A v \in Servers : ServersBacked(servers[v], failures[v]) /\ servers[v] \in F!Rows
      /\ jobs \in [Jobs -> ServersJobRows] /\ DOMAIN monitor \subseteq Servers
      /\ failures \in [Servers -> 0 .. MaxFailedCalls] /\ failures \in [Servers -> Nat]
      /\ \A j \in Jobs : ServersJobBacked(j) /\ jobs[j].view \in F!Rows /\ jobs[j] \in ServersJobRows
      /\ \A v \in DOMAIN monitor : ServersBacked(monitor[v], failures[v]) /\ monitor[v] \in F!Rows
  BY ServersConstants DEF ServersIInv, ServersTypes, ServersBacked, ServersJobRows
<1>b. F!NoJob \in ServersJobRows
  BY DEF F!NoJob, F!NoRow, F!Rows, ServersJobRows
<1>1. ASSUME NEW v \in Servers, F!Register(v) PROVE ServersIInv'
  <2>1. ServersBacked([servers[v] EXCEPT !.status = "active"], failures[v])
    BY <1>a DEF ServersBacked, F!Rows
  <2> QED BY <1>1, <1>a, <2>1 DEF F!Register, ServersIInv, ServersTypes, ServersJobBacked
<1>2. ASSUME NEW v \in Servers, F!Unregister(v) PROVE ServersIInv'
  <2>1. ServersBacked([F!NoRow EXCEPT !.status = "gone"], failures[v])
    BY <1>a DEF ServersBacked, F!Rows, F!NoRow
  <2> QED BY <1>2, <1>a, <2>1 DEF F!Unregister, ServersIInv, ServersTypes, ServersJobBacked
<1>3. ASSUME NEW j \in Jobs, NEW kind \in {"route", "refresh", "health"}, NEW v \in Servers, F!Begin(j, kind, v)
      PROVE ServersIInv'
  <2>1. [kind |-> kind, server |-> v, view |-> servers[v]] \in ServersJobRows
    BY <1>a DEF ServersJobRows
  <2>2. ServersTypes'
    BY <1>3, <1>a, <2>1 DEF F!Begin, ServersTypes
  <2>3. ASSUME NEW k \in Jobs PROVE ServersJobBacked(k)'
    BY <1>3, <1>a DEF F!Begin, ServersJobBacked
  <2> QED BY <1>3, <1>a, <2>2, <2>3 DEF F!Begin, ServersIInv
<1>4. ASSUME NEW j \in Jobs, F!Succeed(j) PROVE ServersIInv'
  <2>1. jobs[j].server \in Servers
    BY <1>4, <1>a DEF F!Succeed, ServersJobBacked
  <2>2. ServersBacked([score |-> 100, status |-> "active"], failures[jobs[j].server])
    BY <1>a, <2>1 DEF ServersBacked, F!Rows
  <2>3. ServersBacked(F!Write(servers[jobs[j].server], jobs[j].view, [score |-> 100, status |-> "active"]),
               failures[jobs[j].server])
    BY <1>a, <2>1, <2>2, ServersWriteBacked
  <2>4. ServersTypes' /\ servers' = [v \in Servers |-> servers'[v]]
    BY <1>4, <1>a, <1>b DEF F!Succeed, ServersTypes
  <2>5. ASSUME NEW k \in Jobs PROVE ServersJobBacked(k)'
    BY <1>4, <1>a DEF F!Succeed, ServersJobBacked, F!NoJob
  <2>6. ASSUME NEW v \in Servers PROVE ServersBacked(servers'[v], failures[v])
    BY <1>4, <1>a, <2>3 DEF F!Succeed
  <2> QED BY <1>4, <1>a, <2>4, <2>5, <2>6 DEF F!Succeed, ServersIInv
<1>5. ASSUME NEW j \in Jobs, NEW http \in BOOLEAN, F!Fail(j, http) PROVE ServersIInv'
  <2> DEFINE s == jobs[j].server
             new == F!Lowered(jobs[j].view, F!Points(jobs[j].kind, http))
  <2>1. s \in Servers /\ ServersBacked(jobs[j].view, failures[s]) /\ F!Points(jobs[j].kind, http) \in 0 .. 30
    BY <1>5, <1>a DEF F!Fail, ServersJobBacked, F!Points
  <2>2. failures[s] \in Nat /\ failures[s] < MaxFailedCalls /\ failures[s] + 1 \in 0 .. MaxFailedCalls
    BY <1>5, <1>a, <2>1, ServersConstants DEF F!Fail
  <2>3. ServersBacked(new, failures[s] + 1) /\ ServersSpared(new, failures[s] + 1) /\ new \in F!Rows
    <3>1. ServersBacked(new, failures[s] + 1) /\ ServersSpared(new, failures[s] + 1)
      BY <2>1, <2>2, ServersLoweredBacked
    <3> QED BY <3>1 DEF ServersBacked
  <2>4. ServersBacked(F!Write(servers[s], jobs[j].view, new), failures[s] + 1)
    <3>1. ServersBacked(servers[s], failures[s] + 1)
      BY <1>a, <2>1, <2>2, ServersBackedGrows
    <3> QED BY <1>a, <2>2, <2>3, <3>1, ServersWriteBacked
  <2> HIDE DEF new
  <2>5. /\ servers' = [servers EXCEPT ![s] = F!Write(@, jobs[j].view, new)]
        /\ failures' = [failures EXCEPT ![s] = @ + 1] /\ monitor' = monitor
        /\ jobs' = [jobs EXCEPT ![j] = IF @.kind = "health"
                                 THEN [@ EXCEPT !.kind = "failed", !.view = new] ELSE F!NoJob]
    BY <1>5 DEF F!Fail, new
  <2>6. [jobs[j] EXCEPT !.kind = "failed", !.view = new] \in ServersJobRows
    BY <1>a, <2>3 DEF ServersJobRows
  <2>7. ServersTypes' /\ servers' = [v \in Servers |-> servers'[v]]
    BY <1>a, <1>b, <2>2, <2>5, <2>6 DEF ServersTypes
  <2>8. \A v \in Servers : /\ failures[v] \in Nat /\ failures'[v] \in Nat /\ failures[v] <= failures'[v]
                           /\ v # s => failures'[v] = failures[v]
    BY <1>a, <2>1, <2>2, <2>5
  <2>9. ASSUME NEW v \in Servers PROVE ServersBacked(servers'[v], failures'[v])
    BY <1>a, <2>1, <2>4, <2>5
  <2>10. ASSUME NEW k \in Jobs PROVE ServersJobBacked(k)'
    <3>1. CASE k = j
      BY <1>a, <2>1, <2>3, <2>5, <3>1 DEF ServersJobBacked, F!NoJob, ServersJobRows
    <3>2. CASE k # j
      <4>1. jobs'[k] = jobs[k]
        BY <2>5, <3>2, <1>a
      <4> QED BY <1>a, <2>8, <4>1, ServersJobGrows
    <3> QED BY <3>1, <3>2
  <2>11. ASSUME NEW v \in DOMAIN monitor PROVE ServersBacked(monitor[v], failures'[v])
    BY <1>a, <2>8, ServersBackedGrows
  <2> QED BY <2>5, <2>7, <2>9, <2>10, <2>11 DEF ServersIInv
<1>6. ASSUME NEW j \in Jobs, F!LowerAgain(j) PROVE ServersIInv'
  <2> DEFINE s == jobs[j].server
  <2>1. s \in Servers /\ ServersSpared(jobs[j].view, failures[s])
    BY <1>6, <1>a DEF F!LowerAgain, ServersJobBacked
  <2>2. ServersBacked(F!Write(servers[s], jobs[j].view, F!Lowered(jobs[j].view, 20)), failures[s])
    <3>1. ServersBacked(F!Lowered(jobs[j].view, 20), failures[s])
      BY <2>1, <1>a, ServersLoweredAgain
    <3> QED BY <3>1, <1>a, <2>1, ServersWriteBacked
  <2>3. ServersTypes' /\ servers' = [v \in Servers |-> servers'[v]]
    BY <1>6, <1>a, <1>b DEF F!LowerAgain, ServersTypes
  <2>4. ASSUME NEW k \in Jobs PROVE ServersJobBacked(k)'
    BY <1>6, <1>a DEF F!LowerAgain, ServersJobBacked, F!NoJob
  <2>5. ASSUME NEW v \in Servers PROVE ServersBacked(servers'[v], failures[v])
    BY <1>6, <1>a, <2>2 DEF F!LowerAgain
  <2> QED BY <1>6, <1>a, <2>3, <2>4, <2>5 DEF F!LowerAgain, ServersIInv
<1>7. ASSUME NEW j \in Jobs, F!Leave(j) PROVE ServersIInv'
  <2>1. ServersTypes'
    BY <1>7, <1>a, <1>b DEF F!Leave, ServersTypes
  <2>2. ASSUME NEW k \in Jobs PROVE ServersJobBacked(k)'
    BY <1>7, <1>a DEF F!Leave, ServersJobBacked, F!NoJob
  <2> QED BY <1>7, <1>a, <2>1, <2>2 DEF F!Leave, ServersIInv
<1>8. CASE F!ReadAll
  <2>1. DOMAIN monitor' \subseteq Servers /\ \A v \in DOMAIN monitor' : monitor'[v] = servers[v]
    BY <1>8 DEF F!ReadAll, F!In
  <2> QED BY <1>8, <1>a, <2>1 DEF F!ReadAll, ServersIInv, ServersTypes, ServersJobBacked
<1>9. ASSUME NEW results \in [Servers -> {"healthy", "unhealthy", "error"}], F!WriteAll(results) PROVE ServersIInv'
  <2> DEFINE failing == {v \in DOMAIN monitor : results[v] # "healthy"}
  <2>1. /\ failures' = [v \in Servers |-> IF v \in failing THEN failures[v] + 1 ELSE failures[v]]
        /\ jobs' = jobs /\ monitor' = <<>> /\ \A v \in failing : failures[v] < MaxFailedCalls
    BY <1>9 DEF F!WriteAll
  <2>2. failures' \in [Servers -> 0 .. MaxFailedCalls]
    <3>1. \A v \in Servers : failures[v] \in 0 .. MaxFailedCalls
      BY <1>a
    <3>2. \A v \in failing : failures[v] + 1 \in 0 .. MaxFailedCalls
      BY <3>1, <2>1, <1>a, ServersConstants
    <3> QED BY <2>1, <3>1, <3>2
  <2>3. \A v \in Servers : /\ failures[v] \in Nat /\ failures'[v] \in Nat /\ failures[v] <= failures'[v]
                           /\ failures'[v] = IF v \in failing THEN failures[v] + 1 ELSE failures[v]
    BY <1>a, <2>1
  <2>4. ServersTypes' /\ servers' = [v \in Servers |-> servers'[v]]
    <3>1. DOMAIN servers' = Servers /\ servers' = [v \in Servers |-> servers'[v]]
      BY <1>9, <1>a DEF F!WriteAll
    <3> QED BY <3>1, <1>a, <2>1, <2>2 DEF ServersTypes
  <2>5. ASSUME NEW k \in Jobs PROVE ServersJobBacked(k)'
    BY <1>a, <2>1, <2>3, ServersJobGrows
  <2>6. ASSUME NEW v \in Servers PROVE ServersBacked(servers'[v], failures'[v])
    <3>1. ServersBacked(servers[v], failures'[v])
      BY <1>a, <2>3, ServersBackedGrows
    <3>2. ASSUME v \in DOMAIN monitor
          PROVE  ServersBacked(F!Write(servers[v], monitor[v], F!Checked(monitor[v], results[v])), failures'[v])
      <4>1. ServersBacked(F!Checked(monitor[v], results[v]), failures'[v])
        <5>1. CASE results[v] = "healthy"
          BY <1>a, <2>3, <3>2, <5>1, ServersCheckedBacked
        <5>2. CASE results[v] # "healthy"
          BY <1>a, <1>9, <2>3, <3>2, <5>2, ServersCheckedBacked
        <5> QED BY <5>1, <5>2
      <4> QED BY <1>a, <2>3, <3>1, <3>2, <4>1, ServersWriteBacked
    <3>3. \/ servers'[v] = servers[v]
          \/ /\ v \in DOMAIN monitor
             /\ servers'[v] = F!Write(servers[v], monitor[v], F!Checked(monitor[v], results[v]))
      BY <1>9, <1>a DEF F!WriteAll
    <3> QED BY <3>1, <3>2, <3>3
  <2> QED BY <2>1, <2>4, <2>5, <2>6 DEF ServersIInv
<1>10. CASE UNCHANGED F!vars
  BY <1>10 DEF F!vars, ServersIInv, ServersTypes, ServersJobBacked
<1> QED BY <1>1, <1>2, <1>3, <1>4, <1>5, <1>6, <1>7, <1>8, <1>9, <1>10 DEF F!Next

LEMMA ServersSpecInv == F!Init /\ [][F!Next]_(F!vars) => [](F!TypeOK /\ F!OutOnlyAfterFailures)
<1>1. F!Init /\ [][F!Next]_(F!vars) => []ServersIInv
  BY ServersInitInv, ServersNextInv, PTL
<1>2. ServersIInv => F!TypeOK /\ F!OutOnlyAfterFailures
  BY DEF ServersIInv, ServersTypes, F!TypeOK, ServersJobRows, ServersBacked, F!OutOnlyAfterFailures
<1> QED BY <1>1, <1>2, PTL
-----------------------------------------------------------------------------
(* CircuitBreaker: the breaker counts what was recorded since the last success. *)

LEMMA BreakerConstants == HalfOpenMaxCalls \in Nat \ {0} /\ MaxRecordedFailures \in Nat /\ FailureThreshold \in Int
  BY ServicesAssumption
-----------------------------------------------------------------------------
\* The rows of TypeOK.
Breakers == [state : {"closed", "open", "half_open"}, failures : Nat, successes : Nat, calls : Nat]
BreakerPlaces == [pc : {"idle", "asked", "calling", "succeeded"}, seen : {"closed", "open", "half_open"}]
BreakerTypes ==
  /\ breaker \in Breakers
  /\ recovered \in BOOLEAN
  /\ callers \in [Callers -> BreakerPlaces]
  /\ recorded \in [failures : Nat, successes : Nat]
  /\ broken \in 0 .. MaxRecordedFailures

\* What the breaker has counted was recorded: it counts successes only while it is
\* half-open, and never more failures than there were.
BreakerCounted ==
  /\ breaker.failures <= broken /\ recorded.failures <= broken
  /\ breaker.successes < HalfOpenMaxCalls /\ breaker.calls <= HalfOpenMaxCalls
  /\ recorded.successes <= HalfOpenMaxCalls
  /\ breaker.state # "half_open" => breaker.successes = 0
  /\ B!CountsInARow

BreakerIInv == BreakerTypes /\ BreakerCounted
-----------------------------------------------------------------------------
LEMMA BreakerInitInv == B!Init => BreakerIInv
  BY BreakerConstants DEF B!Init, BreakerIInv, BreakerTypes, Breakers, BreakerPlaces, B!Closed, B!Idle, BreakerCounted, B!CountsInARow

LEMMA BreakerLookTypes == BreakerIInv => B!Look \in Breakers /\ B!Look.state \in {"closed", "open", "half_open"}
  BY DEF BreakerIInv, BreakerTypes, Breakers, B!Look

\* A look leaves the counts as they are.
LEMMA BreakerLookCounts == ASSUME BreakerIInv, breaker' = B!Look, UNCHANGED <<recorded, broken>>
                    PROVE  BreakerCounted'
  BY BreakerConstants DEF BreakerIInv, BreakerTypes, Breakers, B!Look, BreakerCounted, B!CountsInARow

LEMMA BreakerNextInv == BreakerIInv /\ [B!Next]_(B!vars) => BreakerIInv'
<1> SUFFICES ASSUME BreakerIInv, [B!Next]_(B!vars) PROVE BreakerIInv'
  OBVIOUS
<1>a. /\ breaker \in Breakers /\ callers \in [Callers -> BreakerPlaces]
      /\ breaker.failures \in Nat /\ breaker.successes \in Nat /\ breaker.calls \in Nat
      /\ recorded \in [failures : Nat, successes : Nat]
  BY DEF BreakerIInv, BreakerTypes, Breakers
<1>b. \A c \in Callers : B!Idle \in BreakerPlaces /\ \A pc \in {"idle", "asked", "calling", "succeeded"} :
        [callers[c] EXCEPT !.pc = pc] \in BreakerPlaces
  BY <1>a DEF BreakerPlaces, B!Idle
<1>1. ASSUME NEW c \in Callers, B!Ask(c) PROVE BreakerIInv'
  <2>1. [pc |-> "asked", seen |-> B!Look.state] \in BreakerPlaces
    BY BreakerLookTypes DEF BreakerPlaces
  <2>2. BreakerTypes'
    BY <1>1, <2>1, BreakerLookTypes DEF B!Ask, BreakerIInv, BreakerTypes
  <2> QED BY <1>1, <2>2, BreakerLookCounts DEF B!Ask, BreakerIInv
<1>2. ASSUME NEW c \in Callers, B!Allow(c) PROVE BreakerIInv'
  <2>1. [breaker EXCEPT !.calls = @ + 1] \in Breakers
    BY <1>a DEF Breakers
  <2>2. BreakerTypes'
    BY <1>2, <2>1, <1>b DEF B!Allow, B!Go, BreakerIInv, BreakerTypes
  <2>3. BreakerCounted'
    BY <1>2, <1>a, BreakerConstants DEF B!Allow, BreakerIInv, BreakerCounted, B!CountsInARow, Breakers
  <2> QED BY <2>2, <2>3 DEF BreakerIInv
<1>3. ASSUME NEW c \in Callers, B!Reject(c) PROVE BreakerIInv'
  BY <1>3, <1>b DEF B!Reject, BreakerIInv, BreakerTypes, BreakerCounted, B!CountsInARow
<1>4. ASSUME NEW c \in Callers, B!RecordFailure(c) PROVE BreakerIInv'
  <2>0. PICK st \in {"closed", "open"} :
          /\ B!Failed(breaker) = [state |-> st, failures |-> breaker.failures + 1,
               successes |-> IF breaker.state = "half_open" THEN 0 ELSE breaker.successes,
               calls |-> IF breaker.state = "half_open" THEN 0 ELSE breaker.calls]
          /\ breaker.state # "closed" => st = "open"
    BY <1>a DEF B!Failed, Breakers
  <2>1. B!Failed(breaker) \in Breakers
    BY <2>0, <1>a DEF Breakers
  <2>2. BreakerTypes'
    <3>1. recorded' \in [failures : Nat, successes : Nat] /\ broken' \in 0 .. MaxRecordedFailures
      BY <1>4, <1>a, BreakerConstants DEF B!RecordFailure, BreakerIInv, BreakerTypes
    <3> QED BY <1>4, <2>1, <1>b, <3>1 DEF B!RecordFailure, BreakerIInv, BreakerTypes
  <2>3. BreakerCounted'
    <3>1. /\ breaker'.state = st /\ breaker'.failures = breaker.failures + 1
          /\ breaker'.successes = IF breaker.state = "half_open" THEN 0 ELSE breaker.successes
          /\ breaker'.calls = IF breaker.state = "half_open" THEN 0 ELSE breaker.calls
      BY <1>4, <2>0 DEF B!RecordFailure
    <3>2. /\ recorded'.failures = recorded.failures + 1 /\ recorded'.successes = 0
          /\ broken' = broken + 1 /\ broken \in Nat
      BY <1>4 DEF B!RecordFailure, BreakerIInv, BreakerTypes
    <3>3. breaker.successes = 0 \/ breaker.state = "half_open"
      BY DEF BreakerIInv, BreakerCounted
    <3> QED BY <3>1, <3>2, <3>3, <2>0, <1>a, BreakerConstants DEF BreakerIInv, BreakerCounted, B!CountsInARow
  <2> QED BY <2>2, <2>3 DEF BreakerIInv
<1>5. ASSUME NEW c \in Callers, B!Succeed(c) PROVE BreakerIInv'
  <2>1. BreakerTypes'
    BY <1>5, <1>b, BreakerLookTypes DEF B!Succeed, B!Go, BreakerIInv, BreakerTypes
  <2> QED BY <1>5, <2>1, BreakerLookCounts DEF B!Succeed, BreakerIInv
<1>6. ASSUME NEW c \in Callers, B!RecordSuccess(c) PROVE BreakerIInv'
  <2>1. B!Succeeded(breaker) \in Breakers
    BY <1>a DEF B!Succeeded, Breakers, B!Closed
  <2>2. BreakerTypes'
    <3>1. recorded' \in [failures : Nat, successes : Nat]
      BY <1>6, <1>a, BreakerConstants DEF B!RecordSuccess
    <3> QED BY <1>6, <2>1, <1>b, <3>1 DEF B!RecordSuccess, BreakerIInv, BreakerTypes
  <2>3. BreakerCounted'
    <3>1. /\ recorded'.failures = 0 /\ broken' = broken /\ recorded.successes \in Nat /\ broken \in Nat
          /\ recorded'.successes = IF recorded.successes < HalfOpenMaxCalls
                                   THEN recorded.successes + 1 ELSE HalfOpenMaxCalls
      BY <1>6, <1>a DEF B!RecordSuccess, BreakerIInv, BreakerTypes
    <3>2. CASE breaker.state = "half_open" /\ breaker.successes + 1 >= HalfOpenMaxCalls
      <4>1. breaker' = B!Closed
        BY <1>6, <1>a, <3>2, BreakerConstants DEF B!RecordSuccess, B!Succeeded
      <4> QED BY <3>1, <4>1, BreakerConstants DEF BreakerIInv, BreakerCounted, B!CountsInARow, B!Closed
    <3>3. CASE breaker.state = "half_open" /\ ~(breaker.successes + 1 >= HalfOpenMaxCalls)
      <4>1. breaker' = [breaker EXCEPT !.successes = @ + 1]
        BY <1>6, <1>a, <3>3, BreakerConstants DEF B!RecordSuccess, B!Succeeded
      <4>2. breaker'.state = "half_open" /\ breaker'.successes = breaker.successes + 1
            /\ breaker'.failures = breaker.failures /\ breaker'.calls = breaker.calls
        BY <4>1, <3>3, <1>a DEF Breakers
      <4> QED BY <3>1, <3>3, <4>2, <1>a, BreakerConstants DEF BreakerIInv, BreakerCounted, B!CountsInARow
    <3>4. CASE breaker.state = "closed"
      <4>1. breaker' = [breaker EXCEPT !.failures = 0]
        BY <1>6, <3>4 DEF B!RecordSuccess, B!Succeeded
      <4>2. breaker'.state = "closed" /\ breaker'.successes = breaker.successes
            /\ breaker'.failures = 0 /\ breaker'.calls = breaker.calls
        BY <4>1, <3>4, <1>a DEF Breakers
      <4> QED BY <3>1, <3>4, <4>2, <1>a, BreakerConstants DEF BreakerIInv, BreakerCounted, B!CountsInARow
    <3>5. CASE breaker.state = "open"
      <4>1. breaker' = breaker
        BY <1>6, <3>5 DEF B!RecordSuccess, B!Succeeded
      <4> QED BY <3>1, <3>5, <4>1, <1>a, BreakerConstants DEF BreakerIInv, BreakerCounted, B!CountsInARow
    <3> QED BY <3>2, <3>3, <3>4, <3>5, <1>a DEF Breakers
  <2> QED BY <2>2, <2>3 DEF BreakerIInv
<1>7. CASE B!Elapse
  BY <1>7 DEF B!Elapse, BreakerIInv, BreakerTypes, BreakerCounted, B!CountsInARow
<1>8. CASE B!Reset
  BY <1>8, BreakerConstants, <1>a DEF B!Reset, B!Closed, Breakers, BreakerIInv, BreakerTypes, BreakerCounted, B!CountsInARow
<1>9. CASE UNCHANGED B!vars
  BY <1>9 DEF B!vars, BreakerIInv, BreakerTypes, BreakerCounted, B!CountsInARow
<1> QED BY <1>1, <1>2, <1>3, <1>4, <1>5, <1>6, <1>7, <1>8, <1>9 DEF B!Next, B!Call

LEMMA BreakerSpecInv == B!Init /\ [][B!Next]_(B!vars) => [](B!TypeOK /\ B!CountsInARow)
<1>1. B!Init /\ [][B!Next]_(B!vars) => []BreakerIInv
  BY BreakerInitInv, BreakerNextInv, PTL
<1>2. BreakerIInv => B!TypeOK /\ B!CountsInARow
  BY BreakerConstants DEF BreakerIInv, BreakerTypes, B!TypeOK, Breakers, BreakerPlaces, BreakerCounted
<1> QED BY <1>1, <1>2, PTL
-----------------------------------------------------------------------------
(* A2UIClient: at most one connection that is not closed, and it is the current one. *)

LEMMA ClientsConstants == MaxReconnects \in Nat /\ MaxSockets \in Nat
  BY ServicesAssumption
-----------------------------------------------------------------------------
ClientsSocketStates == {"connecting", "open", "closing", "closed"}
ClientsGone == {n \in DOMAIN conns : conns[n] = "closed"}

ClientsFlags == beating \in BOOLEAN /\ cut \in BOOLEAN /\ wanted \in BOOLEAN /\ late \in BOOLEAN
ClientsTypes ==
  /\ conns \in Seq(ClientsSocketStates) /\ Len(conns) <= MaxSockets
  /\ current \in 0..Len(conns)
  /\ retries \in 0..MaxReconnects
  /\ timers \in Nat /\ timers <= Cardinality(ClientsGone)
  /\ ClientsFlags

\* The live socket is the current one, and what was disconnected with no timer pending has
\* used up its retries, so that no callback starts another.
ClientsIInv ==
  /\ ClientsTypes /\ Y!OneConnection
  /\ Y!Live \subseteq {current}
  /\ ~wanted /\ ~late => timers = 0 /\ (retries = MaxReconnects \/ conns = <<>>)
-----------------------------------------------------------------------------
LEMMA ClientsInitInv == Y!Init => ClientsIInv
<1> SUFFICES ASSUME Y!Init PROVE ClientsIInv
  OBVIOUS
<1>1. ClientsGone = {} /\ Y!Live = {} /\ Len(conns) = 0
  BY DEF Y!Init, ClientsGone, Y!Live
<1>2. conns \in Seq(ClientsSocketStates) /\ Cardinality(ClientsGone) = 0
  BY <1>1, FS_EmptySet DEF Y!Init
<1>4. ClientsFlags
  BY DEF Y!Init, ClientsFlags
<1>3. ClientsTypes
  BY <1>1, <1>2, <1>4, ClientsConstants DEF Y!Init, ClientsTypes
<1> QED BY <1>1, <1>3 DEF Y!Init, ClientsIInv, Y!OneConnection

\* Each timer is of a socket that has closed, and each socket closes once.
LEMMA ClientsGoneCounts ==
  ASSUME ClientsTypes
  PROVE  IsFiniteSet(ClientsGone) /\ Cardinality(ClientsGone) \in Nat /\ Cardinality(ClientsGone) <= Len(conns)
<1>1. ClientsGone \subseteq 1..Len(conns) /\ Len(conns) \in Nat
  BY DEF ClientsGone, ClientsTypes
<1>2. IsFiniteSet(1..Len(conns)) /\ Cardinality(1..Len(conns)) = Len(conns)
  BY <1>1, FS_Interval
<1> QED BY <1>1, <1>2, FS_Subset, FS_CardinalityType

\* connect leaves one live socket, the current one.
LEMMA ClientsConnectedLive ==
  ASSUME ClientsIInv, Y!Connected, cut' = cut, beating' = beating
  PROVE  /\ conns' \in Seq(ClientsSocketStates) /\ Len(conns') <= MaxSockets /\ current' \in 0..Len(conns')
         /\ ClientsGone' = ClientsGone /\ Y!Live' = {current'} /\ conns' # <<>>
         /\ \A n \in Y!Live' : (conns[n] = "open")' => beating \/ cut
<1>1. CASE current \in Y!Live
  <2>1. UNCHANGED <<conns, current>>
    BY <1>1 DEF Y!Connected
  <2>2. Y!Live' = Y!Live /\ ClientsGone' = ClientsGone
    BY <2>1 DEF Y!Live, ClientsGone
  <2> QED BY <1>1, <2>1, <2>2 DEF ClientsIInv, ClientsTypes, Y!OneConnection, Y!Live
<1>2. CASE current \notin Y!Live
  <2>1. Y!Live = {} /\ conns' = Append(conns, "connecting") /\ current' = Len(conns) + 1 /\ Len(conns) < MaxSockets
    BY <1>2 DEF Y!Connected, ClientsIInv
  <2>2. /\ conns \in Seq(ClientsSocketStates) /\ Len(conns) \in Nat
        /\ conns' \in Seq(ClientsSocketStates) /\ Len(conns') = Len(conns) + 1
        /\ DOMAIN conns' = 1..(Len(conns) + 1) /\ DOMAIN conns = 1..Len(conns)
        /\ \A n \in DOMAIN conns : conns'[n] = conns[n]
        /\ conns'[Len(conns) + 1] = "connecting"
    BY <2>1 DEF ClientsIInv, ClientsTypes, ClientsSocketStates
  <2>3. ClientsGone' = ClientsGone
    BY <2>2 DEF ClientsGone
  <2>4. Y!Live' = {current'}
    BY <2>1, <2>2 DEF Y!Live
  <2> QED BY <2>1, <2>2, <2>3, <2>4, ClientsConstants
<1> QED BY <1>1, <1>2

\* A callback of socket n: it changes its state only.
LEMMA ClientsCallback ==
  ASSUME ClientsTypes, NEW n \in DOMAIN conns, NEW st \in ClientsSocketStates, conns' = [conns EXCEPT ![n] = st]
  PROVE  /\ conns' \in Seq(ClientsSocketStates) /\ Len(conns') = Len(conns)
         /\ DOMAIN conns' = DOMAIN conns
         /\ \A m \in DOMAIN conns : conns'[m] = IF m = n THEN st ELSE conns[m]
  BY DEF ClientsTypes

LEMMA ClientsNextInv == ClientsIInv /\ [Y!Next]_(Y!vars) => ClientsIInv'
<1> SUFFICES ASSUME ClientsIInv, [Y!Next]_(Y!vars) PROVE ClientsIInv'
  OBVIOUS
<1>a. ClientsTypes /\ Y!OneConnection /\ Y!Live \subseteq {current}
  BY DEF ClientsIInv
<1>1. CASE Y!Connect
  <2>1. ClientsFlags'
    BY <1>1, <1>a DEF Y!Connect, ClientsTypes, ClientsFlags
  <2> QED BY <1>1, <2>1, ClientsConnectedLive DEF Y!Connect, ClientsIInv, ClientsTypes, Y!OneConnection
<1>2. CASE Y!Disconnect
  <2>1. conns' \in Seq(ClientsSocketStates) /\ Len(conns') = Len(conns) /\ DOMAIN conns' = DOMAIN conns
    BY <1>2, <1>a DEF Y!Disconnect, ClientsTypes, ClientsSocketStates
  <2>2. Y!Live' = {} /\ ClientsGone' = ClientsGone
    BY <1>2, <1>a, <2>1 DEF Y!Disconnect, Y!Live, ClientsGone
  <2>3. late' = (timers > 0) /\ timers' = timers /\ timers \in Nat /\ retries' = MaxReconnects
        /\ wanted' = FALSE /\ current' = 0 /\ beating' = FALSE /\ cut' = cut
    BY <1>2, <1>a DEF Y!Disconnect, Y!GivesUp, ClientsTypes
  <2>5. late' \in BOOLEAN /\ (~late' => timers' = 0)
    <3>1. CASE timers > 0
      BY <2>3, <3>1
    <3>2. CASE ~(timers > 0)
      <4>1. timers = 0
        BY <2>3, <3>2
      <4> QED BY <2>3, <3>2, <4>1
    <3> QED BY <3>1, <3>2
  <2>4. ClientsTypes'
    <3>1. ClientsFlags'
      BY <1>a, <2>3, <2>5 DEF ClientsTypes, ClientsFlags
    <3> QED BY <1>a, <2>1, <2>2, <2>3, <3>1, ClientsConstants DEF ClientsTypes
  <2> QED BY <2>2, <2>3, <2>4, <2>5 DEF ClientsIInv, Y!OneConnection
<1>3. CASE Y!Fire
  <2>1. timers \in Nat /\ timers > 0 /\ timers' = timers - 1 /\ timers' \in Nat /\ timers' <= timers
        /\ UNCHANGED <<retries, beating, cut, wanted, late>> /\ Y!Connected
    BY <1>3, <1>a DEF Y!Fire, ClientsTypes
  <2>2. wanted \/ late
    BY <2>1 DEF ClientsIInv, ClientsTypes
  <2>4. ClientsFlags'
    BY <2>1, <1>a DEF ClientsTypes, ClientsFlags
  <2>3. ClientsTypes'
    BY <2>1, <2>4, <1>a, ClientsConnectedLive, ClientsGoneCounts DEF ClientsTypes
  <2> QED BY <2>1, <2>2, <2>3, ClientsConnectedLive DEF ClientsIInv, Y!OneConnection
<1>4. ASSUME NEW n \in DOMAIN conns, Y!Opened(n) PROVE ClientsIInv'
  <2>1. /\ conns' \in Seq(ClientsSocketStates) /\ Len(conns') = Len(conns) /\ DOMAIN conns' = DOMAIN conns
        /\ \A m \in DOMAIN conns : conns'[m] = IF m = n THEN "open" ELSE conns[m]
    BY <1>4, <1>a, ClientsCallback DEF Y!Opened, ClientsSocketStates
  <2>2. Y!Live' = Y!Live /\ ClientsGone' = ClientsGone /\ n \in Y!Live
    BY <1>4, <2>1 DEF Y!Opened, Y!Live, ClientsGone
  <2>3. ClientsTypes'
    <3>1. ClientsFlags'
      BY <1>4, <1>a DEF Y!Opened, ClientsTypes, ClientsFlags
    <3> QED BY <1>4, <1>a, <2>1, <2>2, <3>1, ClientsConstants DEF Y!Opened, ClientsTypes
  <2>4. wanted \/ late
    BY <2>2, <1>a DEF Y!OneConnection
  <2> QED BY <1>4, <1>a, <2>2, <2>3, <2>4 DEF Y!Opened, ClientsIInv, Y!OneConnection
<1>5. ASSUME NEW n \in DOMAIN conns, Y!Closing(n) PROVE ClientsIInv'
  <2>1. /\ conns' \in Seq(ClientsSocketStates) /\ Len(conns') = Len(conns) /\ DOMAIN conns' = DOMAIN conns
        /\ \A m \in DOMAIN conns : conns'[m] = IF m = n THEN "closing" ELSE conns[m]
    BY <1>5, <1>a, ClientsCallback DEF Y!Closing, ClientsSocketStates
  <2>2. Y!Live' = Y!Live \ {n} /\ ClientsGone' = ClientsGone /\ n \in Y!Live
    BY <1>5, <2>1 DEF Y!Closing, Y!Live, ClientsGone
  <2>3. \A m \in Y!Live' : conns'[m] = conns[m]
    BY <2>1, <2>2 DEF Y!Live
  <2>4. ClientsFlags'
    BY <1>5, <1>a DEF Y!Closing, ClientsTypes, ClientsFlags
  <2> QED BY <1>5, <1>a, <2>1, <2>2, <2>3, <2>4 DEF Y!Closing, ClientsIInv, ClientsTypes, Y!OneConnection
<1>6. ASSUME NEW n \in DOMAIN conns, Y!Closed(n) PROVE ClientsIInv'
  <2>1. /\ conns' \in Seq(ClientsSocketStates) /\ Len(conns') = Len(conns) /\ DOMAIN conns' = DOMAIN conns
        /\ \A m \in DOMAIN conns : conns'[m] = IF m = n THEN "closed" ELSE conns[m]
    BY <1>6, <1>a, ClientsCallback DEF Y!Closed, ClientsSocketStates
  <2>2. Y!Live' = Y!Live \ {n} /\ ClientsGone' = ClientsGone \cup {n} /\ n \notin ClientsGone
    BY <1>6, <2>1 DEF Y!Closed, Y!Live, ClientsGone
  <2>3. \A m \in Y!Live' : conns'[m] = conns[m] /\ m = current /\ m # n
    BY <2>1, <2>2, <1>a DEF Y!Live
  <2>4. Cardinality(ClientsGone') = Cardinality(ClientsGone) + 1 /\ Cardinality(ClientsGone) \in Nat
    BY <2>2, <1>a, ClientsGoneCounts, FS_AddElement
  <2>5. /\ retries' \in 0..MaxReconnects /\ timers' \in Nat /\ timers' <= Cardinality(ClientsGone')
        /\ timers' > 0 \/ retries' = MaxReconnects
    BY <1>6, <1>a, <2>4, ClientsConstants DEF Y!Closed, ClientsTypes
  <2>6. ClientsTypes'
    <3>1. ClientsFlags'
      BY <1>6, <1>a DEF Y!Closed, ClientsTypes, ClientsFlags
    <3> QED BY <1>6, <1>a, <2>1, <2>5, <3>1 DEF Y!Closed, ClientsTypes
  <2>7. Y!OneConnection'
    BY <1>6, <1>a, <2>2, <2>3, <2>5 DEF Y!Closed, Y!OneConnection
  <2>8. ~wanted /\ ~late => timers' = 0 /\ retries' = MaxReconnects
    <3>1. conns # <<>>
      OBVIOUS
    <3> QED BY <3>1, <1>6, <1>a DEF Y!Closed, ClientsIInv, ClientsTypes
  <2> QED BY <1>6, <1>a, <2>2, <2>6, <2>7, <2>8 DEF Y!Closed, ClientsIInv
<1>7. CASE UNCHANGED Y!vars
  <2>1. Y!Live' = Y!Live /\ ClientsGone' = ClientsGone
    BY <1>7 DEF Y!vars, Y!Live, ClientsGone
  <2> QED BY <1>7, <2>1 DEF Y!vars, ClientsIInv, ClientsTypes, ClientsFlags, Y!OneConnection
<1> QED BY <1>1, <1>2, <1>3, <1>4, <1>5, <1>6, <1>7 DEF Y!Next

LEMMA ClientsSpecInv == Y!Init /\ [][Y!Next]_(Y!vars) => [](Y!TypeOK /\ Y!OneConnection)
<1>1. Y!Init /\ [][Y!Next]_(Y!vars) => []ClientsIInv
  BY ClientsInitInv, ClientsNextInv, PTL
<1>2. ClientsIInv => Y!TypeOK /\ Y!OneConnection
  BY ClientsGoneCounts, ClientsConstants DEF ClientsIInv, ClientsTypes, ClientsFlags, Y!TypeOK, ClientsSocketStates
<1> QED BY <1>1, <1>2, PTL
-----------------------------------------------------------------------------
(* A2UISessions: a future belongs to the wait that registered it. *)

-----------------------------------------------------------------------------
\* How the future of call i and the call itself agree: the future is in the session for as
\* long as somebody may resolve it, and what was acknowledged is what the future holds.
InputsAgrees(i) ==
  /\ waits[i] \in {"idle", "failed"} => futures[i] = "none"
  /\ futures[i] = "none" => waits[i] \in {"idle", "failed"}
  /\ futures[i] = "pending" => i \in pending /\ session # "closed"
  /\ futures[i] = "answer" => waits[i] \in {"sending", "waiting", "timing out", "answered"}
  /\ waits[i] = "answered" => futures[i] = "answer"
  /\ i \in acked <=> futures[i] = "answer"
  /\ waits[i] \in {"timed out", "cancelled"} => futures[i] = "cancelled"

InputsIInv == U!TypeOK /\ \A i \in Inputs : InputsAgrees(i)
-----------------------------------------------------------------------------
LEMMA InputsInitInv == U!Init => InputsIInv
  BY DEF U!Init, InputsIInv, U!TypeOK, InputsAgrees

LEMMA InputsNextInv == InputsIInv /\ [U!Next]_(U!vars) => InputsIInv'
<1> SUFFICES ASSUME InputsIInv, [U!Next]_(U!vars) PROVE InputsIInv'
  OBVIOUS
<1>1. CASE U!GoStale
  BY <1>1 DEF U!GoStale, InputsIInv, U!TypeOK, InputsAgrees
<1>2. CASE U!Close
  BY <1>2 DEF U!Close, U!Cancelled, U!Live, InputsIInv, U!TypeOK, InputsAgrees
<1>3. CASE \E i \in Inputs : U!Ask(i)
  <2>0. PICK i \in Inputs : U!Ask(i)
    BY <1>3
  <2>1. U!TypeOK'
    BY <2>0 DEF U!Ask, U!Looked, InputsIInv, U!TypeOK
  <2>2. ASSUME NEW k \in Inputs PROVE InputsAgrees(k)'
    BY <2>0 DEF U!Ask, U!Looked, InputsIInv, U!TypeOK, InputsAgrees
  <2> QED BY <2>1, <2>2 DEF InputsIInv
<1>4. CASE \E i \in Inputs : U!Sent(i)
  BY <1>4 DEF U!Sent, InputsIInv, U!TypeOK, InputsAgrees
<1>5. CASE \E i \in Inputs : U!TimesOut(i)
  BY <1>5 DEF U!TimesOut, InputsIInv, U!TypeOK, InputsAgrees
<1>6. CASE \E i \in Inputs : U!Wake(i)
  <2>0. PICK i \in Inputs : U!Wake(i)
    BY <1>6
  <2>1. U!TypeOK'
    <3>1. futures[i] \in {"pending", "answer", "cancelled"}
      BY <2>0 DEF U!Wake, InputsIInv, U!TypeOK, InputsAgrees
    <3> QED BY <2>0, <3>1 DEF U!Wake, InputsIInv, U!TypeOK
  <2>2. ASSUME NEW k \in Inputs PROVE InputsAgrees(k)'
    BY <2>0 DEF U!Wake, InputsIInv, U!TypeOK, InputsAgrees
  <2> QED BY <2>1, <2>2 DEF InputsIInv
<1>7. CASE \E i \in Inputs : U!Respond(i)
  <2>0. PICK i \in Inputs : U!Respond(i)
    BY <1>7
  <2>1. U!TypeOK'
    BY <2>0 DEF U!Respond, U!Resolvable, U!Live, U!Looked, InputsIInv, U!TypeOK
  <2>2. ASSUME NEW k \in Inputs PROVE InputsAgrees(k)'
    <3>1. CASE session # "open"
      BY <2>0, <3>1 DEF U!Respond, U!Live, U!Looked, InputsIInv, U!TypeOK, InputsAgrees
    <3>2. CASE session = "open" /\ k = i
      BY <2>0, <3>2 DEF U!Respond, U!Resolvable, U!Live, U!Looked, InputsIInv, U!TypeOK, InputsAgrees
    <3>3. CASE session = "open" /\ k # i
      BY <2>0, <3>3 DEF U!Respond, U!Resolvable, U!Live, U!Looked, InputsIInv, U!TypeOK, InputsAgrees
    <3> QED BY <3>1, <3>2, <3>3
  <2> QED BY <2>1, <2>2 DEF InputsIInv
<1>8. CASE \E i \in Inputs : U!UserCancel(i)
  <2>0. PICK i \in Inputs : U!UserCancel(i)
    BY <1>8
  <2>1. U!TypeOK'
    BY <2>0 DEF U!UserCancel, U!Cancelled, U!Live, U!Looked, InputsIInv, U!TypeOK
  <2>2. ASSUME NEW k \in Inputs PROVE InputsAgrees(k)'
    <3>1. CASE session # "open"
      BY <2>0, <3>1 DEF U!UserCancel, U!Live, U!Looked, InputsIInv, U!TypeOK, InputsAgrees
    <3>2. CASE session = "open" /\ k = i
      <4>1. InputsAgrees(i) /\ waits' = waits /\ acked' = acked
        BY <2>0, <3>2 DEF U!UserCancel, InputsIInv
      <4>2. futures'[i] = IF futures[i] = "pending" THEN "cancelled" ELSE futures[i]
        BY <2>0, <3>2, <4>1 DEF U!UserCancel, U!Cancelled, InputsAgrees
      <4> QED BY <3>2, <4>1, <4>2 DEF InputsAgrees
    <3>3. CASE session = "open" /\ k # i
      BY <2>0, <3>3 DEF U!UserCancel, U!Cancelled, U!Live, U!Looked, InputsIInv, U!TypeOK, InputsAgrees
    <3> QED BY <3>1, <3>2, <3>3
  <2> QED BY <2>1, <2>2 DEF InputsIInv
<1>9. CASE UNCHANGED U!vars
  BY <1>9 DEF U!vars, InputsIInv, U!TypeOK, InputsAgrees
<1> QED BY <1>1, <1>2, <1>3, <1>4, <1>5, <1>6, <1>7, <1>8, <1>9 DEF U!Next

LEMMA InputsInvAnswers == InputsIInv => U!TypeOK /\ U!AnswersReachTheCall
  BY DEF InputsIInv, U!TypeOK, InputsAgrees, U!AnswersReachTheCall

LEMMA InputsSpecInv == U!Init /\ [][U!Next]_(U!vars) => [](U!TypeOK /\ U!AnswersReachTheCall)
<1>1. U!Init /\ [][U!Next]_(U!vars) => []InputsIInv
  BY InputsInitInv, InputsNextInv, PTL
<1> QED BY <1>1, InputsInvAnswers, PTL
-----------------------------------------------------------------------------
(* CachedRows: what an update answered is what its transaction wrote. *)

LEMMA RowsConstants == Values # {} /\ None \notin Readers
  BY ServicesAssumption
-----------------------------------------------------------------------------
\* A request whose object may still be cached later: nobody has it yet.
RowsEarly(r) == handlers[r].pc \in {"idle", "get", "put"}

\* The object that r loaded: its value was the row's while r was at work, and what r sets
\* in it stays there, or goes to the row, unless another request sets it too.
RowsOwn(r) ==
  /\ RowsEarly(r) => cache # r
  /\ ~L!At(r, "idle") => row \in held[r]
  /\ L!At(r, "put") \/ (L!At(r, "commit") /\ L!Owns(r)) => objects[r].loaded \in held[r]
  /\ handlers[r].op = "update" /\ L!Owns(r) =>
       /\ L!At(r, "commit") => objects[r].now = handlers[r].value \/ objects[r].shared
       /\ L!At(r, "refresh") => handlers[r].value \in held[r] \/ objects[r].shared

\* DoneIsStored, of one request.
RowsStored(r) ==
  L!At(r, "done") /\ handlers[r].op = "update" => handlers[r].value \in held[r] \/ objects[r].shared

\* The rows of TypeOK.
RowsObjects == [loaded : Values, now : Values, shared : BOOLEAN]
RowsHandlers == [pc : {"idle", "get", "put", "commit", "refresh", "done", "error"},
             op : L!Ops, value : Values, object : Readers \cup {None}]
RowsTypes ==
  /\ row \in Values
  /\ objects \in [Readers -> RowsObjects]
  /\ cache \in Readers \cup {None}
  /\ handlers \in [Readers -> RowsHandlers]
  /\ held \in [Readers -> SUBSET Values]

RowsIInv == RowsTypes /\ \A r \in Readers : RowsOwn(r) /\ RowsStored(r)
-----------------------------------------------------------------------------
LEMMA RowsInitInv == L!Init => RowsIInv
<1> SUFFICES ASSUME L!Init PROVE RowsIInv
  OBVIOUS
<1>1. row \in Values
  BY RowsConstants DEF L!Init
<1>2. [loaded |-> row, now |-> row, shared |-> FALSE] \in RowsObjects
      /\ [pc |-> "idle", op |-> "read", value |-> row, object |-> None] \in RowsHandlers
  BY <1>1 DEF RowsObjects, RowsHandlers, L!Ops
<1>3. RowsTypes
  BY <1>1, <1>2 DEF L!Init, RowsTypes
<1> QED BY <1>3, RowsConstants DEF L!Init, RowsIInv, RowsStored, RowsOwn, RowsEarly, L!At, L!Owns

\* The handler r goes on with the object of o: r's row and the object's stay well formed.
LEMMA RowsProceedTypes ==
  ASSUME RowsTypes, NEW r \in Readers, NEW o \in Readers, L!Proceed(r, o)
  PROVE  objects' \in [Readers -> RowsObjects] /\ handlers' \in [Readers -> RowsHandlers]
<1>1. handlers[r] \in RowsHandlers /\ objects[o] \in RowsObjects
  BY DEF RowsTypes
<1>2. [handlers[r] EXCEPT !.object = o,
         !.pc = IF handlers[r].op = "read" THEN "done" ELSE "commit"] \in RowsHandlers
  BY <1>1 DEF RowsHandlers
<1>3. [objects[o] EXCEPT !.now = handlers[r].value, !.shared = @ \/ r # o] \in RowsObjects
  BY <1>1 DEF RowsHandlers, RowsObjects
<1> QED BY <1>2, <1>3 DEF L!Proceed, RowsTypes

LEMMA RowsNextInv == RowsIInv /\ [L!Next]_(L!vars) => RowsIInv'
<1> SUFFICES ASSUME RowsIInv, [L!Next]_(L!vars) PROVE RowsIInv'
  OBVIOUS
<1> USE DEF RowsIInv
<1>a. /\ \A r \in Readers : handlers[r] \in RowsHandlers /\ objects[r] \in RowsObjects
      /\ DOMAIN handlers = Readers /\ DOMAIN objects = Readers /\ DOMAIN held = Readers
  BY DEF RowsTypes
<1>1. ASSUME NEW r \in Readers, NEW op \in L!Ops, NEW v \in Values, L!Begin(r, op, v) PROVE RowsIInv'
  <2>1. [handlers[r] EXCEPT !.pc = "get", !.op = op, !.value = v] \in RowsHandlers
    BY <1>a DEF RowsHandlers
  <2>2. RowsTypes'
    BY <1>1, <2>1 DEF L!Begin, RowsTypes
  <2>3. ASSUME NEW q \in Readers PROVE RowsOwn(q)' /\ RowsStored(q)'
    BY <1>1, <1>a DEF L!Begin, RowsOwn, RowsEarly, L!At, L!Owns, RowsStored
  <2> QED BY <2>2, <2>3
<1>2. ASSUME NEW r \in Readers, L!Hit(r) PROVE RowsIInv'
  <2>1. cache \in Readers \ {r}
    BY <1>2 DEF L!Hit, RowsTypes, RowsOwn, RowsEarly, L!At
  <2>2. RowsTypes'
    BY <1>2, <2>1, RowsProceedTypes DEF L!Hit, RowsTypes
  <2>3. ASSUME NEW q \in Readers PROVE RowsOwn(q)' /\ RowsStored(q)'
    <3>1. /\ cache' = cache /\ row' = row /\ held' = held
          /\ handlers'[q] = IF q = r THEN [handlers[r] EXCEPT !.object = cache,
                                !.pc = IF handlers[r].op = "read" THEN "done" ELSE "commit"]
                            ELSE handlers[q]
      BY <1>2, <1>a DEF L!Hit, L!Proceed
    <3>2. /\ objects'[q].loaded = objects[q].loaded
          /\ objects[q].shared => objects'[q].shared
          /\ objects'[q].now = objects[q].now \/ objects'[q].shared
      BY <1>2, <1>a, <2>1 DEF L!Hit, L!Proceed, RowsObjects
    <3>3. CASE q = r
      BY <3>1, <3>3, <1>2, <1>a, <2>1 DEF L!Hit, RowsOwn, RowsEarly, L!At, L!Owns, RowsStored, RowsHandlers
    <3>4. CASE q # r
      BY <3>1, <3>2, <3>4, <1>2 DEF L!Hit, RowsOwn, RowsEarly, L!At, L!Owns, RowsStored
    <3> QED BY <3>3, <3>4
  <2> QED BY <2>2, <2>3
<1>3. ASSUME NEW r \in Readers, L!Select(r) PROVE RowsIInv'
  <2>1. [handlers[r] EXCEPT !.pc = "put"] \in RowsHandlers
    BY <1>a DEF RowsHandlers
  <2>2. [objects[r] EXCEPT !.loaded = row, !.now = row] \in RowsObjects
    BY <1>a DEF RowsObjects, RowsTypes
  <2>3. RowsTypes'
    BY <1>3, <2>1, <2>2 DEF L!Select, RowsTypes
  <2>4. row \in held[r]
    BY <1>3 DEF L!Select, RowsOwn, L!At
  <2>5. ASSUME NEW q \in Readers PROVE RowsOwn(q)' /\ RowsStored(q)'
    BY <1>3, <1>a, <2>4 DEF L!Select, RowsOwn, RowsEarly, L!At, L!Owns, RowsStored
  <2> QED BY <2>3, <2>5
<1>4. ASSUME NEW r \in Readers, L!Put(r) PROVE RowsIInv'
  <2>1. RowsTypes'
    BY <1>4, RowsProceedTypes DEF L!Put, RowsTypes
  <2>2. ASSUME NEW q \in Readers PROVE RowsOwn(q)' /\ RowsStored(q)'
    BY <1>4, <1>a DEF L!Put, L!Proceed, RowsOwn, RowsEarly, L!At, L!Owns, RowsStored, RowsHandlers
  <2> QED BY <2>1, <2>2
<1>5. ASSUME NEW r \in Readers, L!Commit(r) PROVE RowsIInv'
  <2>1. [handlers[r] EXCEPT !.pc = IF handlers[r].op = "update" THEN "refresh" ELSE "done"] \in RowsHandlers
    BY <1>a DEF RowsHandlers
  <2>2. [objects[r] EXCEPT !.loaded = objects[r].now] \in RowsObjects /\ objects[r].now \in Values
    BY <1>a DEF RowsObjects
  <2>3. RowsTypes'
    BY <1>5, <2>1, <2>2 DEF L!Commit, L!Store, RowsTypes
  <2>4. ASSUME NEW q \in Readers PROVE RowsOwn(q)' /\ RowsStored(q)'
    <3>1. held[q] \subseteq held'[q] /\ (row \in held[q] => row' \in held'[q])
      BY <1>5, <1>a DEF L!Commit, L!Store
    <3>2. CASE q = r
      <4>1. objects[r].now \in held'[r] \/ ~L!Owns(r)
        BY <1>5, <1>a DEF L!Commit, L!Store, RowsOwn, L!At
      <4> QED BY <1>5, <1>a, <3>1, <3>2, <4>1 DEF L!Commit, RowsOwn, RowsEarly, L!At, L!Owns, RowsStored
    <3>3. CASE q # r
      BY <1>5, <1>a, <3>1, <3>3 DEF L!Commit, RowsOwn, RowsEarly, L!At, L!Owns, RowsStored
    <3> QED BY <3>2, <3>3
  <2> QED BY <2>3, <2>4
<1>6. ASSUME NEW r \in Readers, L!Refresh(r) PROVE RowsIInv'
  <2>1. [handlers[r] EXCEPT !.pc = "done"] \in RowsHandlers
    BY <1>a DEF RowsHandlers
  <2>2. [objects[r] EXCEPT !.loaded = row, !.now = row] \in RowsObjects
    BY <1>a DEF RowsObjects, RowsTypes
  <2>3. RowsTypes'
    BY <1>6, <2>1, <2>2 DEF L!Refresh, RowsTypes
  <2>4. ASSUME NEW q \in Readers PROVE RowsOwn(q)' /\ RowsStored(q)'
    BY <1>6, <1>a, RowsConstants DEF L!Refresh, RowsOwn, RowsEarly, L!At, L!Owns, RowsStored, RowsTypes
  <2> QED BY <2>3, <2>4
<1>7. ASSUME NEW r \in Readers, L!Raise(r) PROVE RowsIInv'
  <2>1. [handlers[r] EXCEPT !.pc = "error"] \in RowsHandlers
    BY <1>a DEF RowsHandlers
  <2>2. RowsTypes'
    BY <1>7, <2>1 DEF L!Raise, RowsTypes
  <2>3. ASSUME NEW q \in Readers PROVE RowsOwn(q)' /\ RowsStored(q)'
    BY <1>7, <1>a DEF L!Raise, RowsOwn, RowsEarly, L!At, L!Owns, RowsStored
  <2> QED BY <2>2, <2>3
<1>8. CASE L!Forget
  <2>1. RowsTypes'
    BY <1>8 DEF L!Forget, RowsTypes
  <2>2. ASSUME NEW q \in Readers PROVE RowsOwn(q)' /\ RowsStored(q)'
    BY <1>8, RowsConstants DEF L!Forget, RowsOwn, RowsEarly, L!At, L!Owns, RowsStored
  <2> QED BY <2>1, <2>2
<1>9. CASE UNCHANGED L!vars
  BY <1>9 DEF L!vars, RowsTypes, RowsStored, RowsOwn, RowsEarly, L!At, L!Owns
<1> QED BY <1>1, <1>2, <1>3, <1>4, <1>5, <1>6, <1>7, <1>8, <1>9 DEF L!Next

LEMMA RowsSpecInv == L!Init /\ [][L!Next]_(L!vars) => [](L!TypeOK /\ L!DoneIsStored)
<1>1. L!Init /\ [][L!Next]_(L!vars) => []RowsIInv
  BY RowsInitInv, RowsNextInv, PTL
<1>2. RowsIInv => L!TypeOK /\ L!DoneIsStored
  BY DEF RowsIInv, RowsTypes, L!TypeOK, RowsObjects, RowsHandlers, RowsStored, L!DoneIsStored
<1> QED BY <1>1, <1>2, PTL
-----------------------------------------------------------------------------
(* ContentCache: the bytes of the hot cache are the sum of what it holds. *)

LEMMA ContentsConstants ==
  /\ IsFiniteSet(Contents) /\ Sizes \in [Contents -> Nat] /\ None \notin Nat
  /\ MaxBytes \in Nat /\ WarmSize \in Nat /\ PromoteAfter \in Nat /\ MaxGets \in Nat
  BY ServicesAssumption DEF Sizes
LEMMA ContentsSum == \A f, s : D!SumFunctionOnSet(f, s) = SumFunctionOnSet(f, s)
  BY DEF D!SumFunctionOnSet, SumFunctionOnSet, D!FoldFunctionOnSet, FoldFunctionOnSet,
         D!MapThenFoldSet, MapThenFoldSet
-----------------------------------------------------------------------------
ContentsRemoveAt(s, i) == SubSeq(s, 1, i - 1) \o SubSeq(s, i + 1, Len(s))

\* The rows of TypeOK.
ContentsWrites == [pc : {"idle", "not found", "writing"}, key : Contents \cup {None}]
ContentsReads == [pc : {"idle", "reading", "read"}, key : Contents \cup {None}, data : Nat \cup {None}]
ContentsEntries == [key : Contents, data : Nat]

ContentsFiles ==
  /\ files \in [Contents -> Nat \cup {None}]
  /\ listed \subseteq Contents /\ doubtful \subseteq Contents
  /\ publishers \in [Publishers -> ContentsWrites]
  /\ \A p \in Publishers : publishers[p].pc # "idle" => publishers[p].key \in Contents
  /\ \A k \in listed : files[k] \in Nat

ContentsCaches ==
  /\ getters \in [Getters -> ContentsReads]
  /\ \A g \in Getters : getters[g].pc # "idle" => getters[g].key \in listed
  /\ \A g \in Getters : getters[g].pc = "read" => getters[g].data \in Nat
  /\ warm \in Seq(ContentsEntries) /\ Len(warm) <= WarmSize
  /\ gets \in 0..MaxGets

\* The hot cache holds what it counts, and no more than it may.
ContentsHotIn(h) ==
  /\ h = [data |-> h.data, freq |-> h.freq, access |-> h.access, bytes |-> h.bytes]
  /\ DOMAIN h.data \subseteq Contents /\ DOMAIN h.freq = DOMAIN h.data
  /\ \A k \in DOMAIN h.data : h.data[k] \in Nat
  /\ h.access \in [Contents -> Nat]
  /\ h.bytes = D!BytesOf(h.data, DOMAIN h.data) /\ h.bytes <= MaxBytes

\* A listed content of which no write was cut or came over another: it is whole where it is.
ContentsSound(k) ==
  /\ files[k] = Sizes[k]
  /\ k \in DOMAIN hot.data => hot.data[k] = Sizes[k]
  /\ \A i \in DOMAIN warm : warm[i].key = k => warm[i].data = Sizes[k]
  /\ \A g \in Getters : getters[g].pc = "read" /\ getters[g].key = k => getters[g].data = Sizes[k]

ContentsIInv ==
  /\ ContentsFiles /\ ContentsCaches /\ ContentsHotIn(hot)
  /\ DOMAIN hot.data \subseteq listed
  /\ \A i \in DOMAIN warm : warm[i].key \in listed
  /\ \A k \in listed \ doubtful : ContentsSound(k)
-----------------------------------------------------------------------------
LEMMA ContentsInitInv == D!Init => ContentsIInv
<1> SUFFICES ASSUME D!Init PROVE ContentsIInv
  OBVIOUS
<1>1. ContentsFiles
  BY DEF D!Init, ContentsFiles, D!NoWrite, ContentsWrites
<1>2. ContentsCaches
  BY ContentsConstants DEF D!Init, ContentsCaches, D!Idle, ContentsReads
<1>3. ContentsHotIn(hot)
  <2>1. hot = [data |-> <<>>, freq |-> <<>>, access |-> [k \in Contents |-> 0], bytes |-> 0] /\ DOMAIN hot.data = {}
    BY DEF D!Init
  <2>2. D!BytesOf(hot.data, {}) = 0
    BY SumEmpty, ContentsSum DEF D!BytesOf
  <2> QED BY <2>1, <2>2, ContentsConstants DEF ContentsHotIn
<1> QED BY <1>1, <1>2, <1>3 DEF D!Init, ContentsIInv

LEMMA ContentsTakenOut ==
  ASSUME NEW s \in Seq(ContentsEntries), NEW i \in DOMAIN s
  PROVE  /\ ContentsRemoveAt(s, i) \in Seq(ContentsEntries) /\ Len(ContentsRemoveAt(s, i)) = Len(s) - 1
         /\ \A j \in DOMAIN ContentsRemoveAt(s, i) : \E l \in DOMAIN s : ContentsRemoveAt(s, i)[j] = s[l]
<1>1. i \in 1..Len(s) /\ Len(s) \in Nat
  OBVIOUS
<1>2. SubSeq(s, 1, i-1) \in Seq(ContentsEntries) /\ Len(SubSeq(s, 1, i-1)) = i - 1
      /\ \A j \in 1..i-1 : SubSeq(s, 1, i-1)[j] = s[j]
  BY <1>1
<1>3. SubSeq(s, i+1, Len(s)) \in Seq(ContentsEntries) /\ Len(SubSeq(s, i+1, Len(s))) = Len(s) - i
      /\ \A j \in 1..(Len(s) - i) : SubSeq(s, i+1, Len(s))[j] = s[i + j]
  BY <1>1
<1>4. PICK a, b : a = SubSeq(s, 1, i-1) /\ b = SubSeq(s, i+1, Len(s))
  OBVIOUS
<1>5. /\ a \o b \in Seq(ContentsEntries) /\ Len(a \o b) = Len(a) + Len(b)
      /\ \A j \in 1..Len(a \o b) : (a \o b)[j] = IF j <= Len(a) THEN a[j] ELSE b[j - Len(a)]
  <2>1. a \in Seq(ContentsEntries) /\ b \in Seq(ContentsEntries)
    BY <1>2, <1>3, <1>4
  <2>2. Len(a) \in Nat /\ Len(b) \in Nat
    BY <2>1
  <2> QED BY <2>1, <2>2, ConcatProperties
<1>6. Len(a) = i - 1 /\ Len(b) = Len(s) - i /\ ContentsRemoveAt(s, i) = a \o b
  BY <1>2, <1>3, <1>4 DEF ContentsRemoveAt
<1>7. Len(a \o b) = Len(s) - 1
  BY <1>1, <1>5, <1>6
<1>8. ASSUME NEW j \in 1..Len(s) - 1 PROVE \E l \in 1..Len(s) : (a \o b)[j] = s[l]
  <2>1. CASE j <= i - 1
    <3>1. (a \o b)[j] = a[j]
      BY <1>1, <1>5, <1>6, <1>7, <2>1
    <3>2. a[j] = s[j]
      BY <1>1, <1>2, <1>4, <2>1
    <3>3. j \in 1..Len(s)
      BY <1>1, <2>1
    <3> QED BY <3>1, <3>2, <3>3
  <2>2. CASE ~(j <= i - 1)
    <3>1. j - (i - 1) \in 1..(Len(s) - i) /\ i + (j - (i - 1)) \in 1..Len(s)
      BY <1>1, <2>2
    <3>2. (a \o b)[j] = b[j - (i - 1)]
      BY <1>1, <1>5, <1>6, <1>7, <2>2
    <3>3. b[j - (i - 1)] = s[i + (j - (i - 1))]
      BY <1>3, <1>4, <3>1
    <3> QED BY <3>1, <3>2, <3>3
  <2> QED BY <2>1, <2>2
<1>9. PICK x : x = a \o b
  OBVIOUS
<1>10. x \in Seq(ContentsEntries) /\ Len(x) = Len(s) - 1 /\ DOMAIN x = 1..Len(s) - 1 /\ DOMAIN s = 1..Len(s)
  BY <1>5, <1>7, <1>9
<1>11. \A j \in DOMAIN x : \E l \in DOMAIN s : x[j] = s[l]
  BY <1>8, <1>9, <1>10
<1>12. ContentsRemoveAt(s, i) = x
  BY <1>6, <1>9
<1> HIDE DEF ContentsEntries
<1> QED BY <1>10, <1>11, <1>12

\* What the warm cache holds of others: of the same entries, and one fewer if k was there.
LEMMA ContentsOthersAre ==
  ASSUME ContentsCaches, NEW k
  PROVE  /\ D!Others(k) \in Seq(ContentsEntries) /\ Len(D!Others(k)) <= Len(warm)
         /\ D!InWarm(k) => Len(D!Others(k)) = Len(warm) - 1
         /\ \A j \in DOMAIN D!Others(k) : \E l \in DOMAIN warm : D!Others(k)[j] = warm[l]
<1>1. warm \in Seq(ContentsEntries)
  BY DEF ContentsCaches
<1>2. CASE D!InWarm(k)
  <2>1. D!Place(k) \in DOMAIN warm
    BY <1>2 DEF D!InWarm, D!Place
  <2>2. D!Others(k) = ContentsRemoveAt(warm, D!Place(k))
    BY <1>2 DEF D!Others, ContentsRemoveAt
  <2>3. Len(warm) \in Nat
    BY <1>1
  <2> QED BY <1>1, <2>1, <2>2, <2>3, ContentsTakenOut
<1>3. CASE ~D!InWarm(k)
  BY <1>1, <1>3 DEF D!Others
<1> QED BY <1>2, <1>3

LEMMA ContentsPlaceOf ==
  ASSUME ContentsCaches, NEW k, D!InWarm(k)
  PROVE  D!Place(k) \in DOMAIN warm /\ warm[D!Place(k)].key = k /\ D!WarmLength(k) \in Nat
<1>1. D!Place(k) \in DOMAIN warm /\ warm[D!Place(k)].key = k
  BY DEF D!InWarm, D!Place
<1>2. warm[D!Place(k)] \in ContentsEntries
  BY <1>1 DEF ContentsCaches
<1> QED BY <1>1, <1>2 DEF D!WarmLength, ContentsEntries

\* The warm cache after an entry came to its end.
ContentsAtEnd(k, n) == Append(D!Others(k), [key |-> k, data |-> n])

LEMMA ContentsAppended ==
  ASSUME ContentsCaches, NEW k \in Contents, NEW n \in Nat
  PROVE  /\ ContentsAtEnd(k, n) \in Seq(ContentsEntries) /\ Len(ContentsAtEnd(k, n)) = Len(D!Others(k)) + 1
         /\ \A i \in DOMAIN ContentsAtEnd(k, n) : \/ ContentsAtEnd(k, n)[i] = [key |-> k, data |-> n]
                                                  \/ \E l \in DOMAIN warm : ContentsAtEnd(k, n)[i] = warm[l]
<1>0. PICK w : w = ContentsAtEnd(k, n)
  OBVIOUS
<1>1. D!Others(k) \in Seq(ContentsEntries) /\ [key |-> k, data |-> n] \in ContentsEntries
  BY ContentsOthersAre DEF ContentsEntries
<1>2. w \in Seq(ContentsEntries) /\ Len(w) = Len(D!Others(k)) + 1
      /\ \A i \in DOMAIN w : w[i] = [key |-> k, data |-> n] \/ (i \in DOMAIN D!Others(k) /\ w[i] = D!Others(k)[i])
  <2>1. PICK o, e : o = D!Others(k) /\ e = [key |-> k, data |-> n]
    OBVIOUS
  <2>2. o \in Seq(ContentsEntries) /\ e \in ContentsEntries /\ w = Append(o, e)
    BY <1>0, <1>1, <2>1 DEF ContentsAtEnd
  <2> QED BY <2>1, <2>2, AppendProperties
<1>3. \A j \in DOMAIN D!Others(k) : \E l \in DOMAIN warm : D!Others(k)[j] = warm[l]
  BY ContentsOthersAre
<1>4. \A i \in DOMAIN w : \/ w[i] = [key |-> k, data |-> n]
                         \/ \E l \in DOMAIN warm : w[i] = warm[l]
  <2> TAKE i \in DOMAIN w
  <2>1. CASE w[i] = [key |-> k, data |-> n]
    BY <2>1
  <2>2. CASE i \in DOMAIN D!Others(k) /\ w[i] = D!Others(k)[i]
    BY <1>3, <2>2
  <2> QED BY <1>2, <2>1, <2>2
<1> QED BY <1>0, <1>2, <1>4

LEMMA ContentsPutIs ==
  ASSUME ContentsCaches, NEW k \in Contents, NEW n \in Nat
  PROVE  /\ D!WarmPut(k, n) \in Seq(ContentsEntries) /\ Len(D!WarmPut(k, n)) <= WarmSize
         /\ \A i \in DOMAIN D!WarmPut(k, n) : \/ D!WarmPut(k, n)[i] = [key |-> k, data |-> n]
                                              \/ \E l \in DOMAIN warm : D!WarmPut(k, n)[i] = warm[l]
<1>1. PICK w : w = ContentsAtEnd(k, n)
  OBVIOUS
<1>2. /\ w \in Seq(ContentsEntries) /\ Len(w) = Len(D!Others(k)) + 1
      /\ \A i \in DOMAIN w : w[i] = [key |-> k, data |-> n] \/ \E l \in DOMAIN warm : w[i] = warm[l]
  BY <1>1, ContentsAppended
<1>3. D!WarmPut(k, n) = IF Len(w) > WarmSize THEN Tail(w) ELSE w
  BY <1>1 DEF D!WarmPut, ContentsAtEnd
<1>4. Len(warm) \in Nat /\ Len(D!Others(k)) \in Nat /\ Len(D!Others(k)) <= Len(warm) /\ Len(warm) <= WarmSize /\ WarmSize \in Nat
  BY ContentsOthersAre, ContentsConstants DEF ContentsCaches
<1>5. Tail(w) \in Seq(ContentsEntries) /\ Len(Tail(w)) = Len(w) - 1 /\ \A i \in DOMAIN Tail(w) : i + 1 \in DOMAIN w /\ Tail(w)[i] = w[i + 1]
  BY <1>2, <1>4
<1>6. CASE Len(w) > WarmSize
  BY <1>2, <1>3, <1>4, <1>5, <1>6
<1>7. CASE ~(Len(w) > WarmSize)
  BY <1>2, <1>3, <1>4, <1>7
<1> QED BY <1>6, <1>7
-----------------------------------------------------------------------------
(* The hot cache *)

LEMMA ContentsFiniteIn == ASSUME NEW Some, Some \subseteq Contents PROVE IsFiniteSet(Some)
  BY FS_Subset, ContentsConstants

\* What is left and what is taken away add up.
LEMMA ContentsBytesSplit ==
  ASSUME NEW d, DOMAIN d \subseteq Contents, \A k \in DOMAIN d : d[k] \in Int
  PROVE  \A gone \in SUBSET DOMAIN d :
           /\ D!BytesOf(d, DOMAIN d) = D!BytesOf(d, DOMAIN d \ gone) + D!BytesOf(d, gone)
           /\ D!BytesOf(d, gone) \in Int /\ D!BytesOf(d, DOMAIN d \ gone) \in Int
<1> DEFINE Some == DOMAIN d
           Ok(Rest) == D!BytesOf(d, Some) = D!BytesOf(d, Some \ Rest) + D!BytesOf(d, Rest)
           From == {Rest \in SUBSET Some : Ok(Rest)}
<1>1. IsFiniteSet(Some) /\ \A Rest \in SUBSET Some : IsFiniteSet(Rest) /\ IsFiniteSet(Some \ Rest)
  BY ContentsFiniteIn
<1>2. \A Rest \in SUBSET Some : D!BytesOf(d, Rest) \in Int /\ D!BytesOf(d, Some \ Rest) \in Int
  BY <1>1, SumTakeOut, ContentsSum DEF D!BytesOf
<1>3. ASSUME NEW Rest \in SUBSET Some, \A Whole \in SUBSET Rest : Whole # Rest => Whole \in From PROVE Rest \in From
  <2>1. CASE Rest = {}
    BY <1>1, <1>2, <2>1, SumEmpty, ContentsSum DEF D!BytesOf
  <2>2. CASE Rest # {}
    <3>1. PICK x \in Rest : TRUE
      BY <2>2
    <3>2. Rest \ {x} \in SUBSET Rest /\ Rest \ {x} # Rest /\ Rest \ {x} \in SUBSET Some
      BY <3>1
    <3>3. Ok(Rest \ {x})
      BY <1>3, <3>2
    <3>4. D!BytesOf(d, Rest) = d[x] + D!BytesOf(d, Rest \ {x})
      BY <1>1, <3>1, SumTakeOut, ContentsSum DEF D!BytesOf
    <3>5. D!BytesOf(d, Some \ (Rest \ {x})) = d[x] + D!BytesOf(d, Some \ Rest)
      <4>1. x \in Some \ (Rest \ {x}) /\ (Some \ (Rest \ {x})) \ {x} = Some \ Rest
        BY <3>1
      <4>2. IsFiniteSet(Some \ (Rest \ {x})) /\ \A y \in Some \ (Rest \ {x}) : d[y] \in Int
        BY <1>1, <3>2
      <4> QED BY <4>1, <4>2, SumTakeOut, ContentsSum DEF D!BytesOf
    <3>6. d[x] \in Int
      BY <3>1
    <3> QED BY <1>2, <3>2, <3>3, <3>4, <3>5, <3>6
  <2> QED BY <2>1, <2>2
<1>4. From \in SUBSET (SUBSET Some)
  OBVIOUS
<1> HIDE DEF From, Ok
<1>5. \A Rest \in SUBSET Some : Rest \in From
  BY <1>1, <1>3, <1>4, FiniteInduction
<1> QED BY <1>2, <1>5 DEF From, Ok

LEMMA ContentsPutHolds ==
  ASSUME ContentsHotIn(hot), NEW k \in Contents, NEW n \in Nat, NEW access0 \in [Contents -> Nat],
         NEW h \in D!HotPut(k, n, access0)
  PROVE  /\ ContentsHotIn(h)
         /\ DOMAIN h.data \subseteq DOMAIN hot.data \cup {k}
         /\ \A l \in DOMAIN h.data : (h.data[l] = n /\ l = k) \/ (l \in DOMAIN hot.data /\ h.data[l] = hot.data[l])
<1>1. CASE n > MaxBytes \/ D!Cached(k)
  <2>1. h = [hot EXCEPT !.access = access0]
    BY <1>1 DEF D!HotPut
  <2>2. h = [data |-> hot.data, freq |-> hot.freq, access |-> access0, bytes |-> hot.bytes]
    BY <2>1 DEF ContentsHotIn
  <2> QED BY <2>2 DEF ContentsHotIn
<1>2. CASE ~(n > MaxBytes \/ D!Cached(k))
  <2>1. PICK gone \in D!Evicted(n) :
          h = [data |-> D!With(D!Without(hot.data, gone), k, n), freq |-> D!With(D!Without(hot.freq, gone), k, 1),
               access |-> [l \in Contents |-> IF l = k THEN 1 ELSE IF l \in gone THEN 0 ELSE access0[l]],
               bytes |-> hot.bytes - D!BytesOf(hot.data, gone) + n]
    BY <1>2 DEF D!HotPut
  <2>2. /\ gone \in SUBSET DOMAIN hot.data
        /\ hot.bytes - D!BytesOf(hot.data, gone) + n <= MaxBytes \/ gone = DOMAIN hot.data
    BY DEF D!Evicted
  <2>3. k \notin DOMAIN hot.data
    BY <1>2 DEF D!Cached
  <2>4. PICK Some : Some = DOMAIN hot.data \ gone
    OBVIOUS
  <2>5. /\ DOMAIN h.data = Some \cup {k} /\ DOMAIN h.freq = Some \cup {k}
        /\ h.data[k] = n /\ \A l \in Some : h.data[l] = hot.data[l]
    BY <2>1, <2>2, <2>3, <2>4 DEF D!With, D!Without, ContentsHotIn
  <2>6. /\ D!BytesOf(hot.data, DOMAIN hot.data) = D!BytesOf(hot.data, Some) + D!BytesOf(hot.data, gone)
        /\ D!BytesOf(hot.data, gone) \in Int /\ D!BytesOf(hot.data, Some) \in Int
    <3>1. DOMAIN hot.data \subseteq Contents /\ \A l \in DOMAIN hot.data : hot.data[l] \in Int
      BY DEF ContentsHotIn
    <3> QED BY <2>2, <2>4, <3>1, ContentsBytesSplit
  <2>7. D!BytesOf(h.data, Some \cup {k}) = D!BytesOf(hot.data, Some) + n
    <3>1. IsFiniteSet(Some) /\ k \notin Some /\ \A l \in Some \cup {k} : h.data[l] \in Int
      BY <2>3, <2>4, <2>5, ContentsFiniteIn DEF ContentsHotIn
    <3>2. D!BytesOf(h.data, Some \cup {k}) = D!BytesOf(h.data, Some) + h.data[k]
      BY <3>1, SumAdd, ContentsSum DEF D!BytesOf
    <3>3. D!BytesOf(h.data, Some) = D!BytesOf(hot.data, Some)
      BY <2>5, <3>1, SumSame, ContentsSum DEF D!BytesOf
    <3> QED BY <2>5, <3>2, <3>3
  <2>8. h.bytes = D!BytesOf(h.data, DOMAIN h.data) /\ h.bytes <= MaxBytes
    <3>1. h.bytes = hot.bytes - D!BytesOf(hot.data, gone) + n /\ hot.bytes = D!BytesOf(hot.data, DOMAIN hot.data)
      BY <2>1 DEF ContentsHotIn
    <3>2. hot.bytes - D!BytesOf(hot.data, gone) + n <= MaxBytes
      <4>1. CASE gone = DOMAIN hot.data
        <5>1. hot.bytes \in Int /\ hot.bytes - D!BytesOf(hot.data, gone) + n = n
          BY <2>6, <3>1, <4>1
        <5> QED BY <1>2, <5>1, ContentsConstants
      <4> QED BY <2>2, <4>1
    <3> QED BY <2>2, <2>4, <2>5, <2>6, <2>7, <3>1, <3>2, ContentsConstants
  <2>9. h.access \in [Contents -> Nat] /\ h = [data |-> h.data, freq |-> h.freq, access |-> h.access, bytes |-> h.bytes]
    BY <2>1
  <2>10. Some \subseteq Contents /\ Some \subseteq DOMAIN hot.data /\ \A l \in Some \cup {k} : h.data[l] \in Nat
    BY <2>4, <2>5 DEF ContentsHotIn
  <2> QED BY <2>5, <2>8, <2>9, <2>10 DEF ContentsHotIn
<1> QED BY <1>1, <1>2

\* The hot cache after a request that did not find its content there.
LEMMA ContentsPromoteHolds ==
  ASSUME ContentsHotIn(hot), NEW k \in Contents, NEW n \in Nat, D!MayPromote(k, n)
  PROVE  /\ ContentsHotIn(hot')
         /\ DOMAIN hot'.data \subseteq DOMAIN hot.data \cup {k}
         /\ \A l \in DOMAIN hot'.data : (hot'.data[l] = n /\ l = k) \/ (l \in DOMAIN hot.data /\ hot'.data[l] = hot.data[l])
<1>1. D!Counted(k) \in [Contents -> Nat]
  BY DEF D!Counted, ContentsHotIn
<1>2. CASE D!Counted(k)[k] > PromoteAfter
  BY <1>1, <1>2, ContentsPutHolds DEF D!MayPromote
<1>3. CASE ~(D!Counted(k)[k] > PromoteAfter)
  <2>1. hot' = [hot EXCEPT !.access = D!Counted(k)]
    BY <1>3 DEF D!MayPromote
  <2>2. hot' = [data |-> hot.data, freq |-> hot.freq, access |-> D!Counted(k), bytes |-> hot.bytes]
    BY <2>1 DEF ContentsHotIn
  <2> QED BY <1>1, <2>2 DEF ContentsHotIn
<1> QED BY <1>2, <1>3
-----------------------------------------------------------------------------
(* The writers leave the caches alone *)

LEMMA ContentsPublished ==
  ASSUME ContentsIInv, UNCHANGED <<hot, warm, getters, gets>>, ContentsFiles', listed \subseteq listed', doubtful \subseteq doubtful',
         \A k \in listed' \ doubtful' : files'[k] = Sizes[k]
  PROVE  ContentsIInv'
<1>1. ContentsCaches'
  BY DEF ContentsIInv, ContentsCaches, ContentsReads, ContentsEntries
<1>2. ContentsHotIn(hot)' /\ DOMAIN hot'.data \subseteq listed' /\ \A i \in DOMAIN warm' : warm'[i].key \in listed'
  BY DEF ContentsIInv, ContentsHotIn, D!BytesOf
<1>3. ASSUME NEW k \in listed' \ doubtful' PROVE ContentsSound(k)'
  <2>1. files'[k] = Sizes[k]
    OBVIOUS
  <2>2. CASE k \in listed
    <3>1. ContentsSound(k)
      BY <2>2 DEF ContentsIInv
    <3> QED BY <2>1, <3>1 DEF ContentsSound
  <2>3. CASE k \notin listed
    <3>1. k \notin DOMAIN hot.data /\ (\A i \in DOMAIN warm : warm[i].key # k)
          /\ \A g \in Getters : getters[g].pc = "read" => getters[g].key # k
      BY <2>3 DEF ContentsIInv, ContentsCaches
    <3> QED BY <2>1, <3>1 DEF ContentsSound
  <2> QED BY <2>2, <2>3
<1> QED BY <1>1, <1>2, <1>3 DEF ContentsIInv

LEMMA ContentsFoundInv == ASSUME ContentsIInv, NEW p \in Publishers, NEW k \in Contents, D!Found(p, k) PROVE ContentsIInv'
<1>1. ContentsFiles'
  BY DEF D!Found, ContentsIInv, ContentsFiles
<1>2. \A l \in listed' \ doubtful' : files'[l] = Sizes[l]
  BY DEF D!Found, ContentsIInv, ContentsSound, D!Whole
<1> QED BY <1>1, <1>2, ContentsPublished DEF D!Found

LEMMA ContentsNotFoundInv == ASSUME ContentsIInv, NEW p \in Publishers, NEW k \in Contents, D!NotFound(p, k) PROVE ContentsIInv'
<1>1. ContentsFiles'
  BY DEF D!NotFound, D!At, ContentsIInv, ContentsFiles, ContentsWrites
<1>2. \A l \in listed' \ doubtful' : files'[l] = Sizes[l]
  BY DEF D!NotFound, ContentsIInv, ContentsSound
<1> QED BY <1>1, <1>2, ContentsPublished DEF D!NotFound

LEMMA ContentsOpenInv == ASSUME ContentsIInv, NEW p \in Publishers, D!Open(p) PROVE ContentsIInv'
<1>1. PICK k \in Contents : k = publishers[p].key
  BY DEF D!Open, ContentsIInv, ContentsFiles
<1>2. files' = [files EXCEPT ![k] = 0] /\ doubtful' = (IF files[k] = None THEN doubtful ELSE doubtful \cup {k})
      /\ publishers' = [publishers EXCEPT ![p] = [pc |-> "writing", key |-> k]] /\ listed' = listed
  BY <1>1 DEF D!Open, D!At
<1>3. ContentsFiles'
  <2>1. publishers' \in [Publishers -> ContentsWrites] /\ \A q \in Publishers : publishers'[q].pc # "idle" => publishers'[q].key \in Contents
    BY <1>1, <1>2 DEF ContentsIInv, ContentsFiles, ContentsWrites
  <2> QED BY <1>1, <1>2, <2>1 DEF ContentsIInv, ContentsFiles
<1>4. \A l \in listed' \ doubtful' : files'[l] = Sizes[l]
  <2> TAKE l \in listed' \ doubtful'
  <2>1. ContentsSound(l) /\ files[l] \in Nat /\ l \in Contents
    BY <1>2 DEF ContentsIInv, ContentsFiles
  <2>2. CASE files[k] = None
    <3>1. l # k
      BY <2>1, <2>2, ContentsConstants
    <3> QED BY <1>1, <1>2, <2>1, <2>2, <3>1 DEF ContentsSound, ContentsIInv, ContentsFiles
  <2>3. CASE files[k] # None
    BY <1>1, <1>2, <2>1, <2>3 DEF ContentsSound, ContentsIInv, ContentsFiles
  <2> QED BY <2>2, <2>3
<1> QED BY <1>2, <1>3, <1>4, ContentsPublished DEF D!Open

LEMMA ContentsFilledInv == ASSUME ContentsIInv, NEW p \in Publishers, D!Filled(p) PROVE ContentsIInv'
<1>1. PICK k \in Contents : k = publishers[p].key
  BY DEF D!Filled, ContentsIInv, ContentsFiles
<1>2. files' = [files EXCEPT ![k] = Sizes[k]] /\ doubtful' = doubtful /\ listed' = listed \cup {k}
      /\ publishers' = [publishers EXCEPT ![p] = D!NoWrite]
  BY <1>1 DEF D!Filled
<1>3. ContentsFiles'
  <2>1. publishers' \in [Publishers -> ContentsWrites] /\ \A q \in Publishers : publishers'[q].pc # "idle" => publishers'[q].key \in Contents
    BY <1>1, <1>2 DEF ContentsIInv, ContentsFiles, ContentsWrites, D!NoWrite
  <2> QED BY <1>1, <1>2, <2>1, ContentsConstants DEF ContentsIInv, ContentsFiles
<1>4. \A l \in listed' \ doubtful' : files'[l] = Sizes[l]
  BY <1>1, <1>2 DEF ContentsIInv, ContentsFiles, ContentsSound
<1> QED BY <1>2, <1>3, <1>4, ContentsPublished DEF D!Filled

LEMMA ContentsCutInv == ASSUME ContentsIInv, NEW p \in Publishers, D!Cut(p) PROVE ContentsIInv'
<1>1. PICK k \in Contents : k = publishers[p].key
  BY DEF D!Cut, ContentsIInv, ContentsFiles
<1>2. PICK n \in 0..Sizes[k] : files' = [files EXCEPT ![k] = n]
  BY <1>1 DEF D!Cut
<1>3. doubtful' = doubtful \cup {k} /\ listed' = listed /\ publishers' = [publishers EXCEPT ![p] = D!NoWrite]
  BY <1>1 DEF D!Cut
<1>4. n \in Nat
  BY ContentsConstants
<1>5. ContentsFiles'
  <2>1. publishers' \in [Publishers -> ContentsWrites] /\ \A q \in Publishers : publishers'[q].pc # "idle" => publishers'[q].key \in Contents
    BY <1>1, <1>3 DEF ContentsIInv, ContentsFiles, ContentsWrites, D!NoWrite
  <2> QED BY <1>1, <1>2, <1>3, <1>4, <2>1 DEF ContentsIInv, ContentsFiles
<1>6. \A l \in listed' \ doubtful' : files'[l] = Sizes[l]
  BY <1>1, <1>2, <1>3 DEF ContentsIInv, ContentsFiles, ContentsSound
<1> QED BY <1>3, <1>5, <1>6, ContentsPublished DEF D!Cut
-----------------------------------------------------------------------------
(* The readers leave the files alone *)

ContentsFilesAlone == UNCHANGED <<files, publishers, listed, doubtful>>

LEMMA ContentsGotten ==
  ASSUME ContentsIInv, ContentsFilesAlone, ContentsCaches', ContentsHotIn(hot'), DOMAIN hot'.data \subseteq listed,
         \A i \in DOMAIN warm' : warm'[i].key \in listed,
         \A k \in listed \ doubtful :
           /\ k \in DOMAIN hot'.data => hot'.data[k] = Sizes[k]
           /\ \A i \in DOMAIN warm' : warm'[i].key = k => warm'[i].data = Sizes[k]
           /\ \A g \in Getters : getters'[g].pc = "read" /\ getters'[g].key = k => getters'[g].data = Sizes[k]
  PROVE  ContentsIInv'
<1>1. ContentsFiles'
  BY DEF ContentsIInv, ContentsFiles, ContentsFilesAlone
<1>2. ContentsHotIn(hot)'
  OBVIOUS
<1>3. \A k \in listed \ doubtful : ContentsSound(k)'
  BY DEF ContentsIInv, ContentsSound, ContentsFilesAlone
<1> QED BY <1>1, <1>2, <1>3 DEF ContentsIInv, ContentsFilesAlone

LEMMA ContentsHitInv == ASSUME ContentsIInv, NEW g \in Getters, NEW k \in Contents, D!Hit(g, k) PROVE ContentsIInv'
<1>1. hot' = [data |-> hot.data, freq |-> [hot.freq EXCEPT ![k] = @ + 1], access |-> D!Counted(k), bytes |-> hot.bytes]
  BY DEF D!Hit, ContentsIInv, ContentsHotIn
<1>2. D!Counted(k) \in [Contents -> Nat]
  BY DEF D!Counted, ContentsIInv, ContentsHotIn
<1>3. ContentsHotIn(hot')
  BY <1>1, <1>2 DEF ContentsIInv, ContentsHotIn
<1>4. ContentsCaches'
  BY ContentsConstants DEF D!Hit, ContentsIInv, ContentsCaches
<1>5. \A l \in listed \ doubtful : ContentsSound(l)
  BY DEF ContentsIInv
<1> QED BY <1>1, <1>3, <1>4, <1>5, ContentsGotten DEF D!Hit, ContentsFilesAlone, ContentsIInv, ContentsSound

\* What MayPromote and the warm cache's put do, for an entry that is sound.
LEMMA ContentsPromotedInv ==
  ASSUME ContentsIInv, NEW k \in listed, NEW n \in Nat, k \notin doubtful => n = Sizes[k],
         D!MayPromote(k, n), ContentsCaches', ContentsFilesAlone,
         \A i \in DOMAIN warm' : \/ warm'[i] = [key |-> k, data |-> n]
                                 \/ \E l \in DOMAIN warm : warm'[i] = warm[l],
         \A g \in Getters : getters'[g] = getters[g] \/ getters'[g].pc # "read"
  PROVE  ContentsIInv'
<1>0. k \in Contents /\ ContentsHotIn(hot)
  BY DEF ContentsIInv, ContentsFiles
<1>1. /\ ContentsHotIn(hot') /\ DOMAIN hot'.data \subseteq DOMAIN hot.data \cup {k}
      /\ \A l \in DOMAIN hot'.data : (hot'.data[l] = n /\ l = k) \/ (l \in DOMAIN hot.data /\ hot'.data[l] = hot.data[l])
  BY <1>0, ContentsPromoteHolds
<1>2. DOMAIN hot'.data \subseteq listed
  BY <1>1 DEF ContentsIInv
<1>3. \A i \in DOMAIN warm' : warm'[i].key \in listed
  BY DEF ContentsIInv
<1>4. ASSUME NEW l \in listed \ doubtful
      PROVE  /\ l \in DOMAIN hot'.data => hot'.data[l] = Sizes[l]
             /\ \A i \in DOMAIN warm' : warm'[i].key = l => warm'[i].data = Sizes[l]
             /\ \A g \in Getters : getters'[g].pc = "read" /\ getters'[g].key = l => getters'[g].data = Sizes[l]
  <2>1. ContentsSound(l)
    BY DEF ContentsIInv
  <2>2. l \in DOMAIN hot'.data => hot'.data[l] = Sizes[l]
    BY <1>1, <2>1 DEF ContentsSound
  <2>3. \A i \in DOMAIN warm' : warm'[i].key = l => warm'[i].data = Sizes[l]
    BY <2>1 DEF ContentsSound
  <2>4. \A g \in Getters : getters'[g].pc = "read" /\ getters'[g].key = l => getters'[g].data = Sizes[l]
    BY <2>1 DEF ContentsSound
  <2> QED BY <2>2, <2>3, <2>4
<1> QED BY <1>1, <1>2, <1>3, <1>4, ContentsGotten

LEMMA ContentsWarmHitInv == ASSUME ContentsIInv, NEW g \in Getters, NEW k \in Contents, D!WarmHit(g, k) PROVE ContentsIInv'
<1>1. PICK n : n = D!WarmLength(k)
  OBVIOUS
<1>2. ContentsCaches /\ D!InWarm(k) /\ k \in listed /\ D!MayPromote(k, n) /\ getters' = getters /\ ContentsFilesAlone /\ warm' = ContentsAtEnd(k, n)
      /\ gets < MaxGets /\ gets' = gets + 1
  BY <1>1 DEF D!WarmHit, ContentsIInv, ContentsFilesAlone, ContentsAtEnd
<1>3. n \in Nat /\ (k \notin doubtful => n = Sizes[k])
  <2>1. D!Place(k) \in DOMAIN warm /\ warm[D!Place(k)].key = k /\ n \in Nat
    BY <1>1, <1>2, ContentsPlaceOf
  <2>2. k \notin doubtful => ContentsSound(k)
    BY <1>2 DEF ContentsIInv
  <2> QED BY <1>1, <2>1, <2>2 DEF ContentsSound, D!WarmLength
<1>4. /\ warm' \in Seq(ContentsEntries) /\ Len(warm') = Len(D!Others(k)) + 1
      /\ \A i \in DOMAIN warm' : warm'[i] = [key |-> k, data |-> n] \/ \E l \in DOMAIN warm : warm'[i] = warm[l]
  BY <1>2, <1>3, ContentsAppended
<1>5. Len(warm') <= WarmSize
  <2>1. Len(D!Others(k)) = Len(warm) - 1 /\ Len(warm) \in Nat /\ Len(warm) <= WarmSize
    BY <1>2, ContentsOthersAre DEF ContentsCaches
  <2> QED BY <1>4, <2>1, ContentsConstants
<1>6. ContentsCaches'
  BY <1>2, <1>4, <1>5, ContentsConstants DEF ContentsCaches, ContentsFilesAlone
<1> QED BY <1>2, <1>3, <1>4, <1>6, ContentsPromotedInv

LEMMA ContentsMissInv == ASSUME ContentsIInv, NEW g \in Getters, NEW k \in Contents, D!Miss(g, k) PROVE ContentsIInv'
<1>1. /\ warm' = D!Others(k) /\ k \in listed /\ hot' = hot /\ ContentsFilesAlone
      /\ getters' = [getters EXCEPT ![g] = [pc |-> "reading", key |-> k, data |-> None]]
      /\ gets < MaxGets /\ gets' = gets + 1 /\ ContentsCaches
  BY DEF D!Miss, ContentsFilesAlone, ContentsIInv
<1>2. /\ warm' \in Seq(ContentsEntries) /\ Len(warm') <= Len(warm)
      /\ \A i \in DOMAIN warm' : \E l \in DOMAIN warm : warm'[i] = warm[l]
  BY <1>1, ContentsOthersAre
<1>3. ContentsCaches'
  <2>1. Len(warm') \in Nat /\ Len(warm') <= WarmSize
    BY <1>1, <1>2, ContentsConstants DEF ContentsCaches
  <2>2. getters' \in [Getters -> ContentsReads]
    BY <1>1 DEF ContentsCaches, ContentsReads
  <2>3. \A h \in Getters : getters'[h] = getters[h] \/ getters'[h] = [pc |-> "reading", key |-> k, data |-> None]
    BY <1>1 DEF ContentsCaches
  <2> QED BY <1>1, <1>2, <2>1, <2>2, <2>3, ContentsConstants DEF ContentsCaches, ContentsFilesAlone
<1>4. \A i \in DOMAIN warm' : warm'[i].key \in listed
  BY <1>2 DEF ContentsIInv
<1>5. ContentsHotIn(hot') /\ DOMAIN hot'.data \subseteq listed
  BY <1>1 DEF ContentsIInv
<1>6. ASSUME NEW l \in listed \ doubtful
      PROVE  /\ l \in DOMAIN hot'.data => hot'.data[l] = Sizes[l]
             /\ \A i \in DOMAIN warm' : warm'[i].key = l => warm'[i].data = Sizes[l]
             /\ \A h \in Getters : getters'[h].pc = "read" /\ getters'[h].key = l => getters'[h].data = Sizes[l]
  <2>1. ContentsSound(l)
    BY DEF ContentsIInv
  <2>2. \A h \in Getters : getters'[h] = getters[h] \/ getters'[h].pc = "reading"
    BY <1>1 DEF ContentsCaches
  <2> QED BY <1>1, <1>2, <2>1, <2>2 DEF ContentsSound
<1> QED BY <1>1, <1>3, <1>4, <1>5, <1>6, ContentsGotten

LEMMA ContentsReadInv == ASSUME ContentsIInv, NEW g \in Getters, D!Read(g) PROVE ContentsIInv'
<1>0. PICK k : k = getters[g].key
  OBVIOUS
<1>1. /\ warm' = warm /\ hot' = hot /\ gets' = gets /\ ContentsFilesAlone /\ ContentsCaches /\ k \in listed
      /\ getters' = [getters EXCEPT ![g] = [pc |-> "read", key |-> k, data |-> files[k]]]
  BY <1>0 DEF D!Read, ContentsFilesAlone, ContentsIInv, ContentsCaches
<1>2. files[k] \in Nat /\ k \in Contents
  BY <1>1 DEF ContentsIInv, ContentsFiles
<1>3. \A h \in Getters : getters'[h] = getters[h] \/ getters'[h] = [pc |-> "read", key |-> k, data |-> files[k]]
  BY <1>1 DEF ContentsCaches
<1>4. ContentsCaches'
  <2>1. getters' \in [Getters -> ContentsReads]
    BY <1>1, <1>2 DEF ContentsCaches, ContentsReads
  <2> QED BY <1>1, <1>2, <1>3, <2>1 DEF ContentsCaches, ContentsFilesAlone
<1>5. ASSUME NEW l \in listed \ doubtful
      PROVE  /\ l \in DOMAIN hot'.data => hot'.data[l] = Sizes[l]
             /\ \A i \in DOMAIN warm' : warm'[i].key = l => warm'[i].data = Sizes[l]
             /\ \A h \in Getters : getters'[h].pc = "read" /\ getters'[h].key = l => getters'[h].data = Sizes[l]
  <2>1. ContentsSound(l)
    BY DEF ContentsIInv
  <2> QED BY <1>1, <1>3, <2>1 DEF ContentsSound
<1>6. ContentsHotIn(hot') /\ DOMAIN hot'.data \subseteq listed /\ \A i \in DOMAIN warm' : warm'[i].key \in listed
  BY <1>1 DEF ContentsIInv
<1> QED BY <1>1, <1>4, <1>5, <1>6, ContentsGotten

LEMMA ContentsKeepInv == ASSUME ContentsIInv, NEW g \in Getters, D!Keep(g) PROVE ContentsIInv'
<1>0. PICK k, n : k = getters[g].key /\ n = getters[g].data
  OBVIOUS
<1>1. /\ warm' = D!WarmPut(k, n) /\ D!MayPromote(k, n) /\ gets' = gets /\ ContentsFilesAlone /\ ContentsCaches
      /\ getters' = [getters EXCEPT ![g] = D!Idle] /\ getters[g].pc = "read"
  BY <1>0 DEF D!Keep, ContentsFilesAlone, ContentsIInv
<1>2. k \in listed /\ k \in Contents /\ n \in Nat
  BY <1>0, <1>1 DEF ContentsIInv, ContentsCaches, ContentsFiles
<1>3. k \notin doubtful => n = Sizes[k]
  BY <1>0, <1>1, <1>2 DEF ContentsIInv, ContentsSound
<1>4. /\ warm' \in Seq(ContentsEntries) /\ Len(warm') <= WarmSize
      /\ \A i \in DOMAIN warm' : warm'[i] = [key |-> k, data |-> n] \/ \E l \in DOMAIN warm : warm'[i] = warm[l]
  BY <1>1, <1>2, ContentsPutIs
<1>5. getters' \in [Getters -> ContentsReads] /\ \A h \in Getters : getters'[h] = getters[h] \/ getters'[h].pc = "idle"
  BY <1>1 DEF ContentsCaches, ContentsReads, D!Idle
<1>6. ContentsCaches'
  BY <1>1, <1>4, <1>5 DEF ContentsCaches, ContentsFilesAlone
<1>7. \A h \in Getters : getters'[h] = getters[h] \/ getters'[h].pc # "read"
  BY <1>5
<1> QED BY <1>1, <1>2, <1>3, <1>4, <1>6, <1>7, ContentsPromotedInv

LEMMA ContentsDecayInv == ASSUME ContentsIInv, D!Decay PROVE ContentsIInv'
<1>1. hot' = [data |-> hot.data, freq |-> hot.freq, access |-> [k \in Contents |-> hot.access[k] \div 2], bytes |-> hot.bytes]
  BY DEF D!Decay, ContentsIInv, ContentsHotIn
<1>2. [k \in Contents |-> hot.access[k] \div 2] \in [Contents -> Nat]
  <2>1. \A k \in Contents : hot.access[k] \in Nat
    BY DEF ContentsIInv, ContentsHotIn
  <2>2. \A m \in Nat : m \div 2 \in Nat
    OBVIOUS
  <2> QED BY <2>1, <2>2
<1>3. ContentsHotIn(hot')
  BY <1>1, <1>2 DEF ContentsIInv, ContentsHotIn
<1>4. ContentsCaches'
  BY DEF D!Decay, ContentsIInv, ContentsCaches
<1>5. \A l \in listed \ doubtful : ContentsSound(l)
  BY DEF ContentsIInv
<1> QED BY <1>1, <1>3, <1>4, <1>5, ContentsGotten DEF D!Decay, ContentsFilesAlone, ContentsIInv, ContentsSound

LEMMA ContentsNextInv == ContentsIInv /\ [D!Next]_(D!vars) => ContentsIInv'
<1> SUFFICES ASSUME ContentsIInv, [D!Next]_(D!vars) PROVE ContentsIInv'
  OBVIOUS
<1>1. CASE UNCHANGED D!vars
  <2>1. ContentsFiles' /\ ContentsCaches' /\ ContentsHotIn(hot)' /\ UNCHANGED <<hot, warm, getters, gets>>
    BY <1>1 DEF D!vars, ContentsIInv, ContentsFiles, ContentsCaches, ContentsHotIn, D!BytesOf
  <2>2. \A k \in listed' \ doubtful' : files'[k] = Sizes[k]
    BY <1>1 DEF D!vars, ContentsIInv, ContentsSound
  <2> QED BY <1>1, <2>1, <2>2, ContentsPublished DEF D!vars
<1> QED BY <1>1, ContentsFoundInv, ContentsNotFoundInv, ContentsOpenInv, ContentsFilledInv, ContentsCutInv, ContentsHitInv, ContentsWarmHitInv, ContentsMissInv, ContentsReadInv, ContentsKeepInv,
           ContentsDecayInv DEF D!Next

LEMMA ContentsInvHolds == ContentsIInv => D!TypeOK /\ D!WithinBudget /\ D!WholeUnlessCut
<1> SUFFICES ASSUME ContentsIInv PROVE D!TypeOK /\ D!WithinBudget /\ D!WholeUnlessCut
  OBVIOUS
<1>1. D!TypeOK
  BY DEF ContentsIInv, ContentsFiles, ContentsCaches, D!TypeOK, ContentsWrites, ContentsReads
<1>2. D!WithinBudget
  BY DEF ContentsIInv, ContentsHotIn, D!WithinBudget
<1>3. D!WholeUnlessCut
  <2> SUFFICES ASSUME NEW k \in listed \ doubtful
               PROVE  (D!Cached(k) => hot.data[k] = Sizes[k]) /\ (D!InWarm(k) => D!WarmLength(k) = Sizes[k])
    BY DEF D!WholeUnlessCut
  <2>1. ContentsSound(k) /\ ContentsCaches
    BY DEF ContentsIInv
  <2>2. D!InWarm(k) => D!Place(k) \in DOMAIN warm /\ warm[D!Place(k)].key = k
    BY <2>1, ContentsPlaceOf
  <2> QED BY <2>1, <2>2 DEF ContentsSound, D!Cached, D!WarmLength
<1> QED BY <1>1, <1>2, <1>3

LEMMA ContentsSpecInv == D!Init /\ [][D!Next]_(D!vars) => [](D!TypeOK /\ D!WithinBudget /\ D!WholeUnlessCut)
<1> QED BY ContentsInitInv, ContentsNextInv, ContentsInvHolds, PTL
-----------------------------------------------------------------------------
(* LiveFeed: a broadcast has sent to, or has yet to send to, whoever stayed. *)

LEMMA FeedsConstants == Feed \cap Scoped = {} /\ IsFiniteSet(Feed) /\ IsFiniteSet(Scoped) /\ MaxViewers \in Nat
  BY ServicesAssumption
-----------------------------------------------------------------------------
FeedsRows == [to : SUBSET W!Sockets, at : {"feed", "scoped", "dispatched", "broken"}, from : SUBSET W!Sockets,
         sent : SUBSET W!Sockets, dead : SUBSET W!Sockets, disturbed : BOOLEAN]

LEMMA FeedsAtIs ==
  ASSUME NEW p \in FeedsRows, viewers \subseteq W!Sockets, NEW feed \in {"feed", "scoped"}
  PROVE  /\ W!At(p, feed) \in FeedsRows /\ W!At(p, feed).at = feed /\ W!At(p, feed).from = p.from \cup (viewers \cap W!Of(feed))
         /\ W!At(p, feed).dead = {} /\ W!At(p, feed).to = p.to /\ W!At(p, feed).sent = p.sent
         /\ W!At(p, feed).disturbed = p.disturbed
  BY DEF W!At, FeedsRows

LEMMA FeedsOverIs ==
  ASSUME NEW p \in FeedsRows, NEW how \in {"dispatched", "broken"}
  PROVE  /\ W!Over(p, how) \in FeedsRows /\ W!Over(p, how).at = how /\ W!Over(p, how).from = (p.from \cap p.to) \ p.sent
         /\ W!Over(p, how).dead = {} /\ W!Over(p, how).disturbed = p.disturbed
  BY DEF W!Over, FeedsRows

LEMMA FeedsSendIs ==
  ASSUME NEW p \in FeedsRows, viewers \subseteq W!Sockets, NEW q \in W!Sends(p)
  PROVE  \E s \in W!Rest(p) :
         /\ q \in FeedsRows /\ q.at = p.at /\ q.from = p.from /\ q.sent = p.sent \cup {s} /\ q.to = p.to
         /\ q.dead = p.dead \cup (IF sockets[s] = "open" THEN {} ELSE {s}) /\ q.disturbed = p.disturbed
<1>1. PICK s \in W!Rest(p) :
        q = [p EXCEPT !.sent = p.sent \cup {s}, !.dead = p.dead \cup (IF sockets[s] = "open" THEN {} ELSE {s})]
  BY DEF W!Sends
<1>2. PICK d : d = p.dead \cup (IF sockets[s] = "open" THEN {} ELSE {s})
  OBVIOUS
<1>3. s \in W!Sockets /\ p.sent \cup {s} \in SUBSET W!Sockets /\ d \in SUBSET W!Sockets
  BY <1>2 DEF W!Rest, FeedsRows
<1>4. q = [p EXCEPT !.sent = p.sent \cup {s}, !.dead = d]
  BY <1>1, <1>2
<1>5. q \in FeedsRows /\ q.at = p.at /\ q.from = p.from /\ q.sent = p.sent \cup {s} /\ q.to = p.to /\ q.dead = d
      /\ q.disturbed = p.disturbed
  BY <1>3, <1>4 DEF FeedsRows
<1> QED BY <1>2, <1>5

\* What a broadcast knows, of viewers vs and sockets so: nobody came or went but those it tells
\* of, whom it found dead has gone, and nobody was missed on the feed it has left.
FeedsGood(p, vs, so) ==
  /\ p.at \in {"feed", "scoped"} => p.dead \subseteq W!Of(p.at) /\ \A s \in p.dead : so[s] \in {"gone", "closed"}
  /\ p.at = "feed" => p.from \subseteq Feed
  /\ p.at \in {"feed", "scoped"} /\ ~p.disturbed => p.from \cap W!Of(p.at) = vs \cap W!Of(p.at)
  /\ p.at = "scoped" /\ ~p.disturbed => p.from \cap Feed \cap p.to \subseteq p.sent
  /\ p.at = "dispatched" /\ ~p.disturbed => p.from = {}
  /\ p.at = "broken" => p.disturbed

FeedsIInv ==
  /\ sockets \in [W!Sockets -> {"new", "accepting", "open", "gone", "closed"}]
  /\ viewers \subseteq W!Sockets
  /\ \A b \in Broadcasts : broadcasts[b] \in {None} \cup FeedsRows
  /\ DOMAIN broadcasts = Broadcasts
  /\ \A s \in W!Sockets : /\ sockets[s] = "open" => s \in viewers
                          /\ s \in viewers => sockets[s] \in {"open", "gone"}
  /\ \A b \in Broadcasts : broadcasts[b] # None => FeedsGood(broadcasts[b], viewers, sockets)
-----------------------------------------------------------------------------
LEMMA FeedsInitInv == W!Init => FeedsIInv
  BY DEF W!Init, FeedsIInv

LEMMA FeedsSendsGood ==
  ASSUME FeedsIInv, NEW p \in FeedsRows, FeedsGood(p, viewers, sockets), p.at \in {"feed", "scoped"}, NEW q \in W!Sends(p)
  PROVE  q \in FeedsRows /\ FeedsGood(q, viewers, sockets) /\ q.at = p.at
<1>1. PICK s \in W!Rest(p) :
         /\ q \in FeedsRows /\ q.at = p.at /\ q.from = p.from /\ q.sent = p.sent \cup {s} /\ q.to = p.to
         /\ q.dead = p.dead \cup (IF sockets[s] = "open" THEN {} ELSE {s}) /\ q.disturbed = p.disturbed
  BY FeedsSendIs DEF FeedsIInv
<1>2. s \in viewers /\ s \in W!Of(p.at) /\ sockets[s] \in {"open", "gone"}
  BY DEF W!Rest, FeedsIInv
<1> QED BY <1>1, <1>2 DEF FeedsGood

LEMMA FeedsWalkScopedGood ==
  ASSUME FeedsIInv, NEW p \in FeedsRows,
         ~p.disturbed => p.from \cap Feed \cap p.to \subseteq p.sent /\ p.from \cap Scoped \subseteq viewers,
         NEW q \in W!WalkScoped(p)
  PROVE  q \in FeedsRows /\ q.at \in {"scoped", "dispatched"} /\ FeedsGood(q, viewers, sockets)
<1>1. PICK r : r = W!At(p, "scoped")
  OBVIOUS
<1>2. /\ r \in FeedsRows /\ r.at = "scoped" /\ r.from = p.from \cup (viewers \cap Scoped)
      /\ r.dead = {} /\ r.to = p.to /\ r.sent = p.sent /\ r.disturbed = p.disturbed
  BY <1>1, FeedsAtIs DEF FeedsIInv, W!Of
<1>3. FeedsGood(r, viewers, sockets)
  BY <1>2, FeedsConstants DEF FeedsGood, W!Of
<1>4. CASE W!Rest(r) = {}
  <2>1. q = W!Over(r, "dispatched")
    BY <1>1, <1>4 DEF W!WalkScoped
  <2>2. q \in FeedsRows /\ q.at = "dispatched" /\ q.from = (r.from \cap r.to) \ r.sent /\ q.disturbed = r.disturbed
    BY <1>2, <2>1, FeedsOverIs
  <2>3. ~r.disturbed => (r.from \cap r.to) \ r.sent = {}
    BY <1>2, <1>3, <1>4 DEF W!Rest, FeedsGood, W!Of, FeedsRows, W!Sockets
  <2> QED BY <2>2, <2>3 DEF FeedsGood
<1>5. CASE W!Rest(r) # {}
  <2>1. q \in W!Sends(r)
    BY <1>1, <1>5 DEF W!WalkScoped
  <2> QED BY <1>2, <1>3, <2>1, FeedsSendsGood
<1> QED BY <1>4, <1>5

LEMMA FeedsWalkFeedGood ==
  ASSUME FeedsIInv, NEW p \in FeedsRows, p.from = {}, p.sent = {}, NEW q \in W!WalkFeed(p)
  PROVE  q \in FeedsRows /\ FeedsGood(q, viewers, sockets)
<1>1. PICK r : r = W!At(p, "feed")
  OBVIOUS
<1>2. /\ r \in FeedsRows /\ r.at = "feed" /\ r.from = viewers \cap Feed
      /\ r.dead = {} /\ r.to = p.to /\ r.sent = {} /\ r.disturbed = p.disturbed
  BY <1>1, FeedsAtIs DEF FeedsIInv, W!Of
<1>3. FeedsGood(r, viewers, sockets)
  BY <1>2 DEF FeedsGood, W!Of
<1>4. CASE W!Rest(r) = {}
  <2>1. q \in W!WalkScoped(r)
    BY <1>1, <1>4 DEF W!WalkFeed
  <2>2. r.from \cap Feed \cap r.to \subseteq r.sent /\ r.from \cap Scoped \subseteq viewers
    BY <1>2, <1>4 DEF W!Rest, W!Of
  <2> QED BY <1>2, <2>1, <2>2, FeedsWalkScopedGood
<1>5. CASE W!Rest(r) # {}
  <2>1. q \in W!Sends(r)
    BY <1>1, <1>5 DEF W!WalkFeed
  <2> QED BY <1>2, <1>3, <2>1, FeedsSendsGood
<1> QED BY <1>4, <1>5
-----------------------------------------------------------------------------
\* A broadcast that was told, or that walks elsewhere, still knows what is so.
LEMMA FeedsDisturbedGood ==
  ASSUME NEW feed \in {"feed", "scoped"}, NEW b \in Broadcasts, broadcasts[b] \in FeedsRows,
         NEW vs \in SUBSET W!Sockets, NEW so, FeedsGood(broadcasts[b], viewers, sockets),
         \A s \in W!Sockets \ W!Of(feed) : s \in vs <=> s \in viewers,
         \A s \in W!Sockets : sockets[s] \in {"gone", "closed"} => so[s] \in {"gone", "closed"},
         W!Disturbed(feed)[b] # None
  PROVE  W!Disturbed(feed)[b] \in FeedsRows /\ FeedsGood(W!Disturbed(feed)[b], vs, so)
<1>1. PICK p \in FeedsRows : p = broadcasts[b]
  OBVIOUS
<1>2. W!Of("feed") \cup W!Of("scoped") = W!Sockets /\ W!Of("feed") \cap W!Of("scoped") = {}
  BY FeedsConstants DEF W!Of, W!Sockets
<1>3. CASE W!Walking(b, feed)
  <2>1. W!Disturbed(feed)[b] = [p EXCEPT !.disturbed = TRUE]
    BY <1>1, <1>3 DEF W!Disturbed
  <2>2. PICK q : q = [p EXCEPT !.disturbed = TRUE]
    OBVIOUS
  <2>3. /\ q \in FeedsRows /\ q.at = p.at /\ q.from = p.from /\ q.sent = p.sent /\ q.to = p.to /\ q.dead = p.dead
        /\ q.disturbed = TRUE
    BY <2>2 DEF FeedsRows
  <2>4. p.dead \subseteq W!Sockets
    BY DEF FeedsRows
  <2> QED BY <1>1, <2>1, <2>2, <2>3, <2>4 DEF FeedsGood
<1>4. CASE ~W!Walking(b, feed) /\ broadcasts[b] # None
  <2>1. W!Disturbed(feed)[b] = p /\ p.at # feed
    BY <1>1, <1>4 DEF W!Disturbed, W!Walking
  <2>2. p.dead \subseteq W!Sockets /\ p.at \in {"feed", "scoped", "dispatched", "broken"}
    BY DEF FeedsRows
  <2>3. p.at \in {"feed", "scoped"} => vs \cap W!Of(p.at) = viewers \cap W!Of(p.at)
    BY <1>2, <2>1
  <2> QED BY <1>1, <2>1, <2>2, <2>3 DEF FeedsGood
<1>5. CASE broadcasts[b] = None
  BY <1>5 DEF W!Disturbed, W!Walking
<1> QED BY <1>3, <1>4, <1>5

\* The connections change, and whoever walks their feed is told.
LEMMA FeedsTold ==
  ASSUME FeedsIInv, NEW feed \in {"feed", "scoped"}, broadcasts' = W!Disturbed(feed),
         viewers' \subseteq W!Sockets, \A s \in W!Sockets \ W!Of(feed) : s \in viewers' <=> s \in viewers,
         \A s \in W!Sockets : sockets[s] \in {"gone", "closed"} => sockets'[s] \in {"gone", "closed"}
  PROVE  /\ \A b \in Broadcasts : broadcasts'[b] \in {None} \cup FeedsRows
         /\ DOMAIN broadcasts' = Broadcasts
         /\ \A b \in Broadcasts : broadcasts'[b] # None => FeedsGood(broadcasts'[b], viewers', sockets')
<1>1. DOMAIN broadcasts' = Broadcasts
  BY DEF W!Disturbed
<1>2. ASSUME NEW b \in Broadcasts, broadcasts'[b] # None
      PROVE  broadcasts'[b] \in FeedsRows /\ FeedsGood(broadcasts'[b], viewers', sockets')
  <2>1. broadcasts[b] # None
    BY <1>2 DEF W!Disturbed, W!Walking
  <2>2. broadcasts[b] \in FeedsRows /\ FeedsGood(broadcasts[b], viewers, sockets)
    BY <2>1 DEF FeedsIInv
  <2>3. W!Disturbed(feed)[b] # None
    BY <1>2
  <2> QED BY <2>2, <2>3, FeedsDisturbedGood
<1> QED BY <1>1, <1>2

\* The connections change but no viewer.
LEMMA FeedsUntold ==
  ASSUME FeedsIInv, UNCHANGED <<viewers, broadcasts>>,
         \A s \in W!Sockets : sockets[s] \in {"gone", "closed"} => sockets'[s] \in {"gone", "closed"}
  PROVE  \A b \in Broadcasts : broadcasts'[b] # None => FeedsGood(broadcasts'[b], viewers', sockets')
<1> SUFFICES ASSUME NEW b \in Broadcasts, broadcasts[b] # None PROVE FeedsGood(broadcasts[b], viewers, sockets')
  OBVIOUS
<1>1. broadcasts[b] \in FeedsRows /\ FeedsGood(broadcasts[b], viewers, sockets)
  BY DEF FeedsIInv
<1>2. broadcasts[b].dead \subseteq W!Sockets
  BY <1>1 DEF FeedsRows
<1> QED BY <1>1, <1>2 DEF FeedsGood

LEMMA FeedsConnectInv == ASSUME FeedsIInv, NEW s \in W!Sockets, W!Connect(s) PROVE FeedsIInv'
<1>1. /\ sockets[s] = "new" /\ UNCHANGED <<viewers, broadcasts>>
      /\ \/ sockets' = [sockets EXCEPT ![s] = "closed"]
         \/ sockets' = [sockets EXCEPT ![s] = "accepting"]
  BY DEF W!Connect
<1>2. \A t \in W!Sockets : sockets[t] \in {"gone", "closed"} => sockets'[t] \in {"gone", "closed"}
  BY <1>1 DEF FeedsIInv
<1>3. s \notin viewers
  BY <1>1 DEF FeedsIInv
<1>4. \A b \in Broadcasts : broadcasts'[b] # None => FeedsGood(broadcasts'[b], viewers', sockets')
  BY <1>1, <1>2, FeedsUntold
<1> QED BY <1>1, <1>3, <1>4 DEF FeedsIInv

LEMMA FeedsLeaveInv == ASSUME FeedsIInv, NEW s \in W!Sockets, W!Leave(s) PROVE FeedsIInv'
<1>1. /\ sockets[s] \in {"accepting", "open"} /\ UNCHANGED <<viewers, broadcasts>>
      /\ sockets' = [sockets EXCEPT ![s] = IF sockets[s] = "open" THEN "gone" ELSE "closed"]
  BY DEF W!Leave
<1>2. \A t \in W!Sockets : sockets[t] \in {"gone", "closed"} => sockets'[t] \in {"gone", "closed"}
  BY <1>1 DEF FeedsIInv
<1>3. s \in viewers => sockets[s] = "open"
  BY <1>1 DEF FeedsIInv
<1>4. \A b \in Broadcasts : broadcasts'[b] # None => FeedsGood(broadcasts'[b], viewers', sockets')
  BY <1>1, <1>2, FeedsUntold
<1> QED BY <1>1, <1>3, <1>4 DEF FeedsIInv

LEMMA FeedsHomeOf == ASSUME NEW s \in W!Sockets PROVE W!Home(s) \in {"feed", "scoped"} /\ s \in W!Of(W!Home(s))
  BY DEF W!Home, W!Of, W!Sockets

LEMMA FeedsAcceptInv == ASSUME FeedsIInv, NEW s \in W!Sockets, W!Accept(s) PROVE FeedsIInv'
<1>1. /\ sockets[s] = "accepting" /\ sockets' = [sockets EXCEPT ![s] = "open"] /\ viewers' = viewers \cup {s}
      /\ broadcasts' = W!Disturbed(W!Home(s))
  BY DEF W!Accept
<1>2. \A t \in W!Sockets : sockets[t] \in {"gone", "closed"} => sockets'[t] \in {"gone", "closed"}
  BY <1>1 DEF FeedsIInv
<1>3. /\ \A b \in Broadcasts : broadcasts'[b] \in {None} \cup FeedsRows
      /\ DOMAIN broadcasts' = Broadcasts
      /\ \A b \in Broadcasts : broadcasts'[b] # None => FeedsGood(broadcasts'[b], viewers', sockets')
  <2>1. viewers' \subseteq W!Sockets /\ \A t \in W!Sockets \ W!Of(W!Home(s)) : t \in viewers' <=> t \in viewers
    BY <1>1, FeedsHomeOf DEF FeedsIInv
  <2> QED BY <1>1, <1>2, <2>1, FeedsHomeOf, FeedsTold
<1> QED BY <1>1, <1>3 DEF FeedsIInv

LEMMA FeedsDisconnectInv == ASSUME FeedsIInv, NEW s \in W!Sockets, W!Disconnect(s) PROVE FeedsIInv'
<1>1. /\ sockets[s] = "gone" /\ sockets' = [sockets EXCEPT ![s] = "closed"] /\ viewers' = viewers \ {s}
      /\ broadcasts' = IF s \in viewers THEN W!Disturbed(W!Home(s)) ELSE broadcasts
  BY DEF W!Disconnect
<1>2. \A t \in W!Sockets : sockets[t] \in {"gone", "closed"} => sockets'[t] \in {"gone", "closed"}
  BY <1>1 DEF FeedsIInv
<1>3. /\ \A b \in Broadcasts : broadcasts'[b] \in {None} \cup FeedsRows
      /\ DOMAIN broadcasts' = Broadcasts
      /\ \A b \in Broadcasts : broadcasts'[b] # None => FeedsGood(broadcasts'[b], viewers', sockets')
  <2>1. CASE s \in viewers
    <3>1. viewers' \subseteq W!Sockets /\ \A t \in W!Sockets \ W!Of(W!Home(s)) : t \in viewers' <=> t \in viewers
      BY <1>1, FeedsHomeOf DEF FeedsIInv
    <3> QED BY <1>1, <1>2, <2>1, <3>1, FeedsHomeOf, FeedsTold
  <2>2. CASE s \notin viewers
    <3>1. UNCHANGED <<viewers, broadcasts>>
      BY <1>1, <2>2
    <3> QED BY <1>2, <3>1, FeedsUntold DEF FeedsIInv
  <2> QED BY <2>1, <2>2
<1> QED BY <1>1, <1>3 DEF FeedsIInv
-----------------------------------------------------------------------------
\* The sockets stay, and one broadcast changes alone.
LEMMA FeedsOneMoves ==
  ASSUME FeedsIInv, NEW b \in Broadcasts, NEW q \in FeedsRows, FeedsGood(q, viewers, sockets),
         broadcasts' = [broadcasts EXCEPT ![b] = q], UNCHANGED <<sockets, viewers>>
  PROVE  FeedsIInv'
<1>1. \A c \in Broadcasts : broadcasts'[c] = IF c = b THEN q ELSE broadcasts[c]
  BY DEF FeedsIInv
<1>2. \A c \in Broadcasts : broadcasts'[c] # None => FeedsGood(broadcasts'[c], viewers', sockets')
  BY <1>1 DEF FeedsIInv
<1> QED BY <1>1, <1>2 DEF FeedsIInv

LEMMA FeedsBroadcastInv == ASSUME FeedsIInv, NEW b \in Broadcasts, W!Broadcast(b) PROVE FeedsIInv'
<1>1. PICK to, p, q :
        /\ to \in {W!Sockets} \cup SUBSET Scoped
        /\ p = [to |-> to, at |-> "feed", from |-> {}, sent |-> {}, dead |-> {}, disturbed |-> FALSE]
        /\ q \in IF to = W!Sockets THEN W!WalkFeed(p) ELSE W!WalkScoped(p)
        /\ broadcasts' = [broadcasts EXCEPT ![b] = q]
  BY DEF W!Broadcast
<1>2. p \in FeedsRows /\ p.from = {} /\ p.sent = {}
  BY <1>1 DEF FeedsRows, W!Sockets
<1>3. q \in FeedsRows /\ FeedsGood(q, viewers, sockets)
  BY <1>1, <1>2, FeedsWalkFeedGood, FeedsWalkScopedGood
<1> QED BY <1>1, <1>3, FeedsOneMoves DEF W!Broadcast

LEMMA FeedsStepInv == ASSUME FeedsIInv, NEW b \in Broadcasts, W!Step(b) PROVE FeedsIInv'
<1>1. PICK p, q : p = broadcasts[b] /\ q \in W!Sends(p) /\ broadcasts' = [broadcasts EXCEPT ![b] = q]
  BY DEF W!Step
<1>2. p \in FeedsRows /\ FeedsGood(p, viewers, sockets) /\ p.at \in {"feed", "scoped"}
  BY <1>1 DEF W!Step, W!Walking, FeedsIInv
<1>3. q \in FeedsRows /\ FeedsGood(q, viewers, sockets)
  BY <1>1, <1>2, FeedsSendsGood
<1> QED BY <1>1, <1>3, FeedsOneMoves DEF W!Step

\* A broadcast that was not told finds as many viewers as it began with, and the same.
LEMMA FeedsSameViewers ==
  ASSUME FeedsIInv, NEW p \in FeedsRows, FeedsGood(p, viewers, sockets), p.at \in {"feed", "scoped"}, W!Resized(p) \/ W!Swapped(p)
  PROVE  p.disturbed
  BY DEF FeedsGood, W!Resized, W!Swapped

LEMMA FeedsBreakInv == ASSUME FeedsIInv, NEW b \in Broadcasts, W!Break(b) PROVE FeedsIInv'
<1>1. PICK p, q : p = broadcasts[b] /\ q = W!Over(p, "broken") /\ broadcasts' = [broadcasts EXCEPT ![b] = q]
  BY DEF W!Break, FeedsIInv
<1>2. p \in FeedsRows /\ FeedsGood(p, viewers, sockets) /\ p.at \in {"feed", "scoped"} /\ (W!Resized(p) \/ W!Swapped(p))
  BY <1>1 DEF W!Break, W!Walking, FeedsIInv
<1>3. q \in FeedsRows /\ q.at = "broken" /\ q.disturbed
  BY <1>1, <1>2, FeedsSameViewers, FeedsOverIs
<1>4. FeedsGood(q, viewers, sockets)
  BY <1>3 DEF FeedsGood
<1> QED BY <1>1, <1>3, <1>4, FeedsOneMoves DEF W!Break

LEMMA FeedsFinishInv == ASSUME FeedsIInv, NEW b \in Broadcasts, W!Finish(b) PROVE FeedsIInv'
<1>1. PICK p : p = broadcasts[b]
  OBVIOUS
<1>2. PICK q : /\ q \in IF p.at = "feed" THEN W!WalkScoped(p) ELSE {W!Over(p, "dispatched")}
               /\ broadcasts' = [IF p.dead \cap viewers = {} THEN broadcasts ELSE W!Disturbed(p.at) EXCEPT ![b] = q]
  BY <1>1 DEF W!Finish
<1>3. /\ p \in FeedsRows /\ FeedsGood(p, viewers, sockets) /\ p.at \in {"feed", "scoped"} /\ p # None
      /\ W!Rest(p) = {} \/ W!Swapped(p)
      /\ viewers' = viewers \ p.dead /\ sockets' = sockets
  BY <1>1 DEF W!Finish, W!Walking, FeedsIInv
<1>4. ~p.disturbed => viewers \cap W!Of(p.at) \cap p.to \subseteq p.sent /\ p.from \cap W!Of(p.at) = viewers \cap W!Of(p.at)
  BY <1>3, FeedsSameViewers DEF W!Rest, FeedsGood
<1>5. p.from \subseteq W!Sockets /\ p.dead \subseteq W!Sockets /\ p.to \subseteq W!Sockets
  BY <1>3 DEF FeedsRows
<1>6. q \in FeedsRows /\ q.at \in {"scoped", "dispatched"} /\ FeedsGood(q, viewers, sockets)
  <2>1. CASE p.at = "feed"
    <3>1. ~p.disturbed => p.from \cap Feed \cap p.to \subseteq p.sent /\ p.from \cap Scoped \subseteq viewers
      BY <1>3, <1>4, <2>1, FeedsConstants DEF FeedsGood, W!Of
    <3> QED BY <1>2, <1>3, <2>1, <3>1, FeedsWalkScopedGood
  <2>2. CASE p.at = "scoped"
    <3>1. q = W!Over(p, "dispatched")
      BY <1>2, <2>2
    <3>2. q \in FeedsRows /\ q.at = "dispatched" /\ q.from = (p.from \cap p.to) \ p.sent /\ q.disturbed = p.disturbed
      BY <1>3, <3>1, FeedsOverIs
    <3>3. ~p.disturbed => (p.from \cap p.to) \ p.sent = {}
      BY <1>3, <1>4, <1>5, <2>2 DEF FeedsGood, W!Of, W!Sockets
    <3> QED BY <3>2, <3>3 DEF FeedsGood
  <2> QED BY <1>3, <2>1, <2>2
<1>7. \A s \in W!Sockets \ W!Of(p.at) : s \in viewers' <=> s \in viewers
  BY <1>3 DEF FeedsGood
<1>8. FeedsGood(q, viewers', sockets')
  <2>1. CASE q.at = "dispatched"
    BY <1>3, <1>6, <2>1 DEF FeedsGood
  <2>2. CASE q.at = "scoped"
    <3>1. p.at = "feed"
      <4>1. p.at = "scoped" => q = W!Over(p, "dispatched")
        BY <1>2
      <4> QED BY <1>3, <2>2, <4>1, FeedsOverIs
    <3>2. viewers' \cap Scoped = viewers \cap Scoped
      BY <1>3, <1>7, <3>1, FeedsConstants DEF W!Of, W!Sockets, FeedsIInv
    <3> QED BY <1>3, <1>6, <2>2, <3>2 DEF FeedsGood, W!Of
  <2> QED BY <1>6, <2>1, <2>2
<1>9. \A s \in p.dead : sockets[s] # "open"
  BY <1>3 DEF FeedsGood
<1>10. viewers' \subseteq W!Sockets
  BY <1>3 DEF FeedsIInv
<1>11. ASSUME NEW c \in Broadcasts, c # b
       PROVE  broadcasts'[c] = IF p.dead \cap viewers = {} THEN broadcasts[c] ELSE W!Disturbed(p.at)[c]
  BY <1>2, <1>11 DEF W!Disturbed, FeedsIInv
<1>12. DOMAIN broadcasts' = Broadcasts /\ broadcasts'[b] = q
  <2>1. DOMAIN (IF p.dead \cap viewers = {} THEN broadcasts ELSE W!Disturbed(p.at)) = Broadcasts
    BY DEF W!Disturbed, FeedsIInv
  <2> QED BY <1>2, <2>1
<1>13. ASSUME NEW c \in Broadcasts, c # b, broadcasts'[c] # None
       PROVE  broadcasts'[c] \in FeedsRows /\ FeedsGood(broadcasts'[c], viewers', sockets')
  <2>1. CASE p.dead \cap viewers = {}
    <3>1. viewers' = viewers /\ broadcasts'[c] = broadcasts[c]
      BY <1>3, <1>11, <1>13, <2>1
    <3> QED BY <1>3, <1>13, <3>1 DEF FeedsIInv
  <2>2. CASE p.dead \cap viewers # {}
    <3>1. broadcasts'[c] = W!Disturbed(p.at)[c]
      BY <1>11, <1>13, <2>2
    <3>2. broadcasts[c] # None
      BY <1>13, <3>1 DEF W!Disturbed, W!Walking
    <3>3. broadcasts[c] \in FeedsRows /\ FeedsGood(broadcasts[c], viewers, sockets)
      BY <3>2 DEF FeedsIInv
    <3> QED BY <1>3, <1>7, <1>10, <1>13, <3>1, <3>3, FeedsDisturbedGood
  <2> QED BY <2>1, <2>2
<1>14. \A c \in Broadcasts : /\ broadcasts'[c] \in {None} \cup FeedsRows
                             /\ broadcasts'[c] # None => FeedsGood(broadcasts'[c], viewers', sockets')
  BY <1>6, <1>8, <1>12, <1>13
<1> QED BY <1>3, <1>9, <1>10, <1>12, <1>14 DEF FeedsIInv

LEMMA FeedsNextInv == FeedsIInv /\ [W!Next]_(W!vars) => FeedsIInv'
<1> SUFFICES ASSUME FeedsIInv, [W!Next]_(W!vars) PROVE FeedsIInv'
  OBVIOUS
<1>1. CASE UNCHANGED W!vars
  BY <1>1 DEF W!vars, FeedsIInv
<1> QED BY <1>1, FeedsConnectInv, FeedsAcceptInv, FeedsLeaveInv, FeedsDisconnectInv, FeedsBroadcastInv, FeedsStepInv, FeedsFinishInv, FeedsBreakInv DEF W!Next

LEMMA FeedsInvHolds == FeedsIInv => W!TypeOK /\ W!BroadcastsReach
<1> SUFFICES ASSUME FeedsIInv PROVE W!TypeOK /\ W!BroadcastsReach
  OBVIOUS
<1>1. W!TypeOK
  BY DEF FeedsIInv, W!TypeOK, FeedsRows
<1>2. ASSUME NEW b \in Broadcasts, broadcasts[b] # None, ~broadcasts[b].disturbed
      PROVE  broadcasts[b].at # "broken" /\ (broadcasts[b].at = "dispatched" => broadcasts[b].from = {})
  BY <1>2 DEF FeedsIInv, FeedsGood
<1> QED BY <1>1, <1>2 DEF FeedsIInv, W!BroadcastsReach

LEMMA FeedsSpecInv == W!Init /\ [][W!Next]_(W!vars) => [](W!TypeOK /\ W!BroadcastsReach)
<1> QED BY FeedsInitInv, FeedsNextInv, FeedsInvHolds, PTL
-----------------------------------------------------------------------------
(* Revocation: the row, the sentinel and the caches of a token agree. *)

LEMMA TokensConstants == Second \in Nat \ {0} /\ MaxClock \in Nat /\ MaxRequests \in Nat /\ None \notin Tokens
  BY ServicesAssumption
-----------------------------------------------------------------------------
TokensRows == [pc : {"idle", "redis", "table", "allredis", "alltable", "accepted", "refused", "row", "setall"},
         token : Tokens \cup {None}, at : -1 .. MaxClock, known : BOOLEAN]

TokensRevokedBefore(t) == \E s \in sentinels : issued[t] < s
TokensInItsSecond(t) == \E s \in sentinels : R!Seconds(issued[t]) <= R!Seconds(s)

\* What a request has found out of its token so far.
TokensRequestOK(r) ==
  /\ r.pc \in {"redis", "table", "allredis", "alltable", "accepted", "refused", "row"} => r.token \in Tokens
  /\ r.pc \in {"redis", "table", "allredis", "alltable", "accepted", "refused"} => issued[r.token] # -1
  /\ r.pc \in {"redis", "table"} /\ r.known => r.token \in rows \/ TokensRevokedBefore(r.token)
  /\ r.pc \in {"allredis", "alltable"} /\ r.known => TokensRevokedBefore(r.token)
  /\ r.pc = "accepted" => ~r.known
  /\ r.pc = "refused" => r.token \in asked \/ TokensInItsSecond(r.token)
  /\ r.pc = "row" => r.token \in asked
  /\ r.pc = "setall" => r.at \in sentinels

\* Whatever a process or Redis remembers was asked for, and is in the table or will be.
TokensMemories ==
  /\ redis.keys \subseteq asked
  /\ \A p \in Processes : blacklist[p] \subseteq asked
  /\ redis.all # -1 => \E s \in sentinels : R!Seconds(s) = redis.all

TokensIInv == R!TypeOK /\ TokensMemories /\ \A p \in Processes : TokensRequestOK(request[p])
-----------------------------------------------------------------------------
LEMMA TokensDivision ==
  ASSUME NEW n \in Nat, NEW d \in Nat \ {0}
  PROVE  n \div d \in Nat /\ d * (n \div d) <= n /\ n < d * (n \div d) + d /\ n \div d <= n
<1>1. n \div d \in Int /\ d * (n \div d) <= n /\ n < d * (n \div d) + d
  OBVIOUS
<1>2. n \div d >= 0
  <2>1. ASSUME n \div d <= -1 PROVE FALSE
    <3>1. d * (n \div d) <= d * (-1)
      BY <1>1, <2>1
    <3> QED BY <1>1, <3>1
  <2> QED BY <1>1, <2>1
<1>3. n \div d <= n
  <2>1. 1 * (n \div d) <= d * (n \div d)
    BY <1>1, <1>2
  <2> QED BY <1>1, <2>1
<1> QED BY <1>1, <1>2, <1>3

LEMMA TokensSecondsOf ==
  ASSUME NEW n \in Nat
  PROVE  R!Seconds(n) \in Nat /\ Second * R!Seconds(n) <= n /\ n < Second * R!Seconds(n) + Second /\ R!Seconds(n) <= n
  BY TokensDivision, TokensConstants DEF R!Seconds

\* A second that begins before s is not after the second of s.
LEMMA TokensSecondsGrow ==
  ASSUME NEW n \in Nat, NEW s \in Nat, Second * R!Seconds(n) <= s PROVE R!Seconds(n) <= R!Seconds(s)
<1>1. PICK a, b, d : a = R!Seconds(n) /\ b = R!Seconds(s) /\ d = Second
  OBVIOUS
<1>2. a \in Nat /\ b \in Nat /\ d \in Nat \ {0} /\ d * a <= s /\ s < d * b + d
  BY <1>1, TokensSecondsOf, TokensConstants
<1>3. ASSUME b + 1 <= a PROVE FALSE
  <2>1. d * (b + 1) <= d * a
    BY <1>2, <1>3
  <2>2. d * (b + 1) = d * b + d
    BY <1>2
  <2>3. d * a \in Nat /\ d * b \in Nat
    BY <1>2
  <2> QED BY <1>2, <2>1, <2>2, <2>3
<1> QED BY <1>1, <1>2, <1>3
-----------------------------------------------------------------------------
LEMMA TokensInitInv == R!Init => TokensIInv
<1> SUFFICES ASSUME R!Init PROVE TokensIInv
  OBVIOUS
<1>1. R!TypeOK
  BY TokensConstants DEF R!Init, R!TypeOK, R!NoRequest
<1>2. TokensMemories /\ \A p \in Processes : TokensRequestOK(request[p])
  BY DEF R!Init, TokensMemories, TokensRequestOK, R!NoRequest
<1> QED BY <1>1, <1>2 DEF TokensIInv

\* What the tables say and what was asked for only grows, and an issue time stays.
TokensGrows ==
  /\ rows \subseteq rows' /\ sentinels \subseteq sentinels' /\ asked \subseteq asked'
  /\ \A t \in Tokens : issued[t] # -1 => issued'[t] = issued[t]

LEMMA TokensStillOK == ASSUME TokensGrows, NEW r, TokensRequestOK(r) PROVE TokensRequestOK(r)'
<1>1. ASSUME NEW t \in Tokens, issued[t] # -1 PROVE (TokensRevokedBefore(t) => TokensRevokedBefore(t)') /\ (TokensInItsSecond(t) => TokensInItsSecond(t)')
  BY <1>1 DEF TokensGrows, TokensRevokedBefore, TokensInItsSecond
<1> QED BY <1>1 DEF TokensGrows, TokensRequestOK

LEMMA TokensNothingAsked == TokensRequestOK(R!NoRequest) /\ R!NoRequest \in TokensRows
  BY TokensConstants DEF TokensRequestOK, R!NoRequest, TokensRows

\* One process goes on, at most.
LEMMA TokensGoes ==
  ASSUME TokensIInv, TokensGrows, NEW p \in Processes, NEW r \in TokensRows, TokensRequestOK(r)', request' = [request EXCEPT ![p] = r]
  PROVE  request' \in [Processes -> TokensRows] /\ \A q \in Processes : TokensRequestOK(request[q])'
<1>1. request \in [Processes -> TokensRows]
  BY DEF TokensIInv, R!TypeOK, TokensRows
<1>2. \A q \in Processes : TokensRequestOK(request[q])'
  BY TokensStillOK DEF TokensIInv
<1> QED BY <1>1, <1>2

LEMMA TokensOthersStay ==
  ASSUME TokensIInv, TokensGrows, request' = request
  PROVE  request' \in [Processes -> TokensRows] /\ \A q \in Processes : TokensRequestOK(request[q])'
<1>1. request \in [Processes -> TokensRows]
  BY DEF TokensIInv, R!TypeOK, TokensRows
<1>2. \A q \in Processes : TokensRequestOK(request[q])'
  BY TokensStillOK DEF TokensIInv
<1> QED BY <1>1, <1>2

LEMMA TokensTickInv == ASSUME TokensIInv, R!Tick PROVE TokensIInv'
<1>1. TokensGrows /\ request' = request
  BY DEF R!Tick, TokensGrows
<1>2. request' \in [Processes -> TokensRows] /\ \A q \in Processes : TokensRequestOK(request[q])'
  BY <1>1, TokensOthersStay
<1>3. R!TypeOK'
  BY <1>2, TokensConstants DEF R!Tick, TokensIInv, R!TypeOK, TokensRows
<1>4. TokensMemories'
  BY DEF R!Tick, TokensIInv, TokensMemories
<1> QED BY <1>2, <1>3, <1>4 DEF TokensIInv

LEMMA TokensIssueInv == ASSUME TokensIInv, NEW t \in Tokens, R!Issue(t) PROVE TokensIInv'
<1>1. TokensGrows /\ request' = request
  BY DEF R!Issue, TokensGrows, TokensIInv, R!TypeOK
<1>2. request' \in [Processes -> TokensRows] /\ \A q \in Processes : TokensRequestOK(request[q])'
  BY <1>1, TokensOthersStay
<1>3. R!TypeOK'
  BY <1>2, TokensConstants DEF R!Issue, TokensIInv, R!TypeOK, TokensRows
<1>4. TokensMemories'
  BY DEF R!Issue, TokensIInv, TokensMemories
<1> QED BY <1>2, <1>3, <1>4 DEF TokensIInv

LEMMA TokensBeginInv == ASSUME TokensIInv, NEW p \in Processes, NEW t \in Tokens, R!Begin(p, t) PROVE TokensIInv'
<1>0. PICK r : r = [pc |-> "redis", token |-> t, at |-> -1,
                    known |-> t \in rows \/ \E s \in sentinels : issued[t] < s]
  OBVIOUS
<1>1. TokensGrows /\ request' = [request EXCEPT ![p] = r] /\ UNCHANGED <<clock, issued, rows, sentinels, redis, blacklist, asked>>
  BY <1>0 DEF R!Begin, TokensGrows
<1>2. r \in TokensRows
  <2>1. r.known \in BOOLEAN
    BY <1>0
  <2>2. r = [pc |-> "redis", token |-> t, at |-> -1, known |-> r.known]
    BY <1>0
  <2> QED BY <2>1, <2>2, TokensConstants DEF TokensRows
<1>3. TokensRequestOK(r)
  <2>1. r.pc = "redis" /\ r.token = t /\ (r.known => t \in rows \/ TokensRevokedBefore(t))
    BY <1>0 DEF TokensRevokedBefore
  <2> QED BY <2>1 DEF R!Begin, TokensRequestOK
<1>4. request' \in [Processes -> TokensRows] /\ \A q \in Processes : TokensRequestOK(request[q])'
  BY <1>1, <1>2, <1>3, TokensStillOK, TokensGoes
<1>5. R!TypeOK'
  BY <1>1, <1>4, TokensConstants DEF R!Begin, TokensIInv, R!TypeOK, TokensRows
<1>6. TokensMemories'
  BY <1>1 DEF TokensIInv, TokensMemories
<1> QED BY <1>4, <1>5, <1>6 DEF TokensIInv

LEMMA TokensRow ==
  ASSUME NEW r \in TokensRows, NEW pc \in {"table", "allredis", "alltable", "accepted", "refused"}
  PROVE  /\ [r EXCEPT !.pc = pc] \in TokensRows /\ [r EXCEPT !.pc = pc].pc = pc /\ [r EXCEPT !.pc = pc].token = r.token
         /\ [r EXCEPT !.pc = pc].known = r.known
  BY DEF TokensRows

\* A check: the tables stay, and the request goes on or is refused for a good reason.
LEMMA TokensChecked ==
  ASSUME TokensIInv, NEW p \in Processes, UNCHANGED <<clock, issued, rows, sentinels, redis, blacklist, asked, begun>>,
         NEW pc \in {"table", "allredis", "alltable", "accepted", "refused"}, R!Go(p, pc),
         request[p].pc \in {"redis", "table", "allredis", "alltable"},
         pc = "refused" => request[p].token \in asked \/ TokensInItsSecond(request[p].token),
         pc = "table" => request[p].pc = "redis",
         pc \in {"allredis", "alltable"} /\ request[p].known => TokensRevokedBefore(request[p].token),
         pc = "accepted" => ~request[p].known
  PROVE  TokensIInv'
<1>1. PICK r, r1 : r = request[p] /\ r1 = [r EXCEPT !.pc = pc]
  OBVIOUS
<1>2. r \in TokensRows /\ TokensRequestOK(r)
  BY <1>1 DEF TokensIInv, R!TypeOK, TokensRows
<1>3. r1 \in TokensRows /\ r1.pc = pc /\ r1.token = r.token /\ r1.known = r.known
  BY <1>1, <1>2, TokensRow
<1>4. TokensRequestOK(r1)
  BY <1>1, <1>2, <1>3 DEF TokensRequestOK
<1>5. TokensGrows
  BY DEF TokensGrows
<1>6. request' = [request EXCEPT ![p] = r1]
  BY <1>1 DEF R!Go
<1>7. request' \in [Processes -> TokensRows] /\ \A q \in Processes : TokensRequestOK(request[q])'
  BY <1>3, <1>4, <1>5, <1>6, TokensStillOK, TokensGoes
<1>8. R!TypeOK' /\ TokensMemories'
  BY <1>7 DEF TokensIInv, R!TypeOK, TokensRows, TokensMemories
<1> QED BY <1>7, <1>8 DEF TokensIInv

LEMMA TokensCheckRedisInv == ASSUME TokensIInv, NEW p \in Processes, NEW up \in BOOLEAN, R!CheckRedis(p, up) PROVE TokensIInv'
<1>1. PICK pc : pc = IF up /\ request[p].token \in redis.keys THEN "refused" ELSE "table"
  OBVIOUS
<1>2. request[p].pc = "redis" /\ R!Go(p, pc) /\ UNCHANGED <<clock, issued, rows, sentinels, redis, blacklist, asked, begun>>
  BY <1>1 DEF R!CheckRedis, R!Refused, R!At
<1>3. pc = "refused" => request[p].token \in asked
  BY <1>1 DEF TokensIInv, TokensMemories
<1> QED BY <1>1, <1>2, <1>3, TokensChecked

LEMMA TokensCheckTableInv == ASSUME TokensIInv, NEW p \in Processes, R!CheckTable(p) PROVE TokensIInv'
<1>1. PICK pc : pc = IF request[p].token \in blacklist[p] \cup rows THEN "refused" ELSE "allredis"
  OBVIOUS
<1>2. request[p].pc = "table" /\ R!Go(p, pc) /\ UNCHANGED <<clock, issued, rows, sentinels, redis, blacklist, asked, begun>>
  BY <1>1 DEF R!CheckTable, R!Refused, R!At
<1>3. pc = "refused" => request[p].token \in asked
  BY <1>1 DEF TokensIInv, TokensMemories, R!TypeOK
<1>4. pc = "allredis" /\ request[p].known => TokensRevokedBefore(request[p].token)
  BY <1>1, <1>2 DEF TokensIInv, TokensRequestOK
<1> QED BY <1>1, <1>2, <1>3, <1>4, TokensChecked

\* A token that is checked was issued.
LEMMA TokensIssued ==
  ASSUME TokensIInv, NEW p \in Processes, request[p].pc \in {"allredis", "alltable"}
  PROVE  request[p].token \in Tokens /\ issued[request[p].token] \in Nat
<1>1. request[p].token \in Tokens /\ issued[request[p].token] # -1
  BY DEF TokensIInv, TokensRequestOK
<1> QED BY <1>1, TokensConstants DEF TokensIInv, R!TypeOK

LEMMA TokensCheckAllRedisInv == ASSUME TokensIInv, NEW p \in Processes, NEW up \in BOOLEAN, R!CheckAllRedis(p, up) PROVE TokensIInv'
<1>0. PICK t : t = request[p].token
  OBVIOUS
<1>1. PICK pc : pc = IF up /\ R!RedisRevokesAll(t) THEN "refused" ELSE "alltable"
  OBVIOUS
<1>2. request[p].pc = "allredis" /\ R!Go(p, pc) /\ UNCHANGED <<clock, issued, rows, sentinels, redis, blacklist, asked, begun>>
  BY <1>0, <1>1 DEF R!CheckAllRedis, R!Refused, R!At
<1>3. issued[t] \in Nat /\ R!Seconds(issued[t]) \in Nat
  BY <1>0, <1>2, TokensIssued, TokensSecondsOf
<1>4. ASSUME pc = "refused" PROVE TokensInItsSecond(t)
  <2>1. redis.all > R!Seconds(issued[t])
    BY <1>1, <1>4 DEF R!RedisRevokesAll
  <2>2. PICK s \in sentinels : R!Seconds(s) = redis.all
    BY <1>3, <2>1 DEF TokensIInv, TokensMemories
  <2>3. R!Seconds(s) \in Nat
    <3>1. s \in Nat
      BY DEF TokensIInv, R!TypeOK
    <3> QED BY <3>1, TokensSecondsOf
  <2> QED BY <1>3, <2>1, <2>2, <2>3 DEF TokensInItsSecond
<1>5. request[p].known => TokensRevokedBefore(t)
  BY <1>0, <1>2 DEF TokensIInv, TokensRequestOK
<1> QED BY <1>0, <1>1, <1>2, <1>4, <1>5, TokensChecked

LEMMA TokensCheckAllTableInv == ASSUME TokensIInv, NEW p \in Processes, R!CheckAllTable(p) PROVE TokensIInv'
<1>0. PICK t : t = request[p].token
  OBVIOUS
<1>1. PICK pc : pc = IF R!TableRevokesAll(t) THEN "refused" ELSE "accepted"
  OBVIOUS
<1>2. request[p].pc = "alltable" /\ R!Go(p, pc) /\ UNCHANGED <<clock, issued, rows, sentinels, redis, blacklist, asked, begun>>
  BY <1>0, <1>1 DEF R!CheckAllTable, R!Refused, R!At
<1>3. issued[t] \in Nat /\ R!Seconds(issued[t]) \in Nat /\ Second * R!Seconds(issued[t]) <= issued[t]
      /\ Second * R!Seconds(issued[t]) \in Nat
  <2>1. issued[t] \in Nat
    BY <1>0, <1>2, TokensIssued
  <2>2. R!Seconds(issued[t]) \in Nat /\ Second * R!Seconds(issued[t]) <= issued[t]
    BY <2>1, TokensSecondsOf
  <2>3. Second * R!Seconds(issued[t]) \in Nat
    BY <2>2, TokensConstants
  <2> QED BY <2>1, <2>2, <2>3
<1>4. \A s \in sentinels : s \in Nat
  BY DEF TokensIInv, R!TypeOK
<1>5. ASSUME pc = "refused" PROVE TokensInItsSecond(t)
  <2>1. PICK s \in sentinels : s > Second * R!Seconds(issued[t])
    BY <1>1, <1>5 DEF R!TableRevokesAll
  <2>2. R!Seconds(issued[t]) <= R!Seconds(s)
    BY <1>3, <1>4, <2>1, TokensSecondsGrow
  <2> QED BY <2>2 DEF TokensInItsSecond
<1>6. ASSUME pc = "accepted" PROVE ~request[p].known
  <2>1. ~R!TableRevokesAll(t)
    BY <1>1, <1>6
  <2>2. ~TokensRevokedBefore(t)
    BY <1>3, <1>4, <2>1 DEF TokensRevokedBefore, R!TableRevokesAll
  <2> QED BY <1>0, <1>2, <2>2 DEF TokensIInv, TokensRequestOK
<1> QED BY <1>0, <1>1, <1>2, <1>5, <1>6, TokensChecked
-----------------------------------------------------------------------------
LEMMA TokensRevokeInv == ASSUME TokensIInv, NEW p \in Processes, NEW up \in BOOLEAN, R!Revoke(p, up) PROVE TokensIInv'
<1>0. PICK t, r : t = request[p].token /\ r = [pc |-> "row", token |-> t, at |-> -1, known |-> FALSE]
  OBVIOUS
<1>1. /\ request' = [request EXCEPT ![p] = r] /\ asked' = asked \cup {t} /\ request[p].pc = "accepted"
      /\ redis' = (IF up THEN [redis EXCEPT !.keys = @ \cup {t}] ELSE redis)
      /\ blacklist' = [blacklist EXCEPT ![p] = @ \cup {t}]
      /\ UNCHANGED <<clock, issued, rows, sentinels, begun>>
  BY <1>0 DEF R!Revoke, R!At
<1>2. t \in Tokens
  BY <1>0, <1>1 DEF TokensIInv, TokensRequestOK
<1>3. r \in TokensRows /\ TokensRequestOK(r)' /\ TokensGrows
  BY <1>0, <1>1, <1>2, TokensConstants DEF TokensRows, TokensRequestOK, TokensGrows
<1>4. request' \in [Processes -> TokensRows] /\ \A q \in Processes : TokensRequestOK(request[q])'
  BY <1>1, <1>3, TokensGoes
<1>5. redis' \in [keys : SUBSET Tokens, all : -1 .. MaxClock] /\ redis'.keys \subseteq asked' /\ redis'.all = redis.all
  BY <1>1, <1>2 DEF TokensIInv, R!TypeOK, TokensMemories
<1>6. R!TypeOK'
  BY <1>1, <1>2, <1>4, <1>5 DEF TokensIInv, R!TypeOK, TokensRows
<1>7. TokensMemories'
  BY <1>1, <1>5 DEF TokensIInv, R!TypeOK, TokensMemories
<1> QED BY <1>4, <1>6, <1>7 DEF TokensIInv

\* A process is at rest after the step.
LEMMA TokensRests ==
  ASSUME TokensIInv, TokensGrows, NEW p \in Processes, request' = [request EXCEPT ![p] = R!NoRequest]
  PROVE  request' \in [Processes -> TokensRows] /\ \A q \in Processes : TokensRequestOK(request[q])'
  BY TokensNothingAsked, TokensStillOK, TokensGoes

LEMMA TokensInsertRowInv == ASSUME TokensIInv, NEW p \in Processes, R!InsertRow(p) PROVE TokensIInv'
<1>1. request[p].token \in asked
  BY DEF R!InsertRow, R!At, TokensIInv, TokensRequestOK
<1>2. TokensGrows
  BY DEF R!InsertRow, TokensGrows
<1>3. request' \in [Processes -> TokensRows] /\ \A q \in Processes : TokensRequestOK(request[q])'
  BY <1>2, TokensRests DEF R!InsertRow
<1>4. R!TypeOK'
  BY <1>1, <1>3 DEF R!InsertRow, TokensIInv, R!TypeOK, TokensRows
<1>5. TokensMemories'
  BY DEF R!InsertRow, TokensIInv, TokensMemories
<1> QED BY <1>3, <1>4, <1>5 DEF TokensIInv

LEMMA TokensRevokeAllInv == ASSUME TokensIInv, NEW p \in Processes, NEW inserted \in BOOLEAN, R!RevokeAll(p, inserted) PROVE TokensIInv'
<1>1. UNCHANGED <<clock, issued, rows, redis, blacklist, asked, begun>> /\ clock \in 0 .. MaxClock
  BY DEF R!RevokeAll, TokensIInv, R!TypeOK
<1>2. CASE inserted
  <2>0. PICK r : r = [pc |-> "setall", token |-> None, at |-> clock, known |-> FALSE]
    OBVIOUS
  <2>1. sentinels' = sentinels \cup {clock} /\ request' = [request EXCEPT ![p] = r]
    BY <1>2, <2>0 DEF R!RevokeAll
  <2>2. r \in TokensRows /\ TokensRequestOK(r)' /\ TokensGrows
    BY <1>1, <2>0, <2>1, TokensConstants DEF TokensRows, TokensRequestOK, TokensGrows
  <2>3. request' \in [Processes -> TokensRows] /\ \A q \in Processes : TokensRequestOK(request[q])'
    BY <2>1, <2>2, TokensGoes
  <2>4. R!TypeOK'
    BY <1>1, <2>1, <2>3 DEF TokensIInv, R!TypeOK, TokensRows
  <2>5. TokensMemories'
    BY <1>1, <2>1 DEF TokensIInv, TokensMemories, R!Seconds
  <2> QED BY <2>3, <2>4, <2>5 DEF TokensIInv
<1>3. CASE ~inserted
  <2>1. sentinels' = sentinels /\ request' = [request EXCEPT ![p] = R!NoRequest]
    BY <1>3 DEF R!RevokeAll
  <2>2. TokensGrows
    BY <1>1, <2>1 DEF TokensGrows
  <2>3. request' \in [Processes -> TokensRows] /\ \A q \in Processes : TokensRequestOK(request[q])'
    BY <2>1, <2>2, TokensRests
  <2>4. R!TypeOK' /\ TokensMemories'
    BY <1>1, <2>1, <2>3 DEF TokensIInv, R!TypeOK, TokensRows, TokensMemories
  <2> QED BY <2>3, <2>4 DEF TokensIInv
<1> QED BY <1>2, <1>3

LEMMA TokensSetAllInv == ASSUME TokensIInv, NEW p \in Processes, NEW up \in BOOLEAN, R!SetAll(p, up) PROVE TokensIInv'
<1>0. PICK s : s = request[p].at
  OBVIOUS
<1>1. /\ request' = [request EXCEPT ![p] = R!NoRequest] /\ request[p].pc = "setall"
      /\ redis' = (IF up THEN [redis EXCEPT !.all = R!Seconds(s)] ELSE redis)
      /\ UNCHANGED <<clock, issued, rows, sentinels, blacklist, asked, begun>>
  BY <1>0 DEF R!SetAll, R!At
<1>2. s \in sentinels /\ s \in 0 .. MaxClock
  BY <1>0, <1>1 DEF TokensIInv, TokensRequestOK, R!TypeOK
<1>3. R!Seconds(s) \in -1 .. MaxClock
  <2>1. s \in Nat
    BY <1>2
  <2>2. R!Seconds(s) \in Nat /\ R!Seconds(s) <= s
    BY <2>1, TokensSecondsOf
  <2> QED BY <1>2, <2>2, TokensConstants
<1>4. TokensGrows
  BY <1>1 DEF TokensGrows
<1>5. request' \in [Processes -> TokensRows] /\ \A q \in Processes : TokensRequestOK(request[q])'
  BY <1>1, <1>4, TokensRests
<1>6. /\ redis' \in [keys : SUBSET Tokens, all : -1 .. MaxClock] /\ redis'.keys = redis.keys
      /\ redis'.all = redis.all \/ redis'.all = R!Seconds(s)
  BY <1>1, <1>3 DEF TokensIInv, R!TypeOK
<1>7. R!TypeOK'
  BY <1>1, <1>5, <1>6 DEF TokensIInv, R!TypeOK, TokensRows
<1>8. TokensMemories'
  BY <1>1, <1>2, <1>6 DEF TokensIInv, TokensMemories, R!Seconds
<1> QED BY <1>5, <1>7, <1>8 DEF TokensIInv

LEMMA TokensEndInv == ASSUME TokensIInv, NEW p \in Processes, R!End(p) PROVE TokensIInv'
<1>1. TokensGrows
  BY DEF R!End, TokensGrows
<1>2. request' \in [Processes -> TokensRows] /\ \A q \in Processes : TokensRequestOK(request[q])'
  BY <1>1, TokensRests DEF R!End
<1>3. R!TypeOK' /\ TokensMemories'
  BY <1>2 DEF R!End, TokensIInv, R!TypeOK, TokensRows, TokensMemories
<1> QED BY <1>2, <1>3 DEF TokensIInv

LEMMA TokensRestartInv == ASSUME TokensIInv, NEW p \in Processes, R!Restart(p) PROVE TokensIInv'
<1>1. TokensGrows
  BY DEF R!Restart, TokensGrows
<1>2. request' \in [Processes -> TokensRows] /\ \A q \in Processes : TokensRequestOK(request[q])'
  BY <1>1, TokensRests DEF R!Restart
<1>3. R!TypeOK' /\ TokensMemories'
  BY <1>2 DEF R!Restart, TokensIInv, R!TypeOK, TokensRows, TokensMemories
<1> QED BY <1>2, <1>3 DEF TokensIInv

LEMMA TokensForgetInv == ASSUME TokensIInv, R!Forget PROVE TokensIInv'
<1>1. TokensGrows /\ request' = request
  BY DEF R!Forget, TokensGrows
<1>2. request' \in [Processes -> TokensRows] /\ \A q \in Processes : TokensRequestOK(request[q])'
  BY <1>1, TokensOthersStay
<1>3. R!TypeOK' /\ TokensMemories'
  BY <1>2, TokensConstants DEF R!Forget, TokensIInv, R!TypeOK, TokensRows, TokensMemories
<1> QED BY <1>2, <1>3 DEF TokensIInv

LEMMA TokensNextInv == TokensIInv /\ [R!Next]_(R!vars) => TokensIInv'
<1> SUFFICES ASSUME TokensIInv, [R!Next]_(R!vars) PROVE TokensIInv'
  OBVIOUS
<1>1. CASE UNCHANGED R!vars
  BY <1>1 DEF R!vars, TokensIInv, R!TypeOK, TokensMemories, TokensRequestOK, TokensRevokedBefore, TokensInItsSecond, R!Seconds
<1> QED BY <1>1, TokensTickInv, TokensForgetInv, TokensIssueInv, TokensBeginInv, TokensCheckRedisInv, TokensCheckAllRedisInv, TokensRevokeInv, TokensRevokeAllInv,
           TokensSetAllInv, TokensCheckTableInv, TokensCheckAllTableInv, TokensInsertRowInv, TokensEndInv, TokensRestartInv DEF R!Next

LEMMA TokensInvHolds == TokensIInv => R!TypeOK /\ R!VerdictsAreRight
  BY DEF TokensIInv, R!VerdictsAreRight, TokensRequestOK, R!At, TokensInItsSecond

LEMMA TokensSpecInv == R!Init /\ [][R!Next]_(R!vars) => [](R!TypeOK /\ R!VerdictsAreRight)
<1> QED BY TokensInitInv, TokensNextInv, TokensInvHolds, PTL
-----------------------------------------------------------------------------
(* OAuth2: a grant has one live refresh token at most, or an exchange that makes it. *)

LEMMA GrantsConstants == None \notin Codes /\ None \notin Pairs
  BY ServicesAssumption
LEMMA GrantsCounts == \A s : O!Cardinality(s) = Cardinality(s)
  BY DEF O!Cardinality, Cardinality
-----------------------------------------------------------------------------
\* What an exchange holds: a code that was given out, a pair that was issued, or nothing.
GrantsHeld(x) ==
  /\ exchanges[x].code = None \/ exchanges[x].pair = None
  /\ exchanges[x].code # None => codes[exchanges[x].code] # "none"
  /\ exchanges[x].pair # None => access[exchanges[x].pair] # "none"

GrantsHolds(x, c) == exchanges[x].code = c \/ \E p \in Pairs : exchanges[x].pair = p /\ family[p] = c

\* A pair of which a token is live, or that an exchange has read.
GrantsAlive(p) == access[p] = "live" \/ refresh[p] = "live" \/ \E x \in Exchanges : exchanges[x].pair = p

\* A grant of which no token was read twice has one thing at a time that it can go on with.
GrantsOneWay(c) ==
  /\ \A x, y \in Exchanges : GrantsHolds(x, c) /\ GrantsHolds(y, c) => x = y
  /\ codes[c] # "used" \/ (\E x \in Exchanges : exchanges[x].code = c)
       => \A p \in Pairs : family[p] # c
  /\ \A p, q \in Pairs : family[p] = c /\ family[q] = c /\ GrantsAlive(p) /\ GrantsAlive(q) => p = q

GrantsIInv ==
  /\ O!TypeOK
  /\ \A p \in Pairs : access[p] = "none" <=> refresh[p] = "none"
  /\ \A p \in Pairs : access[p] = "none" <=> family[p] = None
  /\ \A x \in Exchanges : GrantsHeld(x)
  /\ \A c \in Codes \ raced : GrantsOneWay(c)
-----------------------------------------------------------------------------
LEMMA GrantsInitInv == O!Init => GrantsIInv
<1> SUFFICES ASSUME O!Init PROVE GrantsIInv
  OBVIOUS
<1>1. O!TypeOK
  BY DEF O!Init, O!TypeOK, O!TokenStates
<1>2. \A x \in Exchanges : GrantsHeld(x) /\ \A c \in Codes : ~GrantsHolds(x, c)
  BY GrantsConstants DEF O!Init, GrantsHeld, GrantsHolds
<1>3. \A c \in Codes : GrantsOneWay(c)
  BY <1>2, GrantsConstants DEF O!Init, GrantsOneWay
<1> QED BY <1>1, <1>2, <1>3 DEF O!Init, GrantsIInv

LEMMA GrantsAuthorizeInv == ASSUME GrantsIInv, NEW d \in Codes, O!Authorize(d) PROVE GrantsIInv'
<1>1. codes' = [codes EXCEPT ![d] = "unused"] /\ codes[d] = "none" /\ UNCHANGED <<access, refresh, family, exchanges, raced>>
  BY DEF O!Authorize
<1>2. O!TypeOK'
  BY <1>1 DEF GrantsIInv, O!TypeOK
<1>3. \A x \in Exchanges : GrantsHeld(x)'
  BY <1>1 DEF GrantsIInv, GrantsHeld, O!TypeOK
<1>4. \A c \in Codes \ raced : GrantsOneWay(c)'
  <2> TAKE c \in Codes \ raced
  <2>1. GrantsOneWay(c)
    BY DEF GrantsIInv
  <2>2. codes'[c] # "used" => codes[c] # "used"
    BY <1>1 DEF GrantsIInv, O!TypeOK
  <2>3. \A x : GrantsHolds(x, c)' <=> GrantsHolds(x, c)
    BY <1>1 DEF GrantsHolds
  <2>4. \A p : GrantsAlive(p)' <=> GrantsAlive(p)
    BY <1>1 DEF GrantsAlive
  <2> QED BY <1>1, <2>1, <2>2, <2>3, <2>4 DEF GrantsOneWay
<1> QED BY <1>1, <1>2, <1>3, <1>4 DEF GrantsIInv

LEMMA GrantsCodeExpiresInv == ASSUME GrantsIInv, NEW d \in Codes, O!CodeExpires(d) PROVE GrantsIInv'
<1>1. codes' = [codes EXCEPT ![d] = "used"] /\ codes[d] = "unused" /\ UNCHANGED <<access, refresh, family, exchanges, raced>>
  BY DEF O!CodeExpires
<1>2. O!TypeOK'
  BY <1>1 DEF GrantsIInv, O!TypeOK
<1>3. \A x \in Exchanges : GrantsHeld(x)'
  BY <1>1 DEF GrantsIInv, GrantsHeld, O!TypeOK
<1>4. \A c \in Codes \ raced : GrantsOneWay(c)'
  <2> TAKE c \in Codes \ raced
  <2>1. GrantsOneWay(c)
    BY DEF GrantsIInv
  <2>2. codes'[c] # "used" => codes[c] # "used"
    BY <1>1 DEF GrantsIInv, O!TypeOK
  <2>3. \A x : GrantsHolds(x, c)' <=> GrantsHolds(x, c)
    BY <1>1 DEF GrantsHolds
  <2>4. \A p : GrantsAlive(p)' <=> GrantsAlive(p)
    BY <1>1 DEF GrantsAlive
  <2> QED BY <1>1, <2>1, <2>2, <2>3, <2>4 DEF GrantsOneWay
<1> QED BY <1>1, <1>2, <1>3, <1>4 DEF GrantsIInv

LEMMA GrantsReadCodeInv == ASSUME GrantsIInv, NEW x \in Exchanges, NEW d \in Codes, O!ReadCode(x, d) PROVE GrantsIInv'
<1> DEFINE token == [code |-> d, pair |-> None]
<1>1. /\ exchanges' = [exchanges EXCEPT ![x] = token] /\ O!Free(x) /\ codes[d] = "unused"
      /\ UNCHANGED <<codes, access, refresh, family>>
      /\ raced' = IF \E y \in Exchanges : exchanges[y] = token THEN raced \cup {d} ELSE raced
  BY DEF O!ReadCode, O!Also
<1>2. exchanges'[x] = token /\ \A y \in Exchanges \ {x} : exchanges'[y] = exchanges[y]
  BY <1>1 DEF GrantsIInv, O!TypeOK
<1>3. O!TypeOK'
  BY <1>1 DEF GrantsIInv, O!TypeOK
<1>4. \A y \in Exchanges : GrantsHeld(y)'
  BY <1>1, <1>2 DEF GrantsIInv, GrantsHeld
<1>5. ASSUME NEW c \in Codes \ raced' PROVE GrantsOneWay(c)'
  <2>1. GrantsOneWay(c) /\ c \notin raced
    BY <1>1 DEF GrantsIInv
  <2>2. \A y \in Exchanges \ {x} : GrantsHolds(y, c)' <=> GrantsHolds(y, c)
    BY <1>1, <1>2 DEF GrantsHolds
  <2>3. GrantsHolds(x, c)' => c = d
    BY <1>1, <1>2, GrantsConstants DEF GrantsHolds
  <2>4. ~GrantsHolds(x, c)
    BY <1>1, GrantsConstants DEF GrantsHolds, O!Free
  <2>5. \A p \in Pairs : GrantsAlive(p)' => GrantsAlive(p)
    BY <1>1, <1>2, GrantsConstants DEF GrantsAlive
  <2>6. CASE c # d
    <3>1. exchanges'[x].code # c
      BY <1>2, <2>6
    <3>2. (\E y \in Exchanges : exchanges'[y].code = c) => \E y \in Exchanges : exchanges[y].code = c
      BY <1>2, <3>1
    <3> QED BY <1>1, <2>1, <2>2, <2>3, <2>5, <2>6, <3>2 DEF GrantsOneWay
  <2>7. CASE c = d
    <3>1. \A p \in Pairs : family[p] # c
      BY <1>1, <2>1, <2>7 DEF GrantsOneWay
    <3>2. \A y \in Exchanges : exchanges[y] # token
      BY <1>1, <2>7
    <3>3. ASSUME NEW y \in Exchanges, GrantsHolds(y, c) PROVE FALSE
      <4>1. exchanges[y].code = c /\ GrantsHeld(y)
        BY <3>1, <3>3 DEF GrantsHolds, GrantsIInv
      <4>2. exchanges[y] \in [code : Codes \cup {None}, pair : Pairs \cup {None}]
        BY DEF GrantsIInv, O!TypeOK
      <4>3. exchanges[y].pair = None
        BY <4>1, GrantsConstants DEF GrantsHeld
      <4> QED BY <2>7, <3>2, <4>1, <4>2, <4>3
    <3>4. \A y \in Exchanges : GrantsHolds(y, c)' => y = x
      BY <2>2, <3>3
    <3>5. \A p \in Pairs : family'[p] # c
      BY <1>1, <3>1
    <3> QED BY <3>4, <3>5 DEF GrantsOneWay
  <2> QED BY <2>6, <2>7
<1> QED BY <1>1, <1>3, <1>4, <1>5 DEF GrantsIInv

LEMMA GrantsReadRefreshInv == ASSUME GrantsIInv, NEW x \in Exchanges, NEW r \in Pairs, O!ReadRefresh(x, r) PROVE GrantsIInv'
<1> DEFINE token == [code |-> None, pair |-> r]
<1>0. PICK d : d = family[r]
  OBVIOUS
<1>1. /\ exchanges' = [exchanges EXCEPT ![x] = token] /\ O!Free(x) /\ refresh[r] = "live"
      /\ UNCHANGED <<codes, access, refresh, family>>
      /\ raced' = IF \E y \in Exchanges : exchanges[y] = token THEN raced \cup {d} ELSE raced
  BY <1>0 DEF O!ReadRefresh, O!Also
<1>2. exchanges'[x] = token /\ \A y \in Exchanges \ {x} : exchanges'[y] = exchanges[y]
  BY <1>1 DEF GrantsIInv, O!TypeOK
<1>3. access[r] # "none" /\ d \in Codes
  BY <1>0, <1>1 DEF GrantsIInv, O!TypeOK
<1>4. O!TypeOK'
  BY <1>1, <1>3 DEF GrantsIInv, O!TypeOK
<1>5. \A y \in Exchanges : GrantsHeld(y)'
  BY <1>1, <1>2, <1>3 DEF GrantsIInv, GrantsHeld
<1>6. ASSUME NEW c \in Codes \ raced' PROVE GrantsOneWay(c)'
  <2>1. GrantsOneWay(c) /\ c \notin raced
    BY <1>1 DEF GrantsIInv
  <2>2. \A y \in Exchanges \ {x} : GrantsHolds(y, c)' <=> GrantsHolds(y, c)
    BY <1>1, <1>2 DEF GrantsHolds
  <2>3. GrantsHolds(x, c)' => c = d
    BY <1>0, <1>1, <1>2, GrantsConstants DEF GrantsHolds
  <2>4. \A p \in Pairs : GrantsAlive(p)' => GrantsAlive(p)
    <3>1. GrantsAlive(r)
      BY <1>1 DEF GrantsAlive
    <3> QED BY <1>1, <1>2, <3>1 DEF GrantsAlive
  <2>5. (\E y \in Exchanges : exchanges'[y].code = c) => \E y \in Exchanges : exchanges[y].code = c
    BY <1>2, GrantsConstants
  <2>6. CASE c # d
    BY <1>1, <2>1, <2>2, <2>3, <2>4, <2>5, <2>6 DEF GrantsOneWay
  <2>7. CASE c = d
    <3>2. \A y \in Exchanges : exchanges[y] # token
      BY <1>1, <2>7
    <3>3. ASSUME NEW y \in Exchanges, GrantsHolds(y, c) PROVE FALSE
      <4>1. exchanges[y].code # c
        BY <1>0, <2>1, <2>7 DEF GrantsOneWay
      <4>2. PICK p \in Pairs : exchanges[y].pair = p /\ family[p] = c
        BY <3>3, <4>1 DEF GrantsHolds
      <4>3. p = r
        <5>1. GrantsAlive(p) /\ GrantsAlive(r)
          BY <1>1, <4>2 DEF GrantsAlive
        <5> QED BY <1>0, <2>1, <2>7, <4>2, <5>1 DEF GrantsOneWay
      <4>4. exchanges[y] \in [code : Codes \cup {None}, pair : Pairs \cup {None}] /\ GrantsHeld(y)
        BY DEF GrantsIInv, O!TypeOK
      <4>5. exchanges[y].code = None
        BY <4>2, <4>4, GrantsConstants DEF GrantsHeld
      <4> QED BY <3>2, <4>2, <4>3, <4>4, <4>5
    <3>4. \A y \in Exchanges : GrantsHolds(y, c)' => y = x
      BY <2>2, <3>3
    <3> QED BY <1>1, <2>1, <2>4, <2>5, <3>4 DEF GrantsOneWay
  <2> QED BY <2>6, <2>7
<1> QED BY <1>1, <1>4, <1>5, <1>6 DEF GrantsIInv

\* An exchange that goes away takes nothing with it but its claim.
LEMMA GrantsAbortInv == ASSUME GrantsIInv, NEW x \in Exchanges, O!Abort(x) PROVE GrantsIInv'
<1>1. /\ exchanges' = [exchanges EXCEPT ![x] = [code |-> None, pair |-> None]]
      /\ UNCHANGED <<codes, access, refresh, family, raced>>
  BY DEF O!Abort, O!Finish
<1>2. exchanges'[x] = [code |-> None, pair |-> None] /\ \A y \in Exchanges \ {x} : exchanges'[y] = exchanges[y]
  BY <1>1 DEF GrantsIInv, O!TypeOK
<1>3. O!TypeOK'
  BY <1>1 DEF GrantsIInv, O!TypeOK
<1>4. \A y \in Exchanges : GrantsHeld(y)'
  BY <1>1, <1>2 DEF GrantsIInv, GrantsHeld
<1>5. ASSUME NEW c \in Codes \ raced PROVE GrantsOneWay(c)'
  <2>1. GrantsOneWay(c)
    BY DEF GrantsIInv
  <2>2. \A y \in Exchanges : GrantsHolds(y, c)' => GrantsHolds(y, c)
    BY <1>1, <1>2, GrantsConstants DEF GrantsHolds
  <2>3. \A p \in Pairs : GrantsAlive(p)' => GrantsAlive(p)
    BY <1>1, <1>2, GrantsConstants DEF GrantsAlive
  <2>4. (\E y \in Exchanges : exchanges'[y].code = c) => \E y \in Exchanges : exchanges[y].code = c
    BY <1>2, GrantsConstants
  <2> QED BY <1>1, <2>1, <2>2, <2>3, <2>4 DEF GrantsOneWay
<1> QED BY <1>1, <1>3, <1>4, <1>5 DEF GrantsIInv

\* A revocation leaves less alive.
LEMMA GrantsRevokeInv == ASSUME GrantsIInv, NEW r \in Pairs, O!RevokeAccess(r) \/ O!RevokeRefresh(r) PROVE GrantsIInv'
<1>1. /\ UNCHANGED <<codes, family, exchanges, raced>> /\ O!TypeOK'
      /\ \A p \in Pairs : /\ access'[p] = "none" <=> access[p] = "none"
                          /\ refresh'[p] = "none" <=> refresh[p] = "none"
                          /\ access'[p] = "live" => access[p] = "live"
                          /\ refresh'[p] = "live" => refresh[p] = "live"
  BY DEF O!RevokeAccess, O!RevokeRefresh, GrantsIInv, O!TypeOK, O!TokenStates
<1>2. \A x \in Exchanges : GrantsHeld(x)'
  BY <1>1 DEF GrantsIInv, GrantsHeld, O!TypeOK
<1>3. ASSUME NEW c \in Codes \ raced PROVE GrantsOneWay(c)'
  <2>1. GrantsOneWay(c)
    BY DEF GrantsIInv
  <2>2. \A x \in Exchanges : GrantsHolds(x, c)' <=> GrantsHolds(x, c)
    BY <1>1 DEF GrantsHolds
  <2>3. \A p \in Pairs : GrantsAlive(p)' => GrantsAlive(p)
    BY <1>1 DEF GrantsAlive
  <2> QED BY <1>1, <2>1, <2>2, <2>3 DEF GrantsOneWay
<1> QED BY <1>1, <1>2, <1>3 DEF GrantsIInv
-----------------------------------------------------------------------------
LEMMA GrantsOriginIs ==
  ASSUME GrantsIInv, NEW x \in Exchanges, ~O!Free(x)
  PROVE  /\ O!Origin(x) \in Codes /\ GrantsHolds(x, O!Origin(x))
         /\ \/ exchanges[x].code = O!Origin(x) /\ exchanges[x].pair = None
            \/ /\ exchanges[x].code = None /\ exchanges[x].pair \in Pairs
               /\ access[exchanges[x].pair] # "none" /\ family[exchanges[x].pair] = O!Origin(x)
<1>1. exchanges[x] \in [code : Codes \cup {None}, pair : Pairs \cup {None}] /\ GrantsHeld(x)
  BY DEF GrantsIInv, O!TypeOK
<1>2. CASE exchanges[x].code # None
  BY <1>1, <1>2 DEF O!Origin, GrantsHolds, GrantsHeld
<1>3. CASE exchanges[x].code = None
  <2>1. exchanges[x].pair \in Pairs
    BY <1>1, <1>3 DEF O!Free
  <2>2. access[exchanges[x].pair] # "none"
    BY <1>1, <2>1, GrantsConstants DEF GrantsHeld
  <2>3. family[exchanges[x].pair] \in Codes
    BY <2>1, <2>2 DEF GrantsIInv, O!TypeOK
  <2> QED BY <1>3, <2>1, <2>2, <2>3 DEF O!Origin, GrantsHolds
<1> QED BY <1>2, <1>3

LEMMA GrantsExchangeInv == ASSUME GrantsIInv, NEW x \in Exchanges, NEW n \in Pairs, O!Exchange(x, n) PROVE GrantsIInv'
<1>0. PICK d, old : d = O!Origin(x) /\ old = exchanges[x].pair
  OBVIOUS
<1>1. /\ d \in Codes /\ GrantsHolds(x, d)
      /\ \/ exchanges[x].code = d /\ old = None
         \/ exchanges[x].code = None /\ old \in Pairs /\ access[old] # "none" /\ family[old] = d
  BY <1>0, GrantsOriginIs DEF O!Exchange
<1>2. access[n] = "none" /\ refresh[n] = "none" /\ family[n] = None /\ n # old
  BY <1>1, GrantsConstants DEF O!Exchange, O!New, GrantsIInv
<1>3. /\ exchanges' = [exchanges EXCEPT ![x] = [code |-> None, pair |-> None]] /\ raced' = raced
      /\ exchanges'[x] = [code |-> None, pair |-> None] /\ \A y \in Exchanges \ {x} : exchanges'[y] = exchanges[y]
  BY DEF O!Exchange, O!Finish, GrantsIInv, O!TypeOK
<1>4. /\ access' = [q \in Pairs |-> CASE q = n -> "live" [] q = old -> "revoked" [] OTHER -> access[q]]
      /\ refresh' = [q \in Pairs |-> CASE q = n -> "live" [] q = old -> "revoked" [] OTHER -> refresh[q]]
      /\ family' = [family EXCEPT ![n] = d]
      /\ codes' = IF exchanges[x].code = None THEN codes ELSE [codes EXCEPT ![exchanges[x].code] = "used"]
  BY <1>0 DEF O!Exchange, O!Issue, O!Mark
<1>5. /\ access'[n] = "live" /\ refresh'[n] = "live" /\ family'[n] = d
      /\ old \in Pairs => access'[old] = "revoked" /\ refresh'[old] = "revoked" /\ family'[old] = family[old]
      /\ \A q \in Pairs \ {n, old} : access'[q] = access[q] /\ refresh'[q] = refresh[q] /\ family'[q] = family[q]
  BY <1>2, <1>4 DEF GrantsIInv, O!TypeOK
<1>6. \A c \in Codes : codes'[c] = IF exchanges[x].code = c THEN "used" ELSE codes[c]
  BY <1>1, <1>4, GrantsConstants DEF GrantsIInv, O!TypeOK
<1>7. O!TypeOK'
  <2>1. access' \in [Pairs -> O!TokenStates] /\ refresh' \in [Pairs -> O!TokenStates]
    <3>1. \A q \in Pairs : access'[q] \in O!TokenStates /\ refresh'[q] \in O!TokenStates
      BY <1>5 DEF GrantsIInv, O!TypeOK, O!TokenStates
    <3>2. access' = [q \in Pairs |-> access'[q]] /\ refresh' = [q \in Pairs |-> refresh'[q]]
      BY <1>4
    <3> QED BY <3>1, <3>2
  <2>2. codes' \in [Codes -> {"none", "unused", "used"}]
    BY <1>1, <1>4 DEF GrantsIInv, O!TypeOK
  <2>3. family' \in [Pairs -> Codes \cup {None}] /\ raced' \subseteq Codes
        /\ exchanges' \in [Exchanges -> [code : Codes \cup {None}, pair : Pairs \cup {None}]]
    BY <1>1, <1>3, <1>4 DEF GrantsIInv, O!TypeOK
  <2> QED BY <2>1, <2>2, <2>3 DEF O!TypeOK
<1>8. /\ \A p \in Pairs : access'[p] = "none" <=> refresh'[p] = "none"
      /\ \A p \in Pairs : access'[p] = "none" <=> family'[p] = None
  BY <1>1, <1>5, GrantsConstants DEF GrantsIInv
<1>9. ASSUME NEW y \in Exchanges PROVE GrantsHeld(y)'
  <2>1. CASE y = x
    BY <1>3, <2>1 DEF GrantsHeld
  <2>2. CASE y # x
    <3>1. exchanges'[y] = exchanges[y] /\ GrantsHeld(y) /\ exchanges[y] \in [code : Codes \cup {None}, pair : Pairs \cup {None}]
      BY <1>3, <2>2 DEF GrantsIInv, O!TypeOK
    <3>2. exchanges[y].code # None => codes'[exchanges[y].code] # "none"
      BY <1>6, <3>1 DEF GrantsHeld
    <3>3. exchanges[y].pair # None => access'[exchanges[y].pair] # "none"
      BY <1>5, <3>1 DEF GrantsHeld
    <3> QED BY <3>1, <3>2, <3>3 DEF GrantsHeld
  <2> QED BY <2>1, <2>2
<1>10. ASSUME NEW c \in Codes \ raced PROVE GrantsOneWay(c)'
  <2>1. GrantsOneWay(c)
    BY DEF GrantsIInv
  <2>2. \A p \in Pairs : family'[p] = c => family[p] = c \/ (p = n /\ c = d)
    BY <1>5
  \* The new pair was not held by anyone.
  <2>3. \A y \in Exchanges : exchanges[y].pair # n
    BY <1>2, GrantsConstants DEF GrantsIInv, GrantsHeld
  <2>4. ASSUME NEW y \in Exchanges, GrantsHolds(y, c)' PROVE GrantsHolds(y, c) /\ y # x
    <3>1. y # x
      BY <1>3, <2>4, GrantsConstants DEF GrantsHolds
    <3>2. CASE exchanges[y].code = c
      BY <3>1, <3>2 DEF GrantsHolds
    <3>3. CASE exchanges[y].code # c
      <4>1. PICK p \in Pairs : exchanges[y].pair = p /\ family'[p] = c
        BY <1>3, <2>4, <3>1, <3>3 DEF GrantsHolds
      <4>2. p # n
        BY <2>3, <4>1
      <4>3. family[p] = c
        BY <1>5, <4>1, <4>2
      <4> QED BY <3>1, <4>1, <4>3 DEF GrantsHolds
    <3> QED BY <3>2, <3>3
  <2>5. \A y, z \in Exchanges : GrantsHolds(y, c)' /\ GrantsHolds(z, c)' => y = z
    BY <2>1, <2>4 DEF GrantsOneWay
  <2>6. CASE c # d
    <3>1. \A p \in Pairs : family'[p] = c => family[p] = c /\ p # n /\ p # old
      BY <1>1, <1>5, <2>2, <2>6, GrantsConstants
    <3>2. \A p \in Pairs \ {n, old} : GrantsAlive(p)' => GrantsAlive(p)
      BY <1>3, <1>5, GrantsConstants DEF GrantsAlive
    <3>3. \A p, q \in Pairs : family'[p] = c /\ family'[q] = c /\ GrantsAlive(p)' /\ GrantsAlive(q)' => p = q
      BY <2>1, <3>1, <3>2 DEF GrantsOneWay
    <3>4. codes'[c] = codes[c]
      BY <1>1, <1>6, <2>6, GrantsConstants
    <3>5. (\E y \in Exchanges : exchanges'[y].code = c) => \E y \in Exchanges : exchanges[y].code = c
      BY <1>3, GrantsConstants
    <3>6. codes'[c] # "used" \/ (\E y \in Exchanges : exchanges'[y].code = c) => \A p \in Pairs : family'[p] # c
      BY <2>1, <3>1, <3>4, <3>5 DEF GrantsOneWay
    <3> QED BY <2>5, <3>3, <3>6 DEF GrantsOneWay
  <2>7. CASE c = d
    \* Nobody else was about to go on with this grant.
    <3>1. \A y \in Exchanges : ~GrantsHolds(y, c)'
      BY <1>1, <2>1, <2>4, <2>7 DEF GrantsOneWay
    <3>2. \A y \in Exchanges : exchanges'[y].code # c
      BY <3>1 DEF GrantsHolds
    <3>3. ASSUME NEW p \in Pairs, family'[p] = c, GrantsAlive(p)' PROVE p = n
      <4>1. SUFFICES ASSUME p # n PROVE FALSE
        OBVIOUS
      <4>2. family[p] = c
        BY <2>2, <3>3, <4>1
      <4>3. old \in Pairs /\ exchanges[x].code = None
        BY <1>1, <2>1, <2>7, <4>2, GrantsConstants DEF GrantsOneWay
      <4>4. \A y \in Exchanges : exchanges'[y].pair # p
        BY <3>1, <3>3 DEF GrantsHolds
      <4>5. access'[p] = "live" \/ refresh'[p] = "live"
        BY <3>3, <4>4 DEF GrantsAlive
      <4>6. p # old
        BY <1>5, <4>3, <4>5
      <4>7. GrantsAlive(p)
        BY <1>5, <4>1, <4>5, <4>6 DEF GrantsAlive
      <4>8. GrantsAlive(old) /\ family[old] = c
        BY <1>0, <1>1, <2>7, <4>3, GrantsConstants DEF GrantsAlive
      <4> QED BY <2>1, <4>2, <4>3, <4>6, <4>7, <4>8 DEF GrantsOneWay
    <3>4. codes'[c] = "used"
      <4>1. CASE exchanges[x].code = d
        BY <1>6, <2>7, <4>1
      <4>2. CASE old \in Pairs /\ family[old] = d
        <5>1. codes[c] = "used"
          BY <2>1, <2>7, <4>2 DEF GrantsOneWay
        <5> QED BY <1>6, <5>1
      <4> QED BY <1>1, <4>1, <4>2
    <3> QED BY <2>5, <3>2, <3>3, <3>4 DEF GrantsOneWay
  <2> QED BY <2>6, <2>7
<1> QED BY <1>3, <1>7, <1>8, <1>9, <1>10 DEF GrantsIInv

LEMMA GrantsNextInv == GrantsIInv /\ [O!Next]_(O!vars) => GrantsIInv'
<1> SUFFICES ASSUME GrantsIInv, [O!Next]_(O!vars) PROVE GrantsIInv'
  OBVIOUS
<1>1. CASE UNCHANGED O!vars
  <2>1. O!TypeOK' /\ raced' = raced /\ \A x \in Exchanges : GrantsHeld(x)'
    BY <1>1 DEF O!vars, GrantsIInv, O!TypeOK, GrantsHeld
  <2>2. \A c \in Codes \ raced : GrantsOneWay(c)'
    BY <1>1 DEF O!vars, GrantsIInv, GrantsOneWay, GrantsHolds, GrantsAlive
  <2> QED BY <1>1, <2>1, <2>2 DEF O!vars, GrantsIInv
<1> QED BY <1>1, GrantsAuthorizeInv, GrantsCodeExpiresInv, GrantsReadCodeInv, GrantsReadRefreshInv, GrantsExchangeInv, GrantsAbortInv, GrantsRevokeInv DEF O!Next

LEMMA GrantsAtMostOne == ASSUME NEW Some, \A a, b \in Some : a = b PROVE Cardinality(Some) <= 1
<1>1. CASE Some = {}
  BY <1>1, FS_EmptySet
<1>2. CASE Some # {}
  <2>1. PICK a \in Some : Some = {a}
    BY <1>2
  <2> QED BY <2>1, FS_Singleton
<1> QED BY <1>1, <1>2

LEMMA GrantsInvHolds == GrantsIInv => O!TypeOK /\ O!OnePairAtATime
<1> SUFFICES ASSUME GrantsIInv PROVE O!TypeOK /\ O!OnePairAtATime
  OBVIOUS
<1>1. O!TypeOK
  BY DEF GrantsIInv
<1>2. ASSUME NEW c \in Codes \ raced
      PROVE  Cardinality(O!Live(access, c)) <= 1 /\ Cardinality(O!Live(refresh, c)) <= 1
  <2>1. GrantsOneWay(c)
    BY DEF GrantsIInv
  <2>2. \A p, q \in O!Live(access, c) : p = q
    BY <2>1 DEF GrantsOneWay, O!Live, GrantsAlive
  <2>3. \A p, q \in O!Live(refresh, c) : p = q
    BY <2>1 DEF GrantsOneWay, O!Live, GrantsAlive
  <2> QED BY <2>2, <2>3, GrantsAtMostOne
<1> QED BY <1>1, <1>2, GrantsCounts DEF O!OnePairAtATime

LEMMA GrantsSpecInv == O!Init /\ [][O!Next]_(O!vars) => [](O!TypeOK /\ O!OnePairAtATime)
<1> QED BY GrantsInitInv, GrantsNextInv, GrantsInvHolds, PTL

\* Nothing goes on with a grant that has ended.
LEMMA GrantsEndedStep == ASSUME GrantsIInv, O!Next, NEW c \in Codes, O!Ended(c) PROVE O!Ended(c)'
<1>1. codes'[c] = "used"
  BY DEF O!Next, O!Authorize, O!CodeExpires, O!ReadCode, O!ReadRefresh, O!Exchange, O!Mark, O!Abort, O!RevokeAccess, O!RevokeRefresh,
         O!Ended, GrantsIInv, O!TypeOK
<1>2. CASE \E x \in Exchanges, n \in Pairs : O!Exchange(x, n)
  <2>1. PICK x \in Exchanges, n \in Pairs : O!Exchange(x, n)
    BY <1>2
  <2>2. O!Origin(x) # c /\ access[n] = "none" /\ refresh[n] = "none" /\ family[n] = None /\ O!Origin(x) \in Codes
    BY <2>1, GrantsOriginIs DEF O!Exchange, O!New, O!Ended, GrantsIInv
  <2>3. family' = [family EXCEPT ![n] = O!Origin(x)]
        /\ refresh' = [q \in Pairs |-> CASE q = n -> "live" [] q = exchanges[x].pair -> "revoked" [] OTHER -> refresh[q]]
        /\ exchanges' = [exchanges EXCEPT ![x] = [code |-> None, pair |-> None]]
    BY <2>1 DEF O!Exchange, O!Issue, O!Finish
  <2>4. O!Live(refresh, c)' = {}
    BY <2>2, <2>3 DEF O!Live, O!Ended, GrantsIInv, O!TypeOK
  <2>5. ASSUME NEW y \in Exchanges, ~O!Free(y)' PROVE O!Origin(y)' # c
    <3>1. y # x /\ exchanges'[y] = exchanges[y]
      BY <2>3, <2>5 DEF O!Free, GrantsIInv, O!TypeOK
    <3>2. ~O!Free(y)
      BY <2>5, <3>1 DEF O!Free
    <3>3. O!Origin(y) # c
      BY <3>2 DEF O!Ended
    <3>4. O!Origin(y)' = O!Origin(y)
      <4>1. exchanges[y].code = None => exchanges[y].pair \in Pairs /\ exchanges[y].pair # n
        BY <2>2, <3>2, GrantsOriginIs, GrantsConstants
      <4> QED BY <2>3, <3>1, <4>1 DEF O!Origin, GrantsIInv, O!TypeOK
    <3> QED BY <3>3, <3>4
  <2> QED BY <1>1, <2>4, <2>5 DEF O!Ended
<1>3. CASE \E x \in Exchanges, d \in Codes : O!ReadCode(x, d)
  <2>1. PICK x \in Exchanges, d \in Codes : O!ReadCode(x, d)
    BY <1>3
  <2>2. d # c /\ family' = family /\ refresh' = refresh
        /\ exchanges' = [exchanges EXCEPT ![x] = [code |-> d, pair |-> None]]
    BY <2>1 DEF O!ReadCode, O!Ended
  <2> QED BY <1>1, <2>2, GrantsConstants DEF O!Ended, O!Live, O!Free, O!Origin, GrantsIInv, O!TypeOK
<1>4. CASE \E x \in Exchanges, r \in Pairs : O!ReadRefresh(x, r)
  <2>1. PICK x \in Exchanges, r \in Pairs : O!ReadRefresh(x, r)
    BY <1>4
  <2>2. family[r] # c /\ family' = family /\ refresh' = refresh
        /\ exchanges' = [exchanges EXCEPT ![x] = [code |-> None, pair |-> r]]
    BY <2>1 DEF O!ReadRefresh, O!Ended, O!Live
  <2> QED BY <1>1, <2>2, GrantsConstants DEF O!Ended, O!Live, O!Free, O!Origin, GrantsIInv, O!TypeOK
<1>5. CASE \E x \in Exchanges : O!Abort(x)
  <2>1. PICK x \in Exchanges : O!Abort(x)
    BY <1>5
  <2>2. family' = family /\ refresh' = refresh
        /\ exchanges' = [exchanges EXCEPT ![x] = [code |-> None, pair |-> None]]
    BY <2>1 DEF O!Abort, O!Finish
  <2> QED BY <1>1, <2>2 DEF O!Ended, O!Live, O!Free, O!Origin, GrantsIInv, O!TypeOK
<1>6. CASE UNCHANGED <<family, exchanges>> /\ \A p \in Pairs : refresh'[p] = "live" => refresh[p] = "live"
  BY <1>1, <1>6 DEF O!Ended, O!Live, O!Free, O!Origin
<1>7. CASE \E d \in Codes : O!Authorize(d) \/ O!CodeExpires(d)
  BY <1>6, <1>7 DEF O!Authorize, O!CodeExpires
<1>8. CASE \E p \in Pairs : O!RevokeAccess(p) \/ O!RevokeRefresh(p)
  BY <1>6, <1>8 DEF O!RevokeAccess, O!RevokeRefresh, GrantsIInv, O!TypeOK
<1> QED BY <1>2, <1>3, <1>4, <1>5, <1>7, <1>8 DEF O!Next

LEMMA GrantsSpecEnded == O!Init /\ [][O!Next]_(O!vars) => O!EndedStaysEnded
<1>1. GrantsIInv /\ [O!Next]_(O!vars) => [\A c \in Codes : O!Ended(c) => O!Ended(c)']_(O!vars)
  BY GrantsEndedStep
<1> QED BY <1>1, GrantsInitInv, GrantsNextInv, PTL DEF O!EndedStaysEnded
-----------------------------------------------------------------------------
(* ListingTrust: what a job has loaded is the row, unless another overtook it. *)

LEMMA VerdictsConstants == MaxJobs \in Nat
  BY ServicesAssumption
LEMMA VerdictsCounts == \A s : V!Cardinality(s) = Cardinality(s)
  BY DEF V!Cardinality, Cardinality
-----------------------------------------------------------------------------
VerdictsStages == {"provenance", "policy"}
VerdictsListings == [status : {"pending_verification", "verified_secure_data", "verification_failed"},
             score : {0, 60, 80, 100}, summary : SUBSET {"judged", "provenance", "policy"}]
VerdictsBegun == [pc : {"receipt", "stages"}, loaded : VerdictsListings, late : BOOLEAN]
VerdictsReady == [pc : {"commit"}, loaded : VerdictsListings, late : BOOLEAN, new : VerdictsListings]

\* What one job says.
VerdictsSays(l) ==
  \E failing \in SUBSET VerdictsStages :
    l = [status |-> IF failing = {} THEN "verified_secure_data" ELSE "verification_failed",
         score |-> V!Score(failing), summary |-> failing \cup {"judged"}]

VerdictsIInv ==
  /\ listing \in VerdictsListings /\ receipt \in V!Receipts \cup {"foreign"} /\ fresh \in BOOLEAN /\ overtaken \in BOOLEAN
  /\ verifying \in [Verifications -> {V!Idle} \cup VerdictsBegun \cup VerdictsReady]
  /\ \A v \in Verifications : verifying[v] # V!Idle /\ ~verifying[v].late => verifying[v].loaded = listing
  /\ \A v \in Verifications : verifying[v] \in VerdictsReady => VerdictsSays(verifying[v].new)
  /\ ~overtaken => listing = V!Pending \/ VerdictsSays(listing)
-----------------------------------------------------------------------------
LEMMA VerdictsScoreOf == ASSUME NEW f \in SUBSET VerdictsStages PROVE V!Score(f) \in {60, 80, 100}
<1>1. f = {} \/ f = {"provenance"} \/ f = {"policy"} \/ f = {"provenance", "policy"}
  BY DEF VerdictsStages
<1>2. Cardinality({}) = 0 /\ Cardinality({"provenance"}) = 1 /\ Cardinality({"policy"}) = 1
  BY FS_EmptySet, FS_Singleton
<1>3. Cardinality({"provenance", "policy"}) = 2
  <2>1. "provenance" \notin {"policy"} /\ {"policy"} \cup {"provenance"} = {"provenance", "policy"}
    OBVIOUS
  <2>2. IsFiniteSet({"policy"})
    BY FS_Singleton
  <2> QED BY <1>2, <2>1, <2>2, FS_AddElement
<1>4. PICK c : c = Cardinality(f)
  OBVIOUS
<1>5. c \in {0, 1, 2}
  BY <1>1, <1>2, <1>3, <1>4
<1>6. ((5 - 0) * 100) \div 5 = 100 /\ ((5 - 1) * 100) \div 5 = 80 /\ ((5 - 2) * 100) \div 5 = 60
  OBVIOUS
<1>7. V!Score(f) = ((5 - c) * 100) \div 5
  BY <1>4, VerdictsCounts DEF V!Score
<1>8. ((5 - c) * 100) \div 5 \in {60, 80, 100}
  BY <1>5, <1>6
<1> QED BY <1>7, <1>8

LEMMA VerdictsSaysListings == ASSUME NEW l, VerdictsSays(l) PROVE l \in VerdictsListings
<1>1. PICK f \in SUBSET VerdictsStages :
        l = [status |-> IF f = {} THEN "verified_secure_data" ELSE "verification_failed",
             score |-> V!Score(f), summary |-> f \cup {"judged"}]
  BY DEF VerdictsSays
<1> QED BY <1>1, VerdictsScoreOf DEF VerdictsListings, VerdictsStages

LEMMA VerdictsJudgedSays == ASSUME NEW f \in SUBSET VerdictsStages PROVE VerdictsSays(V!Judged(f))
  BY DEF VerdictsSays, V!Judged
-----------------------------------------------------------------------------
LEMMA VerdictsKinds ==
  /\ \A r \in VerdictsBegun : r.pc \in {"receipt", "stages"} /\ r # V!Idle /\ r \notin VerdictsReady
  /\ \A r \in VerdictsReady : r.pc = "commit" /\ r # V!Idle /\ r \notin VerdictsBegun
  /\ V!Idle.pc = "idle" /\ V!Idle \notin VerdictsBegun /\ V!Idle \notin VerdictsReady
  BY DEF VerdictsBegun, VerdictsReady, V!Idle

LEMMA VerdictsInitInv == V!Init => VerdictsIInv
<1> SUFFICES ASSUME V!Init PROVE VerdictsIInv
  OBVIOUS
<1>1. V!Pending \in VerdictsListings
  BY DEF V!Pending, VerdictsListings
<1>2. verifying \in [Verifications -> {V!Idle} \cup VerdictsBegun \cup VerdictsReady] /\ \A v \in Verifications : verifying[v] = V!Idle
  BY DEF V!Init
<1> QED BY <1>1, <1>2, VerdictsKinds DEF V!Init, VerdictsIInv

\* One request goes on, to a row whose request still works on the listing as it is.
LEMMA VerdictsGoes ==
  ASSUME VerdictsIInv, NEW v \in Verifications, NEW r \in {V!Idle} \cup VerdictsBegun \cup VerdictsReady,
         verifying' = [verifying EXCEPT ![v] = r], UNCHANGED <<listing, overtaken>>,
         receipt' \in V!Receipts \cup {"foreign"}, fresh' \in BOOLEAN,
         r # V!Idle /\ ~r.late => r.loaded = listing, r \in VerdictsReady => VerdictsSays(r.new)
  PROVE  VerdictsIInv'
<1>1. verifying' \in [Verifications -> {V!Idle} \cup VerdictsBegun \cup VerdictsReady]
  BY DEF VerdictsIInv
<1>2. \A w \in Verifications : verifying'[w] = IF w = v THEN r ELSE verifying[w]
  BY DEF VerdictsIInv
<1> QED BY <1>1, <1>2 DEF VerdictsIInv

LEMMA VerdictsLoadInv == ASSUME VerdictsIInv, NEW v \in Verifications, NEW adds \in BOOLEAN, V!Load(v, adds) PROVE VerdictsIInv'
<1>1. PICK r : r = [pc |-> IF adds THEN "receipt" ELSE "stages", loaded |-> listing, late |-> FALSE]
  OBVIOUS
<1>2. r \in VerdictsBegun /\ r.loaded = listing
  BY <1>1 DEF VerdictsBegun, VerdictsIInv
<1> QED BY <1>1, <1>2, VerdictsKinds, VerdictsGoes DEF V!Load, VerdictsIInv

LEMMA VerdictsAddReceiptInv == ASSUME VerdictsIInv, NEW v \in Verifications, NEW r \in V!Receipts, V!AddReceipt(v, r) PROVE VerdictsIInv'
<1>1. PICK o, n : o = verifying[v] /\ n = [o EXCEPT !.pc = "stages"]
  OBVIOUS
<1>2. o \in VerdictsBegun /\ o # V!Idle
  BY <1>1, VerdictsKinds DEF V!AddReceipt, VerdictsIInv
<1>3. n \in VerdictsBegun /\ n.loaded = o.loaded /\ n.late = o.late
  BY <1>1, <1>2 DEF VerdictsBegun
<1>4. ~n.late => n.loaded = listing
  BY <1>1, <1>2, <1>3 DEF VerdictsIInv
<1> QED BY <1>1, <1>3, <1>4, VerdictsKinds, VerdictsGoes DEF V!AddReceipt, VerdictsIInv

LEMMA VerdictsJudgeInv == ASSUME VerdictsIInv, NEW v \in Verifications, V!Judge(v) PROVE VerdictsIInv'
<1>1. PICK o, n : o = verifying[v]
                  /\ n = [pc |-> "commit", loaded |-> o.loaded, late |-> o.late, new |-> V!Judged(V!Failing)]
  OBVIOUS
<1>2. o \in VerdictsBegun /\ o # V!Idle
  BY <1>1, VerdictsKinds DEF V!Judge, VerdictsIInv
<1>3. VerdictsSays(V!Judged(V!Failing)) /\ V!Judged(V!Failing) \in VerdictsListings
  <2>1. V!Failing \in SUBSET VerdictsStages
    BY DEF V!Failing, VerdictsStages
  <2> QED BY <2>1, VerdictsJudgedSays, VerdictsSaysListings
<1>4. n \in VerdictsReady /\ n.loaded = o.loaded /\ n.late = o.late /\ VerdictsSays(n.new)
  BY <1>1, <1>2, <1>3 DEF VerdictsBegun, VerdictsReady
<1>5. ~n.late => n.loaded = listing
  BY <1>1, <1>2, <1>4 DEF VerdictsIInv
<1>6. verifying' = [verifying EXCEPT ![v] = n]
  BY <1>1 DEF V!Judge
<1> QED BY <1>4, <1>5, <1>6, VerdictsKinds, VerdictsGoes DEF V!Judge, VerdictsIInv

LEMMA VerdictsFailInv == ASSUME VerdictsIInv, NEW v \in Verifications, V!Fail(v) PROVE VerdictsIInv'
  BY VerdictsKinds, VerdictsGoes DEF V!Fail, VerdictsIInv

LEMMA VerdictsCommitInv == ASSUME VerdictsIInv, NEW v \in Verifications, V!Commit(v) PROVE VerdictsIInv'
<1>1. PICK o : o = verifying[v]
  OBVIOUS
<1>2. o \in VerdictsReady /\ o # V!Idle /\ VerdictsSays(o.new) /\ o.new \in VerdictsListings /\ o.loaded \in VerdictsListings /\ o.late \in BOOLEAN
  <2>1. o \in VerdictsReady
    BY <1>1, VerdictsKinds DEF V!Commit, VerdictsIInv
  <2> QED BY <1>1, <2>1, VerdictsKinds DEF VerdictsIInv, VerdictsReady
<1>3. listing' = V!Written(o.new, o.loaded) /\ overtaken' = o.late /\ verifying' = V!Overtaking(v) /\ UNCHANGED <<receipt, fresh>>
  BY <1>1 DEF V!Commit
<1>4. /\ listing' = [status |-> listing'.status, score |-> listing'.score, summary |-> listing'.summary]
      /\ listing'.status \in {listing.status, o.new.status} /\ listing'.score \in {listing.score, o.new.score}
      /\ listing'.summary = o.new.summary
      /\ o.loaded = listing => listing'.status = o.new.status /\ listing'.score = o.new.score
  <2>1. DOMAIN listing = {"status", "score", "summary"}
    BY DEF VerdictsIInv, VerdictsListings
  <2>2. listing' = [c \in {"status", "score", "summary"} |->
                      IF c # "summary" /\ o.new[c] = o.loaded[c] THEN listing[c] ELSE o.new[c]]
    BY <1>3, <2>1 DEF V!Written
  <2> QED BY <2>2
<1>5. listing' \in VerdictsListings
  BY <1>2, <1>4 DEF VerdictsIInv, VerdictsListings
<1>6. ~o.late => VerdictsSays(listing')
  <2>1. ASSUME ~o.late PROVE listing' = o.new
    <3>1. o.loaded = listing
      BY <1>1, <1>2, <2>1 DEF VerdictsIInv
    <3>2. o.new = [status |-> o.new.status, score |-> o.new.score, summary |-> o.new.summary]
      BY <1>2 DEF VerdictsListings
    <3> QED BY <1>4, <3>1, <3>2
  <2> QED BY <1>2, <2>1
<1>7. \A w \in Verifications :
        \/ verifying'[w] = V!Idle
        \/ /\ verifying[w] # V!Idle /\ verifying'[w].late = TRUE
           /\ \/ verifying[w] \in VerdictsBegun /\ verifying'[w] \in VerdictsBegun
              \/ verifying[w] \in VerdictsReady /\ verifying'[w] \in VerdictsReady /\ verifying'[w].new = verifying[w].new
  <2> TAKE w \in Verifications
  <2>1. CASE w = v \/ verifying[w] = V!Idle
    BY <1>3, <2>1 DEF V!Overtaking
  <2>2. CASE w # v /\ verifying[w] # V!Idle
    <3>1. PICK r : r = verifying[w]
      OBVIOUS
    <3>2. verifying'[w] = [r EXCEPT !.late = TRUE]
      BY <1>3, <2>2, <3>1 DEF V!Overtaking
    <3>3. CASE r \in VerdictsBegun
      <4>1. [r EXCEPT !.late = TRUE] \in VerdictsBegun /\ [r EXCEPT !.late = TRUE].late = TRUE
        BY <3>3 DEF VerdictsBegun
      <4> QED BY <2>2, <3>1, <3>2, <3>3, <4>1
    <3>4. CASE r \in VerdictsReady
      <4>1. [r EXCEPT !.late = TRUE] \in VerdictsReady /\ [r EXCEPT !.late = TRUE].late = TRUE /\ [r EXCEPT !.late = TRUE].new = r.new
        BY <3>4 DEF VerdictsReady
      <4> QED BY <2>2, <3>1, <3>2, <3>4, <4>1
    <3> QED BY <2>2, <3>1, <3>3, <3>4 DEF VerdictsIInv
  <2> QED BY <2>1, <2>2
<1>8. verifying' \in [Verifications -> {V!Idle} \cup VerdictsBegun \cup VerdictsReady]
  <2>1. verifying' = [w \in Verifications |-> verifying'[w]]
    BY <1>3 DEF V!Overtaking
  <2> QED BY <1>7, <2>1
<1>9. /\ \A w \in Verifications : verifying'[w] # V!Idle => verifying'[w].late
      /\ \A w \in Verifications : verifying'[w] \in VerdictsReady => VerdictsSays(verifying'[w].new)
  BY <1>7, VerdictsKinds DEF VerdictsIInv
<1> QED BY <1>2, <1>3, <1>5, <1>6, <1>8, <1>9 DEF VerdictsIInv

LEMMA VerdictsNextInv == VerdictsIInv /\ [V!Next]_(V!vars) => VerdictsIInv'
<1> SUFFICES ASSUME VerdictsIInv, [V!Next]_(V!vars) PROVE VerdictsIInv'
  OBVIOUS
<1>1. CASE UNCHANGED V!vars
  BY <1>1 DEF V!vars, VerdictsIInv
<1>2. CASE V!Expire
  BY <1>2 DEF V!Expire, VerdictsIInv
<1> QED BY <1>1, <1>2, VerdictsLoadInv, VerdictsAddReceiptInv, VerdictsJudgeInv, VerdictsCommitInv, VerdictsFailInv DEF V!Next

LEMMA VerdictsInvHolds == VerdictsIInv => V!TypeOK /\ V!OneJobShows
<1> SUFFICES ASSUME VerdictsIInv PROVE V!TypeOK /\ V!OneJobShows
  OBVIOUS
<1>1. V!TypeOK
  <2>1. \A v \in Verifications : verifying[v].pc \in {"idle", "receipt", "stages", "commit"}
    BY VerdictsKinds DEF VerdictsIInv
  <2> QED BY <2>1 DEF VerdictsIInv, V!TypeOK, VerdictsListings
<1>2. ASSUME listing.summary # {}, ~overtaken, NEW failing, failing = listing.summary \ {"judged"}
      PROVE  (listing.status = "verified_secure_data" <=> failing = {}) /\ listing.score = V!Score(failing)
  <2>1. VerdictsSays(listing)
    BY <1>2 DEF VerdictsIInv, V!Pending
  <2>2. PICK f \in SUBSET VerdictsStages :
          listing = [status |-> IF f = {} THEN "verified_secure_data" ELSE "verification_failed",
                     score |-> V!Score(f), summary |-> f \cup {"judged"}]
    BY <2>1 DEF VerdictsSays
  <2>3. failing = f
    BY <1>2, <2>2 DEF VerdictsStages
  <2> QED BY <2>2, <2>3
<1> QED BY <1>1, <1>2 DEF V!OneJobShows

LEMMA VerdictsSpecInv == V!Init /\ [][V!Next]_(V!vars) => [](V!TypeOK /\ V!OneJobShows)
<1> QED BY VerdictsInitInv, VerdictsNextInv, VerdictsInvHolds, PTL
-----------------------------------------------------------------------------
(* A2ATasks: how far a call is says what its task has. *)

TasksStates == {"none", "submitted", "working"} \cup A!Terminal
TasksUpdates == {"working", "artifact"} \cup A!Terminal
TasksObjects == [state : TasksStates, artifacts : 0..1, updates : Seq(TasksUpdates)]

\* The one artifact of a task is added when its handler ends, so before there is none.  A
\* task whose handler runs is working, and then nobody cleans it up, or was canceled.
TasksFits(t, o, call, kept) ==
  /\ o.state = "none" => call = "none"
  /\ call \in {"none", "response", "send", "subscribe"} => o.artifacts = 0
  /\ call = "response" => (o.state = "submitted" /\ t \in kept) \/ o.state = "canceled"
  /\ call = "subscribe" => (o.state = "working" /\ t \in kept) \/ o.state = "canceled"
  /\ call = "drain" => o.state \in A!Terminal

TasksIInv ==
  /\ stored \subseteq Tasks
  /\ tasks \in [Tasks -> TasksObjects]
  /\ calls \in [Tasks -> {"none", "response", "send", "subscribe", "drain", "done", "gone"}]
  /\ \A t \in Tasks : TasksFits(t, tasks[t], calls[t], stored)
-----------------------------------------------------------------------------
LEMMA TasksInitInv == A!Init => TasksIInv
<1> SUFFICES ASSUME A!Init PROVE TasksIInv
  OBVIOUS
<1>1. <<>> \in Seq(TasksUpdates) /\ "none" \in TasksStates /\ 0 \in 0..1
  BY DEF TasksStates
<1>2. [state |-> "none", artifacts |-> 0, updates |-> <<>>] \in TasksObjects
  BY <1>1 DEF TasksObjects
<1>3. tasks \in [Tasks -> TasksObjects] /\ \A t \in Tasks : tasks[t].artifacts = 0
  BY <1>2 DEF A!Init
<1> QED BY <1>3 DEF A!Init, TasksIInv, TasksFits

\* An update of the state keeps the artifacts; an artifact is one more.
LEMMA TasksUpdated ==
  ASSUME NEW t, NEW o \in TasksObjects, NEW new \in {"working", "completed", "failed", "canceled"}
  PROVE  /\ A!UpdateState(t, o, new) \in TasksObjects
         /\ A!UpdateState(t, o, new).artifacts = o.artifacts
         /\ A!UpdateState(t, o, new).state = "none" => o.state = "none"
<1>1. o.state \in TasksStates /\ o.artifacts \in 0..1 /\ o.updates \in Seq(TasksUpdates)
  BY DEF TasksObjects
<1>2. new \in TasksStates /\ new \in TasksUpdates /\ new # "none"
  BY DEF TasksStates, TasksUpdates, A!Terminal
<1>3. Append(o.updates, new) \in Seq(TasksUpdates)
  BY <1>1, <1>2
<1> QED BY <1>1, <1>2, <1>3 DEF A!UpdateState, TasksObjects

LEMMA TasksAdded ==
  ASSUME NEW t, NEW o \in TasksObjects, o.artifacts = 0
  PROVE  A!AddArtifact(t, o) \in TasksObjects /\ A!AddArtifact(t, o).state = o.state
<1>1. o.state \in TasksStates /\ o.updates \in Seq(TasksUpdates) /\ "artifact" \in TasksUpdates
  BY DEF TasksObjects, TasksUpdates
<1>2. Append(o.updates, "artifact") \in Seq(TasksUpdates) /\ 0 + 1 \in 0..1
  BY <1>1
<1> QED BY <1>1, <1>2 DEF A!AddArtifact, TasksObjects

LEMMA TasksTaken ==
  ASSUME NEW o \in TasksObjects, o.updates # <<>>
  PROVE  A!Take(o) \in TasksObjects /\ A!Take(o).artifacts = o.artifacts /\ A!Take(o).state = o.state
<1>1. Tail(o.updates) \in Seq(TasksUpdates)
  BY DEF TasksObjects
<1> QED BY <1>1 DEF A!Take, TasksObjects

\* A step that changes at most the object, the call and the place of t.
LEMMA TasksOneObject ==
  ASSUME TasksIInv, NEW t \in Tasks, NEW o \in TasksObjects, tasks' = [tasks EXCEPT ![t] = o],
         stored' \subseteq Tasks, stored' \ {t} = stored \ {t},
         NEW l \in {"none", "response", "send", "subscribe", "drain", "done", "gone"},
         calls' = [calls EXCEPT ![t] = l], TasksFits(t, o, l, stored')
  PROVE  TasksIInv'
<1>1. tasks' \in [Tasks -> TasksObjects] /\ tasks'[t] = o /\ calls'[t] = l
      /\ calls' \in [Tasks -> {"none", "response", "send", "subscribe", "drain", "done", "gone"}]
  BY DEF TasksIInv
<1>2. ASSUME NEW u \in Tasks \ {t} PROVE TasksFits(u, tasks'[u], calls'[u], stored')
  <2>1. tasks'[u] = tasks[u] /\ calls'[u] = calls[u] /\ (u \in stored' <=> u \in stored)
    BY DEF TasksIInv
  <2> QED BY <2>1 DEF TasksIInv, TasksFits
<1> QED BY <1>1, <1>2 DEF TasksIInv

\* Such a step that keeps the object.
LEMMA TasksSame ==
  ASSUME TasksIInv, NEW t \in Tasks, tasks' = tasks,
         stored' \subseteq Tasks, stored' \ {t} = stored \ {t},
         NEW l \in {"none", "response", "send", "subscribe", "drain", "done", "gone"},
         calls' = [calls EXCEPT ![t] = l], TasksFits(t, tasks[t], l, stored')
  PROVE  TasksIInv'
<1>1. tasks[t] \in TasksObjects /\ tasks' = [tasks EXCEPT ![t] = tasks[t]]
  BY DEF TasksIInv
<1> QED BY <1>1, TasksOneObject

\* What update_state makes of a task.
LEMMA TasksMoved ==
  ASSUME NEW t \in stored, NEW o, NEW new
  PROVE  /\ o.state = "submitted" /\ new = "working" => A!UpdateState(t, o, new).state = "working"
         /\ o.state = "working" /\ new \in {"completed", "failed"} => A!UpdateState(t, o, new).state = new
         /\ o.state \in {"submitted", "working"} /\ new = "canceled"
              => A!UpdateState(t, o, new).state = "canceled"
  BY DEF A!UpdateState, A!Allowed, A!FromWorking

LEMMA TasksUnmoved ==
  ASSUME NEW t, NEW o, NEW new, t \notin stored \/ o.state \in A!Terminal
  PROVE  A!UpdateState(t, o, new).state = o.state
  BY DEF A!UpdateState, A!Allowed, A!FromWorking, A!Terminal

LEMMA TasksNextInv == TasksIInv /\ [A!Next]_(A!vars) => TasksIInv'
<1> SUFFICES ASSUME TasksIInv, [A!Next]_(A!vars) PROVE TasksIInv'
  OBVIOUS
<1>0. \A t \in Tasks : tasks[t] \in TasksObjects /\ TasksFits(t, tasks[t], calls[t], stored)
                       /\ calls[t] \in {"none", "response", "send", "subscribe", "drain", "done", "gone"}
                       /\ calls = [calls EXCEPT ![t] = calls[t]]
  BY DEF TasksIInv
<1>1. CASE \E t \in Tasks : A!Send(t)
  <2>0. PICK t \in Tasks : A!Send(t)
    BY <1>1
  <2>1. "working" \in TasksStates /\ "working" \in TasksUpdates
    BY DEF TasksStates, TasksUpdates
  <2>2. <<"working">> \in Seq(TasksUpdates) /\ 0 \in 0..1
    BY <2>1
  <2>3. [state |-> "working", artifacts |-> 0, updates |-> <<"working">>] \in TasksObjects
    BY <2>1, <2>2 DEF TasksObjects
  <2> QED BY <2>0, <2>3, TasksOneObject DEF A!Send, TasksIInv, TasksFits
<1>2. CASE \E t \in Tasks : A!SendSubscribe(t)
  <2>0. PICK t \in Tasks : A!SendSubscribe(t)
    BY <1>2
  <2> DEFINE o == [tasks[t] EXCEPT !.state = "submitted"]
  <2>1. o \in TasksObjects /\ o.artifacts = 0 /\ o.state = "submitted"
    BY <2>0 DEF A!SendSubscribe, TasksIInv, TasksObjects, TasksStates, TasksFits
  <2>2. tasks' = [tasks EXCEPT ![t] = o]
    BY <2>0 DEF A!SendSubscribe
  <2>3. stored' = stored \cup {t} /\ calls' = [calls EXCEPT ![t] = "response"]
    BY <2>0 DEF A!SendSubscribe
  <2>4. stored' \subseteq Tasks /\ stored' \ {t} = stored \ {t}
    BY <2>3 DEF TasksIInv
  <2> HIDE DEF o
  <2>5. TasksFits(t, o, "response", stored')
    BY <2>1, <2>3 DEF TasksFits
  <2> QED BY <2>1, <2>2, <2>3, <2>4, <2>5, TasksOneObject
<1>3. CASE \E t \in Tasks : A!StartStream(t)
  <2>0. PICK t \in Tasks : A!StartStream(t)
    BY <1>3
  <2> DEFINE o == A!UpdateState(t, tasks[t], "working")
  <2>1. o \in TasksObjects /\ o.artifacts = 0 /\ o.state # "none"
    BY <1>0, <2>0, TasksUpdated DEF A!StartStream, TasksFits
  <2>2. (o.state = "working" /\ t \in stored) \/ o.state = "canceled"
    BY <1>0, <2>0, TasksMoved, TasksUnmoved DEF A!StartStream, TasksFits, A!Terminal
  <2>3. tasks' = [tasks EXCEPT ![t] = o] /\ stored' = stored /\ calls' = [calls EXCEPT ![t] = "subscribe"]
    BY <2>0 DEF A!StartStream, TasksIInv
  <2> HIDE DEF o
  <2>4. TasksFits(t, o, "subscribe", stored)
    BY <2>1, <2>2 DEF TasksFits
  <2> QED BY <2>1, <2>3, <2>4, TasksOneObject DEF TasksIInv
<1>4. CASE \E t \in Tasks, ok \in BOOLEAN : A!HandlerEnds(t, ok)
  <2>0. PICK t \in Tasks, ok \in BOOLEAN : A!HandlerEnds(t, ok)
    BY <1>4
  <2> DEFINE with == A!AddArtifact(t, tasks[t])
             o == IF ok THEN A!UpdateState(t, with, "completed") ELSE A!UpdateState(t, tasks[t], "failed")
             l == IF calls[t] = "subscribe" /\ t \in stored THEN "drain" ELSE "done"
  <2>1. tasks[t] \in TasksObjects /\ tasks[t].artifacts = 0 /\ tasks[t].state # "none"
    BY <1>0, <2>0 DEF A!HandlerEnds, TasksFits
  <2>2. with \in TasksObjects /\ with.state = tasks[t].state
    BY <2>1, TasksAdded
  <2>3. o \in TasksObjects /\ (o.state = "none" => tasks[t].state = "none")
    <3> HIDE DEF with
    <3> QED BY <2>1, <2>2, TasksUpdated
  <2>4. l = "drain" => o.state \in A!Terminal
    <3> SUFFICES ASSUME l = "drain" PROVE o.state \in A!Terminal
      OBVIOUS
    <3>1. t \in stored /\ tasks[t].state \in {"working", "canceled"}
      BY <1>0 DEF TasksFits
    <3> HIDE DEF with
    <3>2. CASE ok
      BY <2>2, <3>1, <3>2, TasksMoved, TasksUnmoved DEF A!Terminal
    <3>3. CASE ~ok
      BY <3>1, <3>3, TasksMoved, TasksUnmoved DEF A!Terminal
    <3> QED BY <3>2, <3>3
  <2>5. tasks' = [tasks EXCEPT ![t] = o] /\ stored' = stored /\ calls' = [calls EXCEPT ![t] = l]
    BY <2>0 DEF A!HandlerEnds, TasksIInv
  <2>6. l \in {"drain", "done"}
    OBVIOUS
  <2> HIDE DEF o, l
  <2>7. TasksFits(t, o, l, stored)
    BY <2>1, <2>3, <2>4, <2>6 DEF TasksFits
  <2> QED BY <2>3, <2>5, <2>6, <2>7, TasksOneObject DEF TasksIInv
<1>5. CASE \E t \in Tasks : A!Respond(t)
  <2>0. PICK t \in Tasks : A!Respond(t)
    BY <1>5
  <2>1. CASE tasks[t].updates = <<>>
    BY <1>0, <2>0, <2>1, TasksSame DEF A!Respond, TasksIInv, TasksFits
  <2>2. CASE tasks[t].updates # <<>>
    <3>1. A!Take(tasks[t]) \in TasksObjects /\ TasksFits(t, A!Take(tasks[t]), calls[t], stored)
      BY <1>0, <2>2, TasksTaken DEF TasksFits
    <3>2. tasks' = [tasks EXCEPT ![t] = A!Take(tasks[t])] /\ calls' = calls /\ stored' = stored
      BY <2>0, <2>2 DEF A!Respond, TasksIInv
    <3> QED BY <1>0, <3>1, <3>2, TasksOneObject DEF TasksIInv
  <2> QED BY <2>1, <2>2
<1>6. CASE \E t \in Tasks : A!Disconnect(t)
  BY <1>0, <1>6, TasksSame DEF A!Disconnect, TasksIInv, TasksFits
<1>7. CASE \E t \in Tasks : A!Cancel(t)
  <2>0. PICK t \in Tasks : A!Cancel(t)
    BY <1>7
  <2> DEFINE o == A!UpdateState(t, tasks[t], "canceled")
  <2>1. tasks[t] \in TasksObjects /\ TasksFits(t, tasks[t], calls[t], stored)
    BY <2>0 DEF TasksIInv
  <2>2. o \in TasksObjects /\ o.artifacts = tasks[t].artifacts /\ (o.state = "none" => tasks[t].state = "none")
    BY <2>1, TasksUpdated
  <2>3. tasks[t].state \in {"submitted", "working"} => o.state = "canceled"
    BY <2>0, TasksMoved DEF A!Cancel
  <2>4. tasks[t].state \notin A!Terminal /\ t \in stored
    BY <2>0 DEF A!Cancel
  <2>5. tasks' = [tasks EXCEPT ![t] = o] /\ calls' = calls /\ stored' = stored
    BY <2>0 DEF A!Cancel, TasksIInv
  <2> HIDE DEF o
  <2>6. TasksFits(t, o, calls[t], stored)
    BY <2>1, <2>2, <2>3, <2>4 DEF TasksFits, A!Terminal
  <2> QED BY <1>0, <2>2, <2>5, <2>6, TasksOneObject DEF TasksIInv
<1>8. CASE \E t \in Tasks : A!Cleanup(t)
  <2>0. PICK t \in Tasks : A!Cleanup(t)
    BY <1>8
  <2>1. TasksFits(t, tasks[t], calls[t], stored \ {t})
    BY <1>0, <2>0 DEF A!Cleanup, A!Terminal, TasksFits
  <2>2. stored' = stored \ {t} /\ tasks' = tasks /\ calls' = calls
    BY <2>0 DEF A!Cleanup
  <2>3. stored' \subseteq Tasks /\ stored' \ {t} = stored \ {t}
    BY <2>2 DEF TasksIInv
  <2>4. calls' = [calls EXCEPT ![t] = calls[t]] /\ TasksFits(t, tasks[t], calls[t], stored')
    BY <1>0, <2>1, <2>2
  <2> DEFINE l == calls[t]
  <2>5. l \in {"none", "response", "send", "subscribe", "drain", "done", "gone"}
    BY <1>0
  <2>6. t \in Tasks /\ tasks' = tasks /\ calls' = [calls EXCEPT ![t] = l] /\ TasksFits(t, tasks[t], l, stored')
    BY <2>2, <2>4
  <2> HIDE DEF l
  <2> QED BY <2>3, <2>5, <2>6, TasksSame
<1>9. CASE UNCHANGED A!vars
  <2>1. stored' = stored /\ tasks' = tasks /\ calls' = calls
    BY <1>9 DEF A!vars
  <2>2. \A t \in Tasks : TasksFits(t, tasks'[t], calls'[t], stored')
    BY <1>0, <2>1
  <2> QED BY <2>1, <2>2 DEF TasksIInv
<1> QED BY <1>1, <1>2, <1>3, <1>4, <1>5, <1>6, <1>7, <1>8, <1>9 DEF A!Next

LEMMA TasksSpecInv == A!Init /\ [][A!Next]_(A!vars) => [](A!TypeOK /\ A!StreamsAreOver)
<1>1. TasksIInv => A!TypeOK
  <2> SUFFICES ASSUME TasksIInv, NEW t \in Tasks
               PROVE  /\ tasks[t].state \in {"none", "submitted", "working"} \cup A!Terminal
                      /\ tasks[t].artifacts \in 0 .. 1
                      /\ \A i \in DOMAIN tasks[t].updates :
                           tasks[t].updates[i] \in {"working", "artifact"} \cup A!Terminal
    BY DEF TasksIInv, A!TypeOK
  <2>1. /\ tasks[t].state \in TasksStates /\ tasks[t].artifacts \in 0..1
        /\ tasks[t].updates \in Seq(TasksUpdates)
    BY DEF TasksIInv, TasksObjects
  <2>2. \A i \in DOMAIN tasks[t].updates : tasks[t].updates[i] \in TasksUpdates
    BY <2>1
  <2> QED BY <2>1, <2>2 DEF TasksStates, TasksUpdates
<1>2. TasksIInv => A!StreamsAreOver
  BY DEF TasksIInv, TasksFits, A!StreamsAreOver
<1> QED BY <1>1, <1>2, TasksInitInv, TasksNextInv, PTL
-----------------------------------------------------------------------------
(* AgentTrust: what a session has loaded is the profile, unless another overtook it. *)

LEMMA TrustConstants == MaxClaims \in Nat
  BY ServicesAssumption
-----------------------------------------------------------------------------
TrustProfiles == [exists : BOOLEAN, score : 0..98, tier : {"T0", "T1", "T2", "T3"},
             status : {"unverified", "provisional", "verified", "restricted"}, stage : [T!Stages -> T!Scores]]

\* What each stage can be worth.
TrustWorth(stage) ==
  /\ stage["identity"] \in {0, 20} /\ stage["runtime"] \in {0, 15, 20} /\ stage["knowledge"] \in {0, 30}
  /\ stage["memory"] \in {0, 20} /\ stage["abuse"] = 8

\* A session that nobody has overtaken has loaded the row that is there, unless the row was
\* inserted meanwhile, and then its own INSERT will be refused.
TrustCurrent(m, record) ==
  /\ m.claim \in T!Claims /\ m.loaded \in TrustProfiles /\ TrustWorth(m.loaded.stage) /\ m.overtaken \in BOOLEAN
  /\ m.overtaken \/ m.loaded = record \/ (~m.loaded.exists /\ record.exists)

TrustFits(m, record) ==
  /\ m.pc \in {"idle", "loaded"} /\ m.claim \in T!Claims \cup {T!NoClaim}
  /\ m.pc = "loaded" => TrustCurrent(m, record)

TrustIInv ==
  /\ profile \in TrustProfiles /\ TrustWorth(profile.stage)
  /\ \A s \in Sessions : TrustFits(sessions[s], profile)
  /\ claims \in 0..MaxClaims
  /\ last \in [overtaken : BOOLEAN, severe : BOOLEAN]
  /\ ~profile.exists => profile = T!NoProfile
  /\ T!NextOneRepairs
-----------------------------------------------------------------------------
\* What a request sets is worth what its stage can be worth.
TrustSound(c) ==
  /\ c.severe \in BOOLEAN
  /\ "identity" \in DOMAIN c.stage => c.stage["identity"] \in {0, 20}
  /\ "runtime" \in DOMAIN c.stage => c.stage["runtime"] \in {15, 20}
  /\ "knowledge" \in DOMAIN c.stage => c.stage["knowledge"] \in {0, 30}
  /\ "memory" \in DOMAIN c.stage => c.stage["memory"] \in {0, 20}
  /\ "abuse" \in DOMAIN c.stage => c.stage["abuse"] = 8

LEMMA TrustOneStage ==
  ASSUME NEW g, NEW n, NEW severe \in BOOLEAN,
         \/ g = "identity" /\ n \in {0, 20}
         \/ g = "runtime" /\ n \in {15, 20}
         \/ g = "knowledge" /\ n \in {0, 30}
         \/ g = "memory" /\ n \in {0, 20}
  PROVE  TrustSound(T!Sets(g, n, severe))
<1>1. T!Sets(g, n, severe).severe = severe /\ T!Sets(g, n, severe).stage = [h \in {g} |-> n]
  BY DEF T!Sets
<1>2. \A h \in DOMAIN T!Sets(g, n, severe).stage : h = g /\ T!Sets(g, n, severe).stage[h] = n
  BY <1>1
<1> QED BY <1>1, <1>2 DEF TrustSound

LEMMA TrustBootstrap == TrustSound([stage |-> [identity |-> 20, runtime |-> 15, abuse |-> 8], severe |-> FALSE])
<1> DEFINE stage == [identity |-> 20, runtime |-> 15, abuse |-> 8]
<1>1. stage["identity"] = 20 /\ stage["runtime"] = 15 /\ stage["abuse"] = 8
  OBVIOUS
<1>2. DOMAIN stage = {"identity", "runtime", "abuse"}
  OBVIOUS
<1> HIDE DEF stage
<1>3. TrustSound([stage |-> stage, severe |-> FALSE])
  BY <1>1, <1>2 DEF TrustSound
<1> QED BY <1>3 DEF stage

LEMMA TrustClaimSets == ASSUME NEW c \in T!Claims PROVE TrustSound(c)
  BY TrustOneStage, TrustBootstrap DEF T!Claims

LEMMA TrustWorthIs ==
  ASSUME NEW stage, TrustWorth(stage), DOMAIN stage = T!Stages, stage = [g \in T!Stages |-> stage[g]]
  PROVE  stage \in [T!Stages -> T!Scores] /\ T!Total(stage) \in 0..98
<1>1. \A g \in T!Stages : stage[g] \in T!Scores
  BY DEF TrustWorth, T!Stages, T!Scores
<1> QED BY <1>1 DEF TrustWorth, T!Total

LEMMA TrustTierIs ==
  ASSUME NEW score \in 0..98, NEW severe \in BOOLEAN
  PROVE  /\ T!Tier(score, severe)[1] \in {"unverified", "provisional", "verified", "restricted"}
         /\ T!Tier(score, severe)[2] \in {"T0", "T1", "T2", "T3"}
         /\ <<T!Tier(score, severe)[1], T!Tier(score, severe)[2]>> = T!Tier(score, severe)
<1>1. CASE severe
  BY <1>1 DEF T!Tier
<1>2. CASE ~severe /\ score < 40
  BY <1>2 DEF T!Tier
<1>3. CASE ~severe /\ score \in 40..69
  BY <1>3 DEF T!Tier
<1>4. CASE ~severe /\ score \in 70..84
  BY <1>4 DEF T!Tier
<1>5. CASE ~severe /\ score >= 85
  BY <1>5 DEF T!Tier
<1> QED BY <1>1, <1>2, <1>3, <1>4, <1>5

\* A recomputed row is a row, and says what its stages say.
LEMMA TrustRecomputedIs ==
  ASSUME NEW record \in TrustProfiles, TrustWorth(record.stage), NEW c \in T!Claims
  PROVE  LET new == T!Recomputed(record, c) IN
         /\ new \in TrustProfiles /\ TrustWorth(new.stage) /\ new.exists = record.exists
         /\ new.score = T!Total(new.stage)
         /\ <<new.status, new.tier>> = T!Tier(new.score, c.severe)
<1> DEFINE stage == [g \in T!Stages |-> IF g \in DOMAIN c.stage THEN c.stage[g] ELSE record.stage[g]]
           tier == T!Tier(T!Total(stage), c.severe)
<1>1. TrustWorth(stage)
  BY TrustClaimSets DEF TrustWorth, T!Stages, TrustSound
<1>2. stage \in [T!Stages -> T!Scores] /\ T!Total(stage) \in 0..98
  BY <1>1, TrustWorthIs
<1>3. c.severe \in BOOLEAN
  BY TrustClaimSets DEF TrustSound
<1>4. T!Recomputed(record, c) = [exists |-> record.exists, status |-> tier[1], tier |-> tier[2],
                            score |-> T!Total(stage), stage |-> stage]
  BY DEF T!Recomputed
<1> HIDE DEF stage
<1>5. /\ tier[1] \in {"unverified", "provisional", "verified", "restricted"}
      /\ tier[2] \in {"T0", "T1", "T2", "T3"} /\ <<tier[1], tier[2]>> = tier
  BY <1>2, <1>3, TrustTierIs
<1>6. record.exists \in BOOLEAN
  BY DEF TrustProfiles
<1> HIDE DEF tier
<1>7. T!Recomputed(record, c) \in TrustProfiles
  BY <1>2, <1>4, <1>5, <1>6 DEF TrustProfiles
<1> QED BY <1>1, <1>4, <1>5, <1>7 DEF tier

LEMMA TrustNoProfileIs == T!NoProfile \in TrustProfiles /\ TrustWorth(T!NoProfile.stage) /\ ~T!NoProfile.exists
  BY DEF T!NoProfile, TrustProfiles, TrustWorth, T!Stages, T!Scores

LEMMA TrustInitInv == T!Init => TrustIInv
<1> SUFFICES ASSUME T!Init PROVE TrustIInv
  OBVIOUS
<1>1. \A s \in Sessions : sessions[s].pc = "idle" /\ sessions[s].claim = T!NoClaim
  BY DEF T!Init, T!Idle
<1>2. last \in [overtaken : BOOLEAN, severe : BOOLEAN] /\ claims \in 0..MaxClaims
  BY TrustConstants DEF T!Init
<1> QED BY <1>1, <1>2, TrustNoProfileIs DEF T!Init, TrustIInv, T!NextOneRepairs, TrustFits

\* What an UPDATE leaves is a row again, whoever wrote the row since it was loaded.
LEMMA TrustWrittenIs ==
  ASSUME NEW new \in TrustProfiles, TrustWorth(new.stage), NEW loaded \in TrustProfiles, profile \in TrustProfiles, TrustWorth(profile.stage)
  PROVE  T!Written(new, loaded) \in TrustProfiles /\ TrustWorth(T!Written(new, loaded).stage) /\ T!Written(new, loaded).exists
<1>1. CASE ~loaded.exists
  BY <1>1 DEF T!Written, TrustProfiles
<1>2. CASE loaded.exists
  <2> DEFINE stage == [g \in T!Stages |-> T!Changed(profile.stage[g], loaded.stage[g], new.stage[g])]
  <2>1. stage \in [T!Stages -> T!Scores]
    BY DEF TrustProfiles, T!Changed
  <2>2. TrustWorth(stage)
    BY DEF TrustWorth, T!Changed, T!Stages
  <2>3. T!Written(new, loaded) =
          [exists |-> TRUE,
           status |-> T!Changed(profile.status, loaded.status, new.status),
           tier |-> T!Changed(profile.tier, loaded.tier, new.tier),
           score |-> T!Changed(profile.score, loaded.score, new.score), stage |-> stage]
    BY <1>2 DEF T!Written
  <2> HIDE DEF stage
  <2>4. /\ T!Changed(profile.status, loaded.status, new.status) \in {"unverified", "provisional", "verified", "restricted"}
        /\ T!Changed(profile.tier, loaded.tier, new.tier) \in {"T0", "T1", "T2", "T3"}
        /\ T!Changed(profile.score, loaded.score, new.score) \in 0..98
    BY DEF T!Changed, TrustProfiles
  <2> QED BY <2>1, <2>2, <2>3, <2>4 DEF TrustProfiles
<1> QED BY <1>1, <1>2

\* On the row as it was loaded an UPDATE leaves what was computed.
LEMMA TrustWrittenFresh ==
  ASSUME NEW new \in TrustProfiles, profile \in TrustProfiles, new.exists = profile.exists
  PROVE  LET record == T!Written(new, profile) IN
         record.score = new.score /\ record.stage = new.stage /\ record.status = new.status /\ record.tier = new.tier
<1>1. CASE ~profile.exists
  BY <1>1 DEF T!Written, TrustProfiles
<1>2. CASE profile.exists
  <2>1. \A x, y : T!Changed(x, x, y) = y
    BY DEF T!Changed
  <2>2. new.stage = [g \in T!Stages |-> new.stage[g]]
    BY DEF TrustProfiles
  <2>3. [g \in T!Stages |-> T!Changed(profile.stage[g], profile.stage[g], new.stage[g])] = new.stage
    BY <2>1, <2>2
  <2> QED BY <1>2, <2>1, <2>3 DEF T!Written
<1> QED BY <1>1, <1>2

\* The session that ends is idle, and the others, if a row was written, are overtaken.
LEMMA TrustEndKeeps ==
  ASSUME TrustIInv, NEW s \in Sessions, NEW wrote \in BOOLEAN, T!End(s, wrote), ~wrote => profile' = profile
  PROVE  \A t \in Sessions : TrustFits(sessions'[t], profile')
<1> SUFFICES ASSUME NEW t \in Sessions
             PROVE  TrustFits(sessions'[t], profile')
  OBVIOUS
<1>1. CASE t = s
  BY <1>1 DEF T!End, T!Idle, TrustFits
<1>2. CASE t # s /\ wrote /\ sessions[t].pc = "loaded"
  <2>1. sessions'[t] = [sessions[t] EXCEPT !.overtaken = TRUE] /\ TrustCurrent(sessions[t], profile)
    BY <1>2 DEF T!End, TrustIInv, TrustFits
  <2> QED BY <1>2, <2>1 DEF TrustCurrent, TrustIInv, TrustFits
<1>3. CASE t # s /\ ~(wrote /\ sessions[t].pc = "loaded")
  <2>1. sessions'[t] = sessions[t]
    BY <1>3 DEF T!End
  <2> QED BY <1>3, <2>1 DEF TrustCurrent, TrustIInv, TrustFits
<1> QED BY <1>1, <1>2, <1>3

LEMMA TrustLoadInv == ASSUME TrustIInv, NEW s \in Sessions, NEW claim \in T!Claims, T!Load(s, claim) PROVE TrustIInv'
<1> DEFINE m == [pc |-> "loaded", claim |-> claim, loaded |-> profile, overtaken |-> FALSE]
<1>1. profile' = profile /\ last' = last /\ claims' = claims + 1 /\ claims < MaxClaims
      /\ sessions' = [sessions EXCEPT ![s] = m]
  BY DEF T!Load
<1>2. ASSUME NEW t \in Sessions
      PROVE  TrustFits(sessions'[t], profile')
  <2>1. CASE t = s
    <3>1. m.claim \in T!Claims /\ TrustCurrent(m, profile)
      BY DEF TrustIInv, TrustFits, TrustCurrent
    <3>2. sessions'[t] = m \/ sessions'[t] = sessions[t]
      BY <1>1, <2>1
    <3>3. m.pc = "loaded"
      OBVIOUS
    <3> HIDE DEF m
    <3> QED BY <1>1, <3>1, <3>2, <3>3 DEF TrustIInv, TrustFits
  <2>2. CASE t # s
    <3>1. sessions'[t] = sessions[t]
      BY <1>1, <2>2
    <3> QED BY <1>1, <3>1 DEF TrustIInv, TrustFits, TrustCurrent
  <2> QED BY <2>1, <2>2
<1>3. claims' \in 0..MaxClaims
  BY <1>1, TrustConstants DEF TrustIInv
<1>4. T!NextOneRepairs'
  BY <1>1 DEF TrustIInv, T!NextOneRepairs
<1> QED BY <1>1, <1>2, <1>3, <1>4 DEF TrustIInv

LEMMA TrustCommitInv == ASSUME TrustIInv, NEW s \in Sessions, T!Commit(s) PROVE TrustIInv'
<1> DEFINE me == sessions[s]
           new == T!Recomputed(me.loaded, me.claim)
<1>1. /\ me.pc = "loaded" /\ (~me.loaded.exists => ~profile.exists)
      /\ profile' = T!Written(new, me.loaded)
      /\ last' = [overtaken |-> me.overtaken, severe |-> me.claim.severe] /\ claims' = claims
  BY DEF T!Commit
<1>2. /\ me.claim \in T!Claims /\ me.loaded \in TrustProfiles /\ TrustWorth(me.loaded.stage) /\ me.overtaken \in BOOLEAN
      /\ me.overtaken \/ me.loaded = profile \/ (~me.loaded.exists /\ profile.exists)
      /\ profile \in TrustProfiles /\ TrustWorth(profile.stage)
  BY <1>1 DEF TrustIInv, TrustFits, TrustCurrent
<1>3. /\ new \in TrustProfiles /\ TrustWorth(new.stage) /\ new.exists = me.loaded.exists
      /\ new.score = T!Total(new.stage) /\ <<new.status, new.tier>> = T!Tier(new.score, me.claim.severe)
  BY <1>2, TrustRecomputedIs
<1>4. profile' \in TrustProfiles /\ TrustWorth(profile'.stage) /\ profile'.exists
  BY <1>1, <1>2, <1>3, TrustWrittenIs
<1>5. me.claim.severe \in BOOLEAN
  BY <1>2, TrustClaimSets DEF TrustSound
<1>6. last' \in [overtaken : BOOLEAN, severe : BOOLEAN]
  BY <1>1, <1>2, <1>5
<1>7. T!NextOneRepairs'
  <2> SUFFICES ASSUME ~last'.overtaken
               PROVE  /\ profile'.score = T!Total(profile'.stage)
                      /\ <<profile'.status, profile'.tier>> = T!Tier(profile'.score, last'.severe)
    BY DEF T!NextOneRepairs
  <2>1. ~me.overtaken /\ last'.severe = me.claim.severe
    BY <1>1
  <2>2. me.loaded = profile
    BY <1>1, <1>2, <2>1
  <2>3. /\ profile'.score = new.score /\ profile'.stage = new.stage
        /\ profile'.status = new.status /\ profile'.tier = new.tier
    <3>1. new.exists = profile.exists /\ profile' = T!Written(new, profile)
      BY <1>1, <1>3, <2>2
    <3> HIDE DEF new
    <3> QED BY <1>2, <1>3, <3>1, TrustWrittenFresh
  <2> HIDE DEF new
  <2> QED BY <1>3, <2>1, <2>3
<1>8. \A t \in Sessions : TrustFits(sessions'[t], profile')
  BY TrustEndKeeps DEF T!Commit
<1> QED BY <1>1, <1>4, <1>6, <1>7, <1>8 DEF TrustIInv

LEMMA TrustCreateInv == ASSUME TrustIInv, NEW s \in Sessions, T!Create(s) PROVE TrustIInv'
<1>1. /\ ~profile.exists /\ profile' = [profile EXCEPT !.exists = TRUE] /\ profile = T!NoProfile
      /\ sessions' = sessions /\ claims' = claims /\ last' = last
  BY DEF T!Create, TrustIInv
<1>2. profile' \in TrustProfiles /\ TrustWorth(profile'.stage) /\ profile'.exists
  BY <1>1 DEF TrustIInv, TrustProfiles
<1>3. ASSUME NEW t \in Sessions PROVE TrustFits(sessions'[t], profile')
  BY <1>1, <1>2, <1>3 DEF TrustIInv, TrustFits, TrustCurrent
<1>4. T!NextOneRepairs'
  BY <1>1 DEF T!NextOneRepairs
<1> QED BY <1>1, <1>2, <1>3, <1>4 DEF TrustIInv

LEMMA TrustFailInv == ASSUME TrustIInv, NEW s \in Sessions, T!Fail(s) PROVE TrustIInv'
<1>1. profile' = profile /\ last' = last /\ claims' = claims /\ T!End(s, FALSE)
  BY DEF T!Fail
<1>2. \A t \in Sessions : TrustFits(sessions'[t], profile')
  BY <1>1, TrustEndKeeps
<1>3. T!NextOneRepairs'
  BY <1>1 DEF TrustIInv, T!NextOneRepairs
<1> QED BY <1>1, <1>2, <1>3 DEF TrustIInv

LEMMA TrustNextInv == TrustIInv /\ [T!Next]_(T!vars) => TrustIInv'
<1> SUFFICES ASSUME TrustIInv, [T!Next]_(T!vars) PROVE TrustIInv'
  OBVIOUS
<1>1. CASE UNCHANGED T!vars
  BY <1>1 DEF T!vars, TrustIInv, TrustCurrent, T!NextOneRepairs
<1> QED BY <1>1, TrustLoadInv, TrustCommitInv, TrustCreateInv, TrustFailInv DEF T!Next

LEMMA TrustSpecInv == T!Init /\ [][T!Next]_(T!vars) => [](T!TypeOK /\ T!NextOneRepairs)
<1>1. TrustIInv => T!TypeOK /\ T!NextOneRepairs
  BY DEF TrustIInv, TrustFits, T!TypeOK, TrustProfiles
<1> QED BY <1>1, TrustInitInv, TrustNextInv, PTL
-----------------------------------------------------------------------------
(* Publishing: a project that is at rest and published is not listed again. *)

LEMMA ShopConstants == None \notin Projects /\ None \notin Nat /\ MaxPublishes \in Nat
  BY ServicesAssumption
-----------------------------------------------------------------------------
ShopListings == [project : Projects, seller : Nat]
ShopCalls == [pc : {"idle", "find", "register", "account", "list", "mark"}, project : Projects \cup {None},
          id : Nat \cup {None}]

\* A call at work has a project, and what it has the id of is there.
ShopFits(m, as, os) ==
  /\ m.pc = "idle" => m = P!Idle
  /\ m.pc # "idle" => m.project \in Projects
  /\ m.pc \in {"account", "list"} => m.id \in DOMAIN as
  /\ m.pc = "mark" => m.id \in DOMAIN os /\ os[m.id].project = m.project

ShopTypes ==
  /\ agents \in Seq({"bare", "account"})
  /\ offers \in Seq(ShopListings) /\ \A i \in DOMAIN offers : offers[i].seller \in DOMAIN agents
  /\ projects \in [Projects -> Nat \cup {None}] /\ DOMAIN final = Projects
  /\ publishes \in [Publishes -> ShopCalls]
  /\ published \in 0..MaxPublishes

\* Every agent has its account, unless the call that registered it is about to create it or has ended.
ShopOwned(as, ps, gone) ==
  \A i \in DOMAIN as : as[i] = "account" \/ gone \/ \E p \in Publishes : ps[p].pc = "account" /\ ps[p].id = i

\* A project that was counted is published and at rest, so that nothing more is listed for it.
ShopRests(j) ==
  /\ projects[j] # None => projects[j] \in P!Offers(j)
  /\ final[j] # None => projects[j] # None /\ P!Quiet(j) /\ P!Cardinality(P!Offers(j)) = final[j]

ShopIInv ==
  /\ ShopTypes
  /\ \A p \in Publishes : ShopFits(publishes[p], agents, offers)
  /\ ShopOwned(agents, publishes, stranded)
  /\ \A j \in Projects : ShopRests(j)
-----------------------------------------------------------------------------
LEMMA ShopIdleIs == P!Idle \in ShopCalls /\ P!Idle.pc = "idle" /\ P!Idle.project = None
  BY DEF P!Idle, ShopCalls

LEMMA ShopInitInv == P!Init => ShopIInv
<1> SUFFICES ASSUME P!Init PROVE ShopIInv
  OBVIOUS
<1>1. agents \in Seq({"bare", "account"}) /\ offers \in Seq(ShopListings) /\ DOMAIN offers = {} /\ DOMAIN agents = {}
  BY DEF P!Init
<1>2. ShopTypes
  BY <1>1, ShopIdleIs, ShopConstants DEF P!Init, ShopTypes
<1>3. \A p \in Publishes : ShopFits(publishes[p], agents, offers)
  BY ShopIdleIs DEF P!Init, ShopFits
<1>4. \A j \in Projects : ShopRests(j)
  BY DEF P!Init, ShopRests
<1> QED BY <1>1, <1>2, <1>3, <1>4 DEF ShopIInv, ShopOwned

\* A step that lists nothing, publishes nothing and starts no work on a project at rest.
LEMMA ShopRestKeeps ==
  ASSUME ShopIInv, offers' = offers, projects' = projects, final' = final,
         \A p \in Publishes, j \in Projects :
           publishes'[p].project = j => publishes[p].project = j \/ projects[j] = None
  PROVE  \A j \in Projects : ShopRests(j)'
  BY DEF ShopIInv, ShopRests, P!Offers, P!Quiet

LEMMA ShopBeginInv == ASSUME ShopIInv, NEW p \in Publishes, NEW j \in Projects, P!Begin(p, j) PROVE ShopIInv'
<1> DEFINE m == [pc |-> "find", project |-> j, id |-> None]
<1>1. /\ publishes[p] = P!Idle /\ published < MaxPublishes /\ published' = published + 1
      /\ agents' = agents /\ offers' = offers /\ projects' = projects /\ stranded' = stranded /\ final' = final
      /\ publishes' = [publishes EXCEPT ![p] = IF projects[j] = None THEN m ELSE P!Idle]
  BY DEF P!Begin, P!Unpublished
<1>2. m \in ShopCalls /\ ShopFits(m, agents, offers) /\ ShopFits(P!Idle, agents, offers)
  BY ShopIdleIs DEF ShopCalls, ShopFits
<1>3. ShopTypes'
  BY <1>1, <1>2, ShopIdleIs, ShopConstants DEF ShopIInv, ShopTypes
<1>4. \A q \in Publishes : q # p => publishes'[q] = publishes[q]
  BY <1>1 DEF ShopIInv, ShopTypes
<1>5. publishes'[p] = IF projects[j] = None THEN m ELSE P!Idle
  BY <1>1 DEF ShopIInv, ShopTypes
<1>6. \A q \in Publishes : ShopFits(publishes'[q], agents', offers')
  BY <1>1, <1>2, <1>4, <1>5 DEF ShopIInv
<1>7. ShopOwned(agents', publishes', stranded')
  BY <1>1, <1>4, ShopIdleIs DEF ShopIInv, ShopOwned
<1>8. \A k \in Projects : ShopRests(k)'
  <2>1. \A q \in Publishes, k \in Projects :
           publishes'[q].project = k => publishes[q].project = k \/ projects[k] = None
    BY <1>4, <1>5, ShopIdleIs, ShopConstants
  <2> QED BY <1>1, <2>1, ShopRestKeeps
<1> QED BY <1>3, <1>6, <1>7, <1>8 DEF ShopIInv

\* A call that goes on with its project.
LEMMA ShopGoesOn ==
  ASSUME ShopIInv, NEW p \in Publishes, NEW pc \in {"register", "account", "list", "mark"}, NEW id \in Nat \cup {None},
         P!Goes(p, pc, id), publishes[p].pc # "idle"
  PROVE  /\ publishes' \in [Publishes -> ShopCalls]
         /\ publishes'[p].pc = pc /\ publishes'[p].id = id /\ publishes'[p].project = publishes[p].project
         /\ publishes[p].project \in Projects
         /\ \A q \in Publishes : q # p => publishes'[q] = publishes[q]
         /\ \A q \in Publishes : publishes'[q].project = publishes[q].project
<1>1. publishes[p].project \in Projects
  BY DEF ShopIInv, ShopFits
<1>2. [pc |-> pc, project |-> publishes[p].project, id |-> id] \in ShopCalls
  BY <1>1 DEF ShopCalls
<1> QED BY <1>1, <1>2 DEF P!Goes, ShopIInv, ShopTypes

LEMMA ShopFindInv == ASSUME ShopIInv, NEW p \in Publishes, P!Find(p) PROVE ShopIInv'
<1>1. /\ publishes[p].pc = "find" /\ agents' = agents /\ offers' = offers /\ projects' = projects
      /\ published' = published /\ stranded' = stranded /\ final' = final
  BY DEF P!Find
<1>2. PICK pc \in {"register", "list"}, id \in Nat \cup {None} : P!Goes(p, pc, id) /\ (pc = "list" => id \in DOMAIN agents)
  <2>1. CASE agents = <<>>
    BY <2>1 DEF P!Find
  <2>2. CASE agents # <<>>
    <3>1. 1 \in DOMAIN agents
      BY <2>2 DEF ShopIInv, ShopTypes
    <3> QED BY <2>2, <3>1 DEF P!Find
  <2> QED BY <2>1, <2>2
<1>3. /\ publishes' \in [Publishes -> ShopCalls]
      /\ publishes'[p].pc = pc /\ publishes'[p].id = id /\ publishes'[p].project = publishes[p].project
      /\ publishes[p].project \in Projects
      /\ \A q \in Publishes : q # p => publishes'[q] = publishes[q]
      /\ \A q \in Publishes : publishes'[q].project = publishes[q].project
  BY <1>1, <1>2, ShopGoesOn
<1>4. ShopTypes'
  BY <1>1, <1>3 DEF ShopIInv, ShopTypes
<1>5. \A q \in Publishes : ShopFits(publishes'[q], agents', offers')
  BY <1>1, <1>2, <1>3 DEF ShopIInv, ShopFits
<1>6. ShopOwned(agents', publishes', stranded')
  BY <1>1, <1>3 DEF ShopIInv, ShopOwned
<1>7. \A k \in Projects : ShopRests(k)'
  BY <1>1, <1>3, ShopRestKeeps
<1> QED BY <1>4, <1>5, <1>6, <1>7 DEF ShopIInv

LEMMA ShopRegisterInv == ASSUME ShopIInv, NEW p \in Publishes, P!Register(p) PROVE ShopIInv'
<1>1. /\ publishes[p].pc = "register" /\ agents' = Append(agents, "bare") /\ offers' = offers /\ projects' = projects
      /\ published' = published /\ stranded' = stranded /\ final' = final
      /\ P!Goes(p, "account", Len(agents'))
  BY DEF P!Register
<1>2. /\ agents' \in Seq({"bare", "account"}) /\ Len(agents') = Len(agents) + 1 /\ Len(agents) \in Nat
      /\ DOMAIN agents' = 1..Len(agents) + 1 /\ DOMAIN agents = 1..Len(agents)
      /\ \A i \in DOMAIN agents : agents'[i] = agents[i]
  BY <1>1 DEF ShopIInv, ShopTypes
<1>3. /\ publishes' \in [Publishes -> ShopCalls]
      /\ publishes'[p].pc = "account" /\ publishes'[p].id = Len(agents') /\ publishes'[p].project = publishes[p].project
      /\ publishes[p].project \in Projects
      /\ \A q \in Publishes : q # p => publishes'[q] = publishes[q]
      /\ \A q \in Publishes : publishes'[q].project = publishes[q].project
  <2>1. Len(agents') \in Nat
    BY <1>2
  <2>2. \E n \in Nat : n = Len(agents') /\ P!Goes(p, "account", n)
    BY <1>1, <2>1
  <2> QED BY <1>1, <2>2, ShopGoesOn
<1>4. ShopTypes'
  BY <1>1, <1>2, <1>3 DEF ShopIInv, ShopTypes
<1>5. \A q \in Publishes : ShopFits(publishes'[q], agents', offers')
  BY <1>1, <1>2, <1>3 DEF ShopIInv, ShopFits
<1>6. ShopOwned(agents', publishes', stranded')
  <2> SUFFICES ASSUME NEW i \in DOMAIN agents'
               PROVE  agents'[i] = "account" \/ stranded \/ \E q \in Publishes : publishes'[q].pc = "account" /\ publishes'[q].id = i
    BY <1>1 DEF ShopOwned
  <2>1. CASE i = Len(agents')
    BY <1>3, <2>1
  <2>2. CASE i # Len(agents')
    <3>1. i \in DOMAIN agents /\ agents'[i] = agents[i]
      BY <1>2, <2>2
    <3> QED BY <1>1, <1>3, <3>1 DEF ShopIInv, ShopOwned
  <2> QED BY <2>1, <2>2
<1>7. \A k \in Projects : ShopRests(k)'
  BY <1>1, <1>3, ShopRestKeeps
<1> QED BY <1>4, <1>5, <1>6, <1>7 DEF ShopIInv

LEMMA ShopAccountInv == ASSUME ShopIInv, NEW p \in Publishes, P!CreateAccount(p) PROVE ShopIInv'
<1> DEFINE n == publishes[p].id
<1>1. /\ publishes[p].pc = "account" /\ agents' = [agents EXCEPT ![n] = "account"] /\ offers' = offers
      /\ projects' = projects /\ published' = published /\ stranded' = stranded /\ final' = final
      /\ P!Goes(p, "list", n)
  BY DEF P!CreateAccount
<1>2. n \in DOMAIN agents
  BY <1>1 DEF ShopIInv, ShopFits
<1>3. /\ agents' \in Seq({"bare", "account"}) /\ DOMAIN agents' = DOMAIN agents /\ agents'[n] = "account" /\ n \in Nat
      /\ \A i \in DOMAIN agents : i # n => agents'[i] = agents[i]
  BY <1>1, <1>2 DEF ShopIInv, ShopTypes
<1>4. /\ publishes' \in [Publishes -> ShopCalls]
      /\ publishes'[p].pc = "list" /\ publishes'[p].id = n /\ publishes'[p].project = publishes[p].project
      /\ publishes[p].project \in Projects
      /\ \A q \in Publishes : q # p => publishes'[q] = publishes[q]
      /\ \A q \in Publishes : publishes'[q].project = publishes[q].project
  BY <1>1, <1>3, ShopGoesOn
<1>5. ShopTypes'
  BY <1>1, <1>3, <1>4 DEF ShopIInv, ShopTypes
<1>6. \A q \in Publishes : ShopFits(publishes'[q], agents', offers')
  BY <1>1, <1>2, <1>3, <1>4 DEF ShopIInv, ShopFits
<1>7. ShopOwned(agents', publishes', stranded')
  <2> SUFFICES ASSUME NEW i \in DOMAIN agents, i # n
               PROVE  agents'[i] = "account" \/ stranded \/ \E q \in Publishes : publishes'[q].pc = "account" /\ publishes'[q].id = i
    BY <1>1, <1>3 DEF ShopOwned
  <2>1. agents[i] = "account" \/ stranded \/ \E q \in Publishes : publishes[q].pc = "account" /\ publishes[q].id = i
    BY DEF ShopIInv, ShopOwned
  <2> QED BY <1>3, <1>4, <2>1
<1>8. \A k \in Projects : ShopRests(k)'
  BY <1>1, <1>4, ShopRestKeeps
<1> QED BY <1>5, <1>6, <1>7, <1>8 DEF ShopIInv

LEMMA ShopListInv == ASSUME ShopIInv, NEW p \in Publishes, P!List(p) PROVE ShopIInv'
<1> DEFINE o == [project |-> publishes[p].project, seller |-> publishes[p].id]
<1>1. /\ publishes[p].pc = "list" /\ agents' = agents /\ offers' = Append(offers, o)
      /\ projects' = projects /\ published' = published /\ stranded' = stranded /\ final' = final
      /\ P!Goes(p, "mark", Len(offers'))
  BY DEF P!List
<1>2. publishes[p].id \in DOMAIN agents /\ publishes[p].project \in Projects
  BY <1>1 DEF ShopIInv, ShopFits
<1>3. o \in ShopListings /\ o.seller \in DOMAIN agents /\ o.project = publishes[p].project
  BY <1>2 DEF ShopListings, ShopIInv, ShopTypes
<1> HIDE DEF o
<1>4. /\ offers' \in Seq(ShopListings) /\ Len(offers') = Len(offers) + 1 /\ Len(offers) \in Nat
      /\ DOMAIN offers' = 1..Len(offers) + 1 /\ DOMAIN offers = 1..Len(offers)
      /\ \A i \in DOMAIN offers : offers'[i] = offers[i]
      /\ offers'[Len(offers')] = o
  BY <1>1, <1>3 DEF ShopIInv, ShopTypes
<1>5. /\ publishes' \in [Publishes -> ShopCalls]
      /\ publishes'[p].pc = "mark" /\ publishes'[p].id = Len(offers') /\ publishes'[p].project = publishes[p].project
      /\ publishes[p].project \in Projects
      /\ \A q \in Publishes : q # p => publishes'[q] = publishes[q]
      /\ \A q \in Publishes : publishes'[q].project = publishes[q].project
  <2>1. \E n \in Nat : n = Len(offers') /\ P!Goes(p, "mark", n)
    BY <1>1, <1>4
  <2> QED BY <1>1, <2>1, ShopGoesOn
<1>6. ShopTypes'
  <2>1. \A i \in DOMAIN offers' : offers'[i].seller \in DOMAIN agents
    <3> SUFFICES ASSUME NEW i \in DOMAIN offers' PROVE offers'[i].seller \in DOMAIN agents
      OBVIOUS
    <3>1. i = Len(offers') \/ i \in DOMAIN offers
      BY <1>4
    <3> QED BY <1>3, <1>4, <3>1 DEF ShopIInv, ShopTypes
  <2> QED BY <1>1, <1>4, <1>5, <2>1 DEF ShopIInv, ShopTypes
<1>7. \A q \in Publishes : ShopFits(publishes'[q], agents', offers')
  <2> SUFFICES ASSUME NEW q \in Publishes PROVE ShopFits(publishes'[q], agents', offers')
    OBVIOUS
  <2>1. CASE q = p
    <3>1. Len(offers') \in DOMAIN offers'
      BY <1>4
    <3> QED BY <1>3, <1>4, <1>5, <2>1, <3>1 DEF ShopFits
  <2>2. CASE q # p
    <3>1. ShopFits(publishes[q], agents, offers) /\ publishes'[q] = publishes[q]
      BY <1>5, <2>2 DEF ShopIInv
    <3> QED BY <1>1, <1>4, <3>1 DEF ShopFits
  <2> QED BY <2>1, <2>2
<1>8. ShopOwned(agents', publishes', stranded')
  BY <1>1, <1>5 DEF ShopIInv, ShopOwned
<1>9. ASSUME NEW j \in Projects PROVE ShopRests(j)'
  <2>1. P!Offers(j) \subseteq P!Offers(j)' /\ (j # publishes[p].project => P!Offers(j)' = P!Offers(j))
    <3>1. \A i \in DOMAIN offers' : i = Len(offers') \/ i \in DOMAIN offers
      BY <1>4
    <3>2. DOMAIN offers \subseteq DOMAIN offers'
      BY <1>4
    <3> QED BY <1>3, <1>4, <3>1, <3>2 DEF P!Offers
  <2>2. ShopRests(j) /\ P!Quiet(j)' = P!Quiet(j)
    BY <1>5 DEF ShopIInv, P!Quiet
  <2>3. final[j] # None => j # publishes[p].project
    BY <2>2 DEF ShopRests, P!Quiet
  <2> QED BY <1>1, <2>1, <2>2, <2>3 DEF ShopRests
<1> QED BY <1>6, <1>7, <1>8, <1>9 DEF ShopIInv

\* What a call that ends leaves, when its project refers at most to a listing of its own.
LEMMA ShopEndsInv ==
  ASSUME ShopIInv, NEW p \in Publishes, publishes[p].pc # "idle", P!Ends(p), offers' = offers, agents' = agents,
         published' = published, ShopOwned(agents', publishes', stranded'), projects' \in [Projects -> Nat \cup {None}],
         \A j \in Projects : projects'[j] = projects[j] \/ (j = publishes[p].project /\ projects'[j] \in P!Offers(j)),
         \A j \in Projects : projects'[j] = None => projects[j] = None
  PROVE  ShopIInv'
<1>1. /\ publishes' \in [Publishes -> ShopCalls] /\ publishes'[p] = P!Idle
      /\ \A q \in Publishes : q # p => publishes'[q] = publishes[q]
  BY ShopIdleIs DEF P!Ends, ShopIInv, ShopTypes
<1>2. DOMAIN final' = Projects
  BY DEF P!Ends
<1>3. ShopTypes'
  BY <1>1, <1>2 DEF ShopIInv, ShopTypes
<1>4. \A q \in Publishes : ShopFits(publishes'[q], agents', offers')
  BY <1>1, ShopIdleIs DEF ShopIInv, ShopFits
<1>5. ASSUME NEW j \in Projects PROVE ShopRests(j)'
  <2>1. P!Offers(j)' = P!Offers(j) /\ ShopRests(j) /\ (P!Quiet(j) => P!Quiet(j)')
    BY <1>1, ShopIdleIs, ShopConstants DEF P!Offers, ShopIInv, P!Quiet
  <2>2. projects'[j] # None => projects'[j] \in P!Offers(j)
    BY <2>1 DEF ShopRests
  <2>3. final'[j] = IF final[j] = None /\ projects'[j] # None /\ P!Quiet(j)' THEN P!Cardinality(P!Offers(j)) ELSE final[j]
    BY DEF P!Ends
  <2> QED BY <2>1, <2>2, <2>3 DEF ShopRests
<1> QED BY <1>3, <1>4, <1>5 DEF ShopIInv

LEMMA ShopMarkInv == ASSUME ShopIInv, NEW p \in Publishes, P!Mark(p) PROVE ShopIInv'
<1>1. /\ publishes[p].pc = "mark" /\ projects' = [projects EXCEPT ![publishes[p].project] = publishes[p].id]
      /\ P!Ends(p) /\ agents' = agents /\ offers' = offers /\ published' = published /\ stranded' = stranded
  BY DEF P!Mark
<1>2. /\ publishes[p].project \in Projects /\ publishes[p].id \in DOMAIN offers
      /\ publishes[p].id \in P!Offers(publishes[p].project)
  BY <1>1 DEF ShopIInv, ShopFits, P!Offers
<1>3. \A j \in Projects : projects'[j] = projects[j] \/ (j = publishes[p].project /\ projects'[j] \in P!Offers(j))
  BY <1>1, <1>2 DEF ShopIInv, ShopTypes
<1>4. \A j \in Projects : projects'[j] = None => projects[j] = None
  BY <1>1, <1>2, ShopConstants DEF ShopIInv, ShopTypes
<1>5. ShopOwned(agents, publishes', stranded)
  BY <1>1 DEF ShopIInv, ShopTypes, ShopOwned, P!Ends
<1>6. projects' \in [Projects -> Nat \cup {None}]
  BY <1>1, <1>2 DEF ShopIInv, ShopTypes
<1> QED BY <1>1, <1>3, <1>4, <1>5, <1>6, ShopEndsInv

LEMMA ShopFailInv == ASSUME ShopIInv, NEW p \in Publishes, P!Fail(p) PROVE ShopIInv'
<1>1. /\ publishes[p] # P!Idle /\ stranded' = (stranded \/ publishes[p].pc = "account")
      /\ projects' = projects /\ P!Ends(p) /\ agents' = agents /\ offers' = offers /\ published' = published
  BY DEF P!Fail
<1>2. ShopOwned(agents', publishes', stranded')
  BY <1>1 DEF ShopIInv, ShopTypes, ShopOwned, P!Ends
<1>3. projects' \in [Projects -> Nat \cup {None}]
  BY <1>1 DEF ShopIInv, ShopTypes
<1>4. CASE publishes[p].pc # "idle"
  BY <1>1, <1>2, <1>3, <1>4, ShopEndsInv
<1>5. CASE publishes[p].pc = "idle"
  BY <1>1, <1>5 DEF ShopIInv, ShopFits
<1> QED BY <1>4, <1>5

LEMMA ShopNextInv == ShopIInv /\ [P!Next]_(P!vars) => ShopIInv'
<1> SUFFICES ASSUME ShopIInv, [P!Next]_(P!vars) PROVE ShopIInv'
  OBVIOUS
<1>1. CASE UNCHANGED P!vars
  BY <1>1 DEF P!vars, ShopIInv, ShopTypes, ShopRests, P!Offers, P!Quiet
<1> QED BY <1>1, ShopBeginInv, ShopFindInv, ShopRegisterInv, ShopAccountInv, ShopListInv, ShopMarkInv, ShopFailInv DEF P!Next

LEMMA ShopSpecInv == P!Init /\ [][P!Next]_(P!vars) => [](P!TypeOK /\ P!ListedForGood)
<1>1. ShopIInv => P!TypeOK
  <2> SUFFICES ASSUME ShopIInv PROVE P!TypeOK
    OBVIOUS
  <2>1. \A i \in DOMAIN offers : offers[i].project \in Projects /\ offers[i].seller \in DOMAIN agents
    <3> SUFFICES ASSUME NEW i \in DOMAIN offers PROVE offers[i].project \in Projects /\ offers[i].seller \in DOMAIN agents
      OBVIOUS
    <3>1. offers \in Seq(ShopListings) /\ offers[i].seller \in DOMAIN agents
      BY DEF ShopIInv, ShopTypes
    <3>2. offers[i] \in ShopListings
      BY <3>1
    <3> QED BY <3>1, <3>2 DEF ShopListings
  <2>2. projects \in [Projects -> DOMAIN offers \cup {None}]
    <3>1. \A j \in Projects : projects[j] = None \/ projects[j] \in DOMAIN offers
      BY DEF ShopIInv, ShopRests, P!Offers
    <3>2. projects \in [Projects -> Nat \cup {None}]
      BY DEF ShopIInv, ShopTypes
    <3> QED BY <3>1, <3>2
  <2> QED BY <2>1, <2>2 DEF ShopIInv, ShopTypes, P!TypeOK
<1>2. ShopIInv => P!ListedForGood
  BY DEF ShopIInv, ShopTypes, ShopRests, ShopOwned, P!ListedForGood
<1> QED BY <1>1, <1>2, ShopInitInv, ShopNextInv, PTL
-----------------------------------------------------------------------------
(* Snapshots: the root says what the chunks are. *)

LEMMA SnapshotsConstants == MaxFaults \in Nat /\ MaxVerifies \in Nat
  BY ServicesAssumption
-----------------------------------------------------------------------------
(* The levels of a tree exist: approximations of the recursive function. *)

SnapshotsBelow(f, n, h) == f = [k \in 0..n |-> IF k = 0 THEN h ELSE S!Above(f[k - 1])]

LEMMA SnapshotsBelowExists == ASSUME NEW h PROVE \A n \in Nat : \E f : SnapshotsBelow(f, n, h)
<1> DEFINE Some == {n \in Nat : \E f : SnapshotsBelow(f, n, h)}
<1>1. 0 \in Some
  <2>1. SnapshotsBelow([k \in 0..0 |-> h], 0, h)
    BY DEF SnapshotsBelow
  <2> QED BY <2>1
<1>2. ASSUME NEW n \in Some PROVE n + 1 \in Some
  <2>1. PICK f : SnapshotsBelow(f, n, h)
    BY <1>2
  <2> DEFINE g == [k \in 0..n + 1 |-> IF k = n + 1 THEN S!Above(f[n]) ELSE f[k]]
  <2>2. ASSUME NEW k \in 0..n + 1 PROVE g[k] = IF k = 0 THEN h ELSE S!Above(g[k - 1])
    <3>1. CASE k = 0
      BY <2>1, <3>1 DEF SnapshotsBelow
    <3>2. CASE k = n + 1
      <4>1. k # 0 /\ k - 1 = n /\ n \in 0..n + 1 /\ n # n + 1
        BY <3>2
      <4> QED BY <3>2, <4>1
    <3>3. CASE k # 0 /\ k # n + 1
      <4>1. k \in 0..n /\ k - 1 \in 0..n + 1 /\ k - 1 # n + 1
        BY <3>3
      <4>2. f[k] = S!Above(f[k - 1])
        BY <2>1, <3>3, <4>1 DEF SnapshotsBelow
      <4> QED BY <3>3, <4>1, <4>2
    <3> QED BY <3>1, <3>2, <3>3
  <2>3. g = [k \in 0..n + 1 |-> g[k]]
    OBVIOUS
  <2> HIDE DEF g
  <2>4. g = [k \in 0..n + 1 |-> IF k = 0 THEN h ELSE S!Above(g[k - 1])]
    BY <2>2, <2>3
  <2>5. SnapshotsBelow(g, n + 1, h)
    BY <2>4 DEF SnapshotsBelow
  <2>6. n + 1 \in Nat
    BY <1>2
  <2> QED BY <2>5, <2>6
<1> HIDE DEF Some
<1>3. \A n \in Nat : n \in Some
  <2>1. Some \in SUBSET Nat
    BY DEF Some
  <2> QED BY <1>1, <1>2, <2>1, NumberInduction
<1> QED BY <1>3 DEF Some

LEMMA SnapshotsBelowUnique ==
  ASSUME NEW h, NEW f, NEW g, NEW n \in Nat, NEW m \in Nat, SnapshotsBelow(f, n, h), SnapshotsBelow(g, m, h)
  PROVE  \A k \in Nat : k <= n /\ k <= m => f[k] = g[k]
<1> DEFINE Some == {k \in Nat : k <= n /\ k <= m => f[k] = g[k]}
<1>1. 0 \in Some
  BY DEF SnapshotsBelow
<1>2. ASSUME NEW k \in Some PROVE k + 1 \in Some
  <2>1. CASE k + 1 <= n /\ k + 1 <= m
    <3>1. k + 1 \in 0..n /\ k + 1 \in 0..m /\ (k + 1) - 1 = k /\ k + 1 # 0 /\ f[k] = g[k]
      BY <2>1
    <3>2. f[k + 1] = S!Above(f[k]) /\ g[k + 1] = S!Above(g[k])
      BY <3>1 DEF SnapshotsBelow
    <3> QED BY <3>1, <3>2
  <2>2. CASE ~(k + 1 <= n /\ k + 1 <= m)
    BY <2>2
  <2> QED BY <2>1, <2>2
<1> HIDE DEF Some
<1>3. \A k \in Nat : k \in Some
  <2>1. Some \in SUBSET Nat
    BY DEF Some
  <2> QED BY <1>1, <1>2, <2>1, NumberInduction
<1> QED BY <1>3 DEF Some

SnapshotsClimbs(g, h) == g = [k \in Nat |-> IF k = 0 THEN h ELSE S!Above(g[k - 1])]

LEMMA SnapshotsLevelsUnfold ==
  ASSUME NEW h
  PROVE  S!Levels(h)[0] = h /\ \A k \in Nat : S!Levels(h)[k + 1] = S!Above(S!Levels(h)[k])
<1> DEFINE Tower(n) == CHOOSE f : SnapshotsBelow(f, n, h)
           g == [k \in Nat |-> Tower(k)[k]]
<1>1. \A n \in Nat : SnapshotsBelow(Tower(n), n, h)
  BY SnapshotsBelowExists
<1>2. ASSUME NEW k \in Nat PROVE g[k] = IF k = 0 THEN h ELSE S!Above(g[k - 1])
  <2>1. SnapshotsBelow(Tower(k), k, h) /\ k \in 0..k
    BY <1>1
  <2>2. CASE k = 0
    BY <2>1, <2>2 DEF SnapshotsBelow
  <2>3. CASE k # 0
    <3>1. k - 1 \in Nat /\ k - 1 <= k /\ k - 1 <= k - 1
      BY <2>3
    <3>2. SnapshotsBelow(Tower(k - 1), k - 1, h)
      BY <1>1, <3>1
    <3> HIDE DEF Tower
    <3>3. Tower(k)[k - 1] = Tower(k - 1)[k - 1]
      BY <2>1, <3>1, <3>2, SnapshotsBelowUnique
    <3>4. Tower(k)[k] = S!Above(Tower(k)[k - 1])
      BY <2>1, <2>3 DEF SnapshotsBelow
    <3> QED BY <2>3, <3>1, <3>3, <3>4
  <2> QED BY <2>2, <2>3
<1>3. SnapshotsClimbs(g, h)
  <2>1. g = [k \in Nat |-> g[k]]
    OBVIOUS
  <2> HIDE DEF g
  <2> QED BY <1>2, <2>1 DEF SnapshotsClimbs
<1>4. S!Levels(h) = CHOOSE f : SnapshotsClimbs(f, h)
  BY DEF S!Levels, SnapshotsClimbs
<1> HIDE DEF g
<1>5. SnapshotsClimbs(S!Levels(h), h)
  BY <1>3, <1>4
<1>6. ASSUME NEW k \in Nat PROVE S!Levels(h)[k + 1] = S!Above(S!Levels(h)[k])
  <2>1. k + 1 \in Nat /\ k + 1 # 0 /\ (k + 1) - 1 = k
    OBVIOUS
  <2> QED BY <1>5, <2>1 DEF SnapshotsClimbs
<1> QED BY <1>5, <1>6 DEF SnapshotsClimbs
-----------------------------------------------------------------------------
(* What a level is made of. *)

SnapshotsLevel(s) == s = [i \in 1..Len(s) |-> s[i]] /\ Len(s) \in Nat \ {0}

LEMMA SnapshotsLevelLen == ASSUME NEW s, SnapshotsLevel(s) PROVE Len(s) \in Nat /\ Len(s) >= 1
<1>1. Len(s) \in Nat \ {0}
  BY DEF SnapshotsLevel
<1> HIDE DEF SnapshotsLevel
<1> QED BY <1>1

\* A function on 1..n is a sequence of length n.
LEMMA SnapshotsLengthIs == ASSUME NEW n \in Nat, NEW f, f = [i \in 1..n |-> f[i]] PROVE Len(f) = n
<1>1. f \in Seq({f[i] : i \in 1..n})
  OBVIOUS
<1>2. Len(f) \in Nat /\ DOMAIN f = 1..Len(f)
  BY <1>1
<1>3. DOMAIN f = 1..n
  OBVIOUS
<1> QED BY <1>2, <1>3

\* The hashes a node is made of.
LEMMA SnapshotsParts == \A l, r : S!Pair(l, r).sha256.left = l /\ S!Pair(l, r).sha256.right = r
  BY DEF S!Pair, S!Hash, S!Digits

LEMMA SnapshotsAboveIs ==
  ASSUME NEW s, SnapshotsLevel(s)
  PROVE  /\ SnapshotsLevel(S!Above(s)) /\ Len(S!Above(s)) = (Len(s) + 1) \div 2
         /\ \A i \in 1..Len(S!Above(s)) :
              /\ 2 * i - 1 \in 1..Len(s)
              /\ S!Above(s)[i] = S!Pair(s[2 * i - 1], IF 2 * i <= Len(s) THEN s[2 * i] ELSE s[2 * i - 1])
<1> DEFINE n == (Len(s) + 1) \div 2
           Halves(i) == S!Pair(s[2 * i - 1], IF 2 * i <= Len(s) THEN s[2 * i] ELSE s[2 * i - 1])
<1>1. Len(s) \in Nat /\ Len(s) >= 1 /\ n \in Nat /\ n >= 1 /\ 2 * n <= Len(s) + 1
  BY DEF SnapshotsLevel
<1>2. S!Above(s) = [i \in 1..n |-> Halves(i)]
  BY DEF S!Above
<1>3. \A i \in 1..n : 2 * i - 1 \in 1..Len(s)
  BY <1>1
<1> HIDE DEF n, Halves
<1>4. S!Above(s) = [i \in 1..n |-> S!Above(s)[i]]
  BY <1>2
<1>5. Len(S!Above(s)) = n
  BY <1>1, <1>4, SnapshotsLengthIs
<1> QED BY <1>1, <1>2, <1>3, <1>4, <1>5 DEF SnapshotsLevel, n, Halves

LEMMA SnapshotsLevelsAre == ASSUME NEW h, SnapshotsLevel(h) PROVE \A k \in Nat : SnapshotsLevel(S!Levels(h)[k])
<1> DEFINE Some == {k \in Nat : SnapshotsLevel(S!Levels(h)[k])}
<1>1. 0 \in Some
  BY SnapshotsLevelsUnfold
<1>2. ASSUME NEW k \in Some PROVE k + 1 \in Some
  BY SnapshotsLevelsUnfold, SnapshotsAboveIs
<1> HIDE DEF Some
<1>3. \A k \in Nat : k \in Some
  <2>1. Some \in SUBSET Nat
    BY DEF Some
  <2> QED BY <1>1, <1>2, <2>1, NumberInduction
<1> QED BY <1>3 DEF Some

\* Below a level of more than one node there are more nodes, so the loop ends.
LEMMA SnapshotsLevelsShrink ==
  ASSUME NEW h, SnapshotsLevel(h)
  PROVE  \A k \in Nat : (\A m \in 0..k - 1 : Len(S!Levels(h)[m]) > 1) => Len(S!Levels(h)[k]) + k <= Len(h)
<1> DEFINE Some == {k \in Nat : (\A m \in 0..k - 1 : Len(S!Levels(h)[m]) > 1) => Len(S!Levels(h)[k]) + k <= Len(h)}
<1>1. 0 \in Some
  BY SnapshotsLevelsUnfold DEF SnapshotsLevel
<1>2. ASSUME NEW k \in Some PROVE k + 1 \in Some
  <2>1. k \in Nat /\ k + 1 \in Nat /\ k \in 0..(k + 1) - 1 /\ 0..k - 1 \subseteq 0..(k + 1) - 1
    BY <1>2
  <2>2. ASSUME \A m \in 0..(k + 1) - 1 : Len(S!Levels(h)[m]) > 1
        PROVE  Len(S!Levels(h)[k + 1]) + (k + 1) <= Len(h)
    <3>1. Len(S!Levels(h)[k]) > 1
      BY <2>1, <2>2
    <3>2. Len(S!Levels(h)[k]) + k <= Len(h)
      BY <1>2, <2>1, <2>2
    <3>3. SnapshotsLevel(S!Levels(h)[k])
      BY <2>1, SnapshotsLevelsAre
    <3>4. Len(S!Levels(h)[k]) \in Nat /\ Len(h) \in Nat
      BY <3>3, SnapshotsLevelLen
    <3>5. Len(S!Levels(h)[k + 1]) = (Len(S!Levels(h)[k]) + 1) \div 2
      BY <2>1, <3>3, SnapshotsLevelsUnfold, SnapshotsAboveIs
    <3>6. PICK l : l = Len(S!Levels(h)[k])
      OBVIOUS
    <3>7. PICK n : n = Len(S!Levels(h)[k + 1])
      OBVIOUS
    <3>8. PICK w : w = Len(h)
      OBVIOUS
    <3>9. l \in Nat /\ w \in Nat /\ l > 1 /\ l + k <= w /\ n = (l + 1) \div 2
      BY <3>1, <3>2, <3>4, <3>5, <3>6, <3>7, <3>8
    <3>10. n + (k + 1) <= w
      BY <2>1, <3>9
    <3> QED BY <3>7, <3>8, <3>10
  <2> QED BY <2>1, <2>2
<1> HIDE DEF Some
<1>3. \A k \in Nat : k \in Some
  <2>1. Some \in SUBSET Nat
    BY DEF Some
  <2> QED BY <1>1, <1>2, <2>1, NumberInduction
<1> QED BY <1>3 DEF Some

\* There is a first level of one node, and the root is that node.
LEMMA SnapshotsTopIs ==
  ASSUME NEW h, SnapshotsLevel(h)
  PROVE  \E k \in Nat : /\ Len(S!Levels(h)[k]) = 1 /\ S!Top(h) = S!Levels(h)[k][1]
                        /\ \A m \in 0..k - 1 : Len(S!Levels(h)[m]) > 1
<1> DEFINE First(k) == Len(S!Levels(h)[k]) = 1 /\ \A m \in 0..k - 1 : Len(S!Levels(h)[m]) > 1
<1>1. \A k \in Nat : Len(S!Levels(h)[k]) \in Nat /\ Len(S!Levels(h)[k]) >= 1
  BY SnapshotsLevelsAre, SnapshotsLevelLen
<1>2. Len(h) \in Nat
  BY SnapshotsLevelLen
<1>3. \E k \in 0..Len(h) : First(k)
  <2> SUFFICES ASSUME \A k \in 0..Len(h) : ~First(k) PROVE FALSE
    OBVIOUS
  <2> DEFINE Some == {k \in Nat : k <= Len(h) + 1 => \A m \in 0..k - 1 : Len(S!Levels(h)[m]) > 1}
  <2>1. 0 \in Some
    OBVIOUS
  <2>2. ASSUME NEW k \in Some PROVE k + 1 \in Some
    <3> SUFFICES ASSUME k + 1 <= Len(h) + 1, NEW m \in 0..(k + 1) - 1 PROVE Len(S!Levels(h)[m]) > 1
      OBVIOUS
    <3>1. k \in 0..Len(h) /\ \A i \in 0..k - 1 : Len(S!Levels(h)[i]) > 1
      BY <1>2, <2>2
    <3>2. Len(S!Levels(h)[k]) # 1
      BY <3>1
    <3>3. Len(S!Levels(h)[k]) > 1
      <4>1. k \in Nat
        BY <3>1, <1>2
      <4>2. Len(S!Levels(h)[k]) \in Nat /\ Len(S!Levels(h)[k]) >= 1
        BY <1>1, <4>1
      <4>3. PICK l : l = Len(S!Levels(h)[k])
        OBVIOUS
      <4>4. l \in Nat /\ l >= 1 /\ l # 1
        BY <3>2, <4>2, <4>3
      <4>5. l > 1
        BY <4>4
      <4> QED BY <4>3, <4>5
    <3>4. m = k \/ m \in 0..k - 1
      BY <3>1
    <3> QED BY <3>1, <3>3, <3>4
  <2> HIDE DEF Some
  <2>3. \A k \in Nat : k \in Some
    <3>1. Some \in SUBSET Nat
      BY DEF Some
    <3> QED BY <2>1, <2>2, <3>1, NumberInduction
  <2>4. \A m \in 0..(Len(h) + 1) - 1 : Len(S!Levels(h)[m]) > 1
    BY <1>2, <2>3 DEF Some
  <2>5. \A m \in 0..Len(h) - 1 : Len(S!Levels(h)[m]) > 1
    BY <1>2, <2>4
  <2>6. Len(S!Levels(h)[Len(h)]) + Len(h) <= Len(h)
    BY <1>2, <2>5, SnapshotsLevelsShrink
  <2> QED BY <1>1, <1>2, <2>6
<1>4. S!Top(h) = S!Levels(h)[CHOOSE k \in 0..Len(h) : First(k)][1]
  BY DEF S!Top
<1> DEFINE top == CHOOSE k \in 0..Len(h) : First(k)
<1>5. top \in 0..Len(h) /\ First(top)
  BY <1>3
<1>6. top \in Nat
  BY <1>2, <1>5
<1> QED BY <1>4, <1>5, <1>6
-----------------------------------------------------------------------------
(* From equal roots to equal leaves. *)

\* The first nodes of a tree are each the left part of the one above.
LEMMA SnapshotsLeftmost ==
  ASSUME NEW h, SnapshotsLevel(h), NEW k \in Nat
  PROVE  /\ S!Levels(h)[k + 1][1].sha256.left = S!Levels(h)[k][1]
         /\ \E r : S!Levels(h)[k + 1][1] = S!Pair(S!Levels(h)[k][1], r)
<1> DEFINE s == S!Levels(h)[k]
<1>1. SnapshotsLevel(s) /\ S!Levels(h)[k + 1] = S!Above(s)
  BY SnapshotsLevelsAre, SnapshotsLevelsUnfold
<1> HIDE DEF s
<1>2. SnapshotsLevel(S!Above(s)) /\ \A i \in 1..Len(S!Above(s)) :
        S!Above(s)[i] = S!Pair(s[2 * i - 1], IF 2 * i <= Len(s) THEN s[2 * i] ELSE s[2 * i - 1])
  BY <1>1, SnapshotsAboveIs
<1>3. 1 \in 1..Len(S!Above(s)) /\ 2 * 1 - 1 = 1
  BY <1>2, SnapshotsLevelLen
<1>4. \E r : S!Above(s)[1] = S!Pair(s[1], r)
  BY <1>2, <1>3
<1>5. S!Above(s)[1].sha256.left = s[1]
  BY <1>4 DEF S!Pair, S!Hash, S!Digits
<1> QED BY <1>1, <1>4, <1>5 DEF s

\* The hashes of chunks: each of the JSON of a list of records.
SnapshotsLeaves(h) == \A i \in 1..Len(h) : \E c : h[i] = S!Hash(S!Json(c))

\* The JSON of a list is not the digits of two hashes.
LEMMA SnapshotsListIsNoPair == ASSUME NEW c, NEW l, NEW r PROVE S!Hash(S!Json(c)) # S!Pair(l, r)
<1>1. DOMAIN S!Json(c) = {"list"} /\ DOMAIN S!Digits(l, r) = {"left", "right"}
  BY DEF S!Json, S!Digits
<1>2. S!Json(c) # S!Digits(l, r)
  BY <1>1
<1>3. S!Hash(S!Json(c)).sha256 = S!Json(c) /\ S!Pair(l, r).sha256 = S!Digits(l, r)
  BY DEF S!Hash, S!Pair
<1> QED BY <1>2, <1>3, Zenon

\* A tree is no part of a higher one: at its bottom there would be a pair for a leaf.
LEMMA SnapshotsNotHigher ==
  ASSUME NEW g, NEW h, SnapshotsLevel(g), SnapshotsLevel(h), SnapshotsLeaves(g), NEW d \in Nat
  PROVE  \A k \in Nat : S!Levels(g)[k][1] # S!Levels(h)[k + d + 1][1]
<1> DEFINE Some == {k \in Nat : S!Levels(g)[k][1] # S!Levels(h)[k + d + 1][1]}
<1>1. 0 \in Some
  <2>1. 1 \in 1..Len(g)
    BY SnapshotsLevelLen
  <2>2. PICK c : g[1] = S!Hash(S!Json(c))
    BY <2>1 DEF SnapshotsLeaves
  <2>3. PICK r : S!Levels(h)[d + 1][1] = S!Pair(S!Levels(h)[d][1], r)
    BY SnapshotsLeftmost
  <2>4. PICK l : l = S!Levels(h)[d][1]
    OBVIOUS
  <2>5. S!Hash(S!Json(c)) # S!Pair(l, r)
    BY SnapshotsListIsNoPair
  <2>6. S!Levels(g)[0][1] # S!Levels(h)[d + 1][1]
    BY <2>2, <2>3, <2>4, <2>5, SnapshotsLevelsUnfold
  <2>7. 0 + d + 1 = d + 1
    OBVIOUS
  <2> QED BY <2>6, <2>7
<1>2. ASSUME NEW k \in Some PROVE k + 1 \in Some
  <2>1. k \in Nat /\ k + 1 \in Nat /\ k + d + 1 \in Nat /\ (k + 1) + d + 1 = (k + d + 1) + 1
    BY <1>2
  <2>2. S!Levels(g)[k][1] # S!Levels(h)[k + d + 1][1]
    BY <1>2
  <2>3. S!Levels(g)[k + 1][1].sha256.left = S!Levels(g)[k][1]
    BY <2>1, SnapshotsLeftmost
  <2>4. S!Levels(h)[(k + d + 1) + 1][1].sha256.left = S!Levels(h)[k + d + 1][1]
    BY <2>1, SnapshotsLeftmost
  <2>5. S!Levels(g)[k + 1][1] # S!Levels(h)[(k + 1) + d + 1][1]
    BY <2>1, <2>2, <2>3, <2>4
  <2> QED BY <2>1, <2>5
<1> HIDE DEF Some
<1>3. \A k \in Nat : k \in Some
  <2>1. Some \in SUBSET Nat
    BY DEF Some
  <2> QED BY <1>1, <1>2, <2>1, NumberInduction
<1> QED BY <1>3 DEF Some

\* Two levels that differ at most in how often their end is there.
SnapshotsAgree(a, b) == (\A i \in 1..Len(a) : i <= Len(b) => a[i] = b[i]) /\ S!Range(a) = S!Range(b)

LEMMA SnapshotsParent ==
  ASSUME NEW n \in Nat, NEW j \in 1..n
  PROVE  \E i \in 1..((n + 1) \div 2) : j = 2 * i - 1 \/ (j = 2 * i /\ 2 * i <= n)
<1> DEFINE i == (j + 1) \div 2
<1>1. i \in Nat /\ i >= 1 /\ i <= (n + 1) \div 2 /\ (j = 2 * i - 1 \/ j = 2 * i)
  OBVIOUS
<1> QED BY <1>1

\* What a level has are the parts of what the one above has.
LEMMA SnapshotsRangeDown ==
  ASSUME NEW s, SnapshotsLevel(s)
  PROVE  /\ \A x \in S!Range(s) : \E q \in S!Range(S!Above(s)) : x = q.sha256.left \/ x = q.sha256.right
         /\ \A q \in S!Range(S!Above(s)) : q.sha256.left \in S!Range(s) /\ q.sha256.right \in S!Range(s)
<1> DEFINE u == S!Above(s)
<1>1. /\ SnapshotsLevel(u) /\ Len(u) = (Len(s) + 1) \div 2
      /\ \A i \in 1..Len(u) : /\ 2 * i - 1 \in 1..Len(s)
                             /\ u[i] = S!Pair(s[2 * i - 1], IF 2 * i <= Len(s) THEN s[2 * i] ELSE s[2 * i - 1])
  BY SnapshotsAboveIs
<1> HIDE DEF u
<1>2. DOMAIN s = 1..Len(s) /\ DOMAIN u = 1..Len(u) /\ Len(s) \in Nat /\ Len(u) \in Nat
  BY <1>1, SnapshotsLevelLen DEF SnapshotsLevel
<1>3. ASSUME NEW j \in 1..Len(s) PROVE \E i \in 1..Len(u) : s[j] = u[i].sha256.left \/ s[j] = u[i].sha256.right
  <2>1. PICK i \in 1..Len(u) : j = 2 * i - 1 \/ (j = 2 * i /\ 2 * i <= Len(s))
    BY <1>1, <1>2, SnapshotsParent
  <2>2. u[i] = S!Pair(s[2 * i - 1], IF 2 * i <= Len(s) THEN s[2 * i] ELSE s[2 * i - 1])
    BY <1>1
  <2>3. u[i].sha256.left = s[2 * i - 1] /\ (2 * i <= Len(s) => u[i].sha256.right = s[2 * i])
    BY <2>2, SnapshotsParts
  <2> QED BY <2>1, <2>3
<1>4. ASSUME NEW i \in 1..Len(u)
      PROVE  (\E j \in 1..Len(s) : u[i].sha256.left = s[j]) /\ (\E j \in 1..Len(s) : u[i].sha256.right = s[j])
  <2>1. 2 * i - 1 \in 1..Len(s) /\ (2 * i <= Len(s) => 2 * i \in 1..Len(s))
    BY <1>1, <1>2
  <2>0. u[i] = S!Pair(s[2 * i - 1], IF 2 * i <= Len(s) THEN s[2 * i] ELSE s[2 * i - 1])
    BY <1>1
  <2>2. u[i].sha256.left = s[2 * i - 1]
    BY <2>0, SnapshotsParts
  <2>3. CASE 2 * i <= Len(s)
    <3>1. u[i].sha256.right = s[2 * i]
      BY <2>0, <2>3, SnapshotsParts
    <3> QED BY <2>1, <2>2, <2>3, <3>1
  <2>4. CASE ~(2 * i <= Len(s))
    <3>1. u[i].sha256.right = s[2 * i - 1]
      BY <2>0, <2>4, SnapshotsParts
    <3> QED BY <2>1, <2>2, <3>1
  <2> QED BY <2>3, <2>4
<1>5. S!Range(s) = {s[j] : j \in 1..Len(s)} /\ S!Range(u) = {u[i] : i \in 1..Len(u)}
  BY <1>2 DEF S!Range
<1>6. \A x \in S!Range(s) : \E q \in S!Range(u) : x = q.sha256.left \/ x = q.sha256.right
  BY <1>3, <1>5
<1>7. \A q \in S!Range(u) : q.sha256.left \in S!Range(s) /\ q.sha256.right \in S!Range(s)
  BY <1>4, <1>5
<1> QED BY <1>6, <1>7 DEF u

LEMMA SnapshotsAgreeDown ==
  ASSUME NEW a, NEW b, SnapshotsLevel(a), SnapshotsLevel(b), SnapshotsAgree(S!Above(a), S!Above(b))
  PROVE  SnapshotsAgree(a, b)
<1>1. /\ Len(S!Above(a)) = (Len(a) + 1) \div 2 /\ Len(S!Above(b)) = (Len(b) + 1) \div 2
      /\ \A i \in 1..Len(S!Above(a)) :
           S!Above(a)[i] = S!Pair(a[2 * i - 1], IF 2 * i <= Len(a) THEN a[2 * i] ELSE a[2 * i - 1])
      /\ \A i \in 1..Len(S!Above(b)) :
           S!Above(b)[i] = S!Pair(b[2 * i - 1], IF 2 * i <= Len(b) THEN b[2 * i] ELSE b[2 * i - 1])
  BY SnapshotsAboveIs
<1>2. Len(a) \in Nat /\ Len(b) \in Nat
  BY SnapshotsLevelLen
<1>3. ASSUME NEW j \in 1..Len(a), j <= Len(b) PROVE a[j] = b[j]
  <2>1. PICK i \in 1..Len(S!Above(a)) : j = 2 * i - 1 \/ (j = 2 * i /\ 2 * i <= Len(a))
    BY <1>1, <1>2, SnapshotsParent
  <2>2. i \in 1..Len(S!Above(b))
    BY <1>1, <1>2, <1>3, <2>1
  <2>3. S!Above(a)[i] = S!Above(b)[i]
    BY <2>1, <2>2 DEF SnapshotsAgree
  <2>0. /\ S!Above(a)[i] = S!Pair(a[2 * i - 1], IF 2 * i <= Len(a) THEN a[2 * i] ELSE a[2 * i - 1])
        /\ S!Above(b)[i] = S!Pair(b[2 * i - 1], IF 2 * i <= Len(b) THEN b[2 * i] ELSE b[2 * i - 1])
    BY <1>1, <2>1, <2>2
  <2>4. CASE j = 2 * i - 1
    <3>1. S!Above(a)[i].sha256.left = a[2 * i - 1] /\ S!Above(b)[i].sha256.left = b[2 * i - 1]
      BY <2>0, SnapshotsParts
    <3> QED BY <2>3, <2>4, <3>1
  <2>5. CASE j = 2 * i /\ 2 * i <= Len(a)
    <3>1. 2 * i <= Len(a) /\ 2 * i <= Len(b)
      BY <1>3, <2>5
    <3>2. S!Above(a)[i].sha256.right = a[2 * i] /\ S!Above(b)[i].sha256.right = b[2 * i]
      BY <2>0, <3>1, SnapshotsParts
    <3> QED BY <2>3, <2>5, <3>2
  <2> QED BY <2>1, <2>4, <2>5
<1>4. S!Range(a) = S!Range(b)
  <2>1. S!Range(S!Above(a)) = S!Range(S!Above(b))
    BY DEF SnapshotsAgree
  <2>2. /\ \A x \in S!Range(a) : \E q \in S!Range(S!Above(a)) : x = q.sha256.left \/ x = q.sha256.right
        /\ \A q \in S!Range(S!Above(a)) : q.sha256.left \in S!Range(a) /\ q.sha256.right \in S!Range(a)
        /\ \A x \in S!Range(b) : \E q \in S!Range(S!Above(b)) : x = q.sha256.left \/ x = q.sha256.right
        /\ \A q \in S!Range(S!Above(b)) : q.sha256.left \in S!Range(b) /\ q.sha256.right \in S!Range(b)
    BY SnapshotsRangeDown
  <2> QED BY <2>1, <2>2
<1> QED BY <1>3, <1>4 DEF SnapshotsAgree

LEMMA SnapshotsAgreeToLeaves ==
  ASSUME NEW g, NEW h, SnapshotsLevel(g), SnapshotsLevel(h)
  PROVE  \A k \in Nat : SnapshotsAgree(S!Levels(g)[k], S!Levels(h)[k]) => SnapshotsAgree(g, h)
<1> DEFINE Some == {k \in Nat : SnapshotsAgree(S!Levels(g)[k], S!Levels(h)[k]) => SnapshotsAgree(g, h)}
<1>1. 0 \in Some
  BY SnapshotsLevelsUnfold
<1>2. ASSUME NEW k \in Some PROVE k + 1 \in Some
  <2>1. k \in Nat
    BY <1>2
  <2>2. SnapshotsAgree(S!Levels(g)[k + 1], S!Levels(h)[k + 1]) => SnapshotsAgree(S!Levels(g)[k], S!Levels(h)[k])
    BY <2>1, SnapshotsLevelsAre, SnapshotsLevelsUnfold, SnapshotsAgreeDown
  <2> QED BY <1>2, <2>1, <2>2
<1> HIDE DEF Some
<1>3. \A k \in Nat : k \in Some
  <2>1. Some \in SUBSET Nat
    BY DEF Some
  <2> QED BY <1>1, <1>2, <2>1, NumberInduction
<1> QED BY <1>3 DEF Some

\* Two Merkle trees of chunk hashes with one root have the same chunks in the same order; only
\* the end of one may be there more often than in the other, because an odd hash is paired
\* with itself (_merkle_root, build_merkle_tree).
THEOREM RootsTellTheChunks ==
  ASSUME NEW g, NEW h, SnapshotsLevel(g), SnapshotsLevel(h), SnapshotsLeaves(g), SnapshotsLeaves(h), S!Top(g) = S!Top(h)
  PROVE  SnapshotsAgree(g, h)
<1>1. PICK k \in Nat : Len(S!Levels(g)[k]) = 1 /\ S!Top(g) = S!Levels(g)[k][1]
  BY SnapshotsTopIs
<1>2. PICK l \in Nat : Len(S!Levels(h)[l]) = 1 /\ S!Top(h) = S!Levels(h)[l][1]
  BY SnapshotsTopIs
<1>3. ~(k < l)
  <2> SUFFICES ASSUME k < l PROVE FALSE
    OBVIOUS
  <2>1. PICK d \in Nat : l = k + d + 1
    <3>1. l - k - 1 \in Nat /\ l = k + (l - k - 1) + 1
      OBVIOUS
    <3> QED BY <3>1
  <2>2. S!Levels(g)[k][1] # S!Levels(h)[k + d + 1][1]
    BY SnapshotsNotHigher
  <2> QED BY <1>1, <1>2, <2>1, <2>2
<1>4. ~(l < k)
  <2> SUFFICES ASSUME l < k PROVE FALSE
    OBVIOUS
  <2>1. PICK d \in Nat : k = l + d + 1
    <3>1. k - l - 1 \in Nat /\ k = l + (k - l - 1) + 1
      OBVIOUS
    <3> QED BY <3>1
  <2>2. S!Levels(h)[l][1] # S!Levels(g)[l + d + 1][1]
    BY SnapshotsNotHigher
  <2> QED BY <1>1, <1>2, <2>1, <2>2
<1>5. k = l
  BY <1>3, <1>4
<1> DEFINE a == S!Levels(g)[k]
           b == S!Levels(h)[k]
<1>6. SnapshotsLevel(a) /\ SnapshotsLevel(b) /\ Len(a) = 1 /\ Len(b) = 1 /\ a[1] = b[1]
  BY <1>1, <1>2, <1>5, SnapshotsLevelsAre
<1> HIDE DEF a, b
<1>7. DOMAIN a = {1} /\ DOMAIN b = {1}
  BY <1>6 DEF SnapshotsLevel
<1>8. S!Range(a) = S!Range(b)
  BY <1>6, <1>7 DEF S!Range
<1>9. SnapshotsAgree(a, b)
  BY <1>6, <1>8 DEF SnapshotsAgree
<1> QED BY <1>9, SnapshotsAgreeToLeaves DEF a, b

\* That chunks are lists is what this rests on: the hash of a text that is itself the digits
\* of two hashes, which a piece of a content can be, is the root of those two
\* (build_merkle_tree hashes pieces and nodes alike).
THEOREM RootsTakePairsForNodes ==
  ASSUME NEW l, NEW r
  PROVE  S!Top(<<S!Hash(S!Digits(l, r))>>) = S!Top(<<l, r>>)
<1> DEFINE g == <<S!Hash(S!Digits(l, r))>>
           h == <<l, r>>
<1>1. Len(g) = 1 /\ g[1] = S!Pair(l, r) /\ SnapshotsLevel(g)
  BY DEF SnapshotsLevel, S!Pair
<1>2. Len(h) = 2 /\ h[1] = l /\ h[2] = r /\ SnapshotsLevel(h)
  BY DEF SnapshotsLevel
<1> HIDE DEF g, h
<1>3. S!Top(g) = S!Pair(l, r)
  <2>1. PICK k \in Nat : S!Top(g) = S!Levels(g)[k][1] /\ \A m \in 0..k - 1 : Len(S!Levels(g)[m]) > 1
    BY <1>1, SnapshotsTopIs
  <2>2. S!Levels(g)[0] = g
    BY SnapshotsLevelsUnfold
  <2>3. k = 0
    <3> SUFFICES ASSUME k # 0 PROVE FALSE
      OBVIOUS
    <3>1. 0 \in 0..k - 1
      OBVIOUS
    <3>2. Len(g) > 1
      BY <2>1, <2>2, <3>1
    <3> QED BY <1>1, <3>2
  <2> QED BY <1>1, <2>1, <2>2, <2>3
<1>4. S!Top(h) = S!Pair(l, r)
  <2>1. PICK k \in Nat : /\ Len(S!Levels(h)[k]) = 1 /\ S!Top(h) = S!Levels(h)[k][1]
                        /\ \A m \in 0..k - 1 : Len(S!Levels(h)[m]) > 1
    BY <1>2, SnapshotsTopIs
  <2>2. S!Levels(h)[0] = h /\ S!Levels(h)[0 + 1] = S!Above(h)
    BY SnapshotsLevelsUnfold
  <2>3. Len(S!Above(h)) = 1 /\ S!Above(h)[1] = S!Pair(l, r)
    <3>1. Len(S!Above(h)) = (2 + 1) \div 2
      BY <1>2, SnapshotsAboveIs
    <3>2. Len(S!Above(h)) = 1
      BY <3>1
    <3>3. S!Above(h)[1] = S!Pair(h[2 * 1 - 1], IF 2 * 1 <= 2 THEN h[2 * 1] ELSE h[2 * 1 - 1])
      BY <1>2, <3>2, SnapshotsAboveIs
    <3> QED BY <1>2, <3>2, <3>3
  <2>4. k = 1
    <3>1. k # 0
      BY <1>2, <2>1, <2>2
    <3>2. ~(k > 1)
      <4> SUFFICES ASSUME k > 1 PROVE FALSE
        OBVIOUS
      <4>1. 1 \in 0..k - 1
        OBVIOUS
      <4>2. Len(S!Levels(h)[1]) > 1 /\ S!Levels(h)[1] = S!Above(h)
        BY <2>1, <2>2, <4>1
      <4>3. Len(S!Above(h)) > 1
        BY <4>2, Zenon
      <4> QED BY <2>3, <4>3
    <3> QED BY <3>1, <3>2
  <2> QED BY <2>1, <2>2, <2>3, <2>4
<1> QED BY <1>3, <1>4 DEF g, h
-----------------------------------------------------------------------------
(* What the steps keep. *)

SnapshotsRowSet == [payload : Chunks \cup {"garbled"}, hash : {S!Hash(S!Json(c)) : c \in Chunks}]

SnapshotsStatus == {"none", "imported", "verified", "quarantined", "failed"}

\* A verifier judges rows it has read against the root it has read.
SnapshotsReads(r, shot) ==
  r # None => r.rows \in Seq(SnapshotsRowSet) \ {<<>>} /\ r.root = shot.root /\ shot.status # "none"

\* The root is the one of what was imported.
SnapshotsRooted(shot, imported) ==
  shot.status # "none" => /\ imported \in Seq(Chunks) \ {<<>>}
                          /\ shot.root = S!Root([i \in 1..Len(imported) |-> S!Hash(S!Json(imported[i]))])

SnapshotsJudges(shot, kept) ==
  shot.status = "verified" => kept \in Seq(SnapshotsRowSet) \ {<<>>} /\ S!IntegrityOk(kept, shot.root)

SnapshotsIInv ==
  /\ snapshot = [root |-> snapshot.root, status |-> snapshot.status] /\ snapshot.status \in SnapshotsStatus
  /\ chunkrows \in Seq(SnapshotsRowSet)
  /\ DOMAIN verifiers = Verifiers /\ \A v \in Verifiers : SnapshotsReads(verifiers[v], snapshot)
  /\ SnapshotsRooted(snapshot, import)
  /\ SnapshotsJudges(snapshot, judged)
  /\ faults \in 0..MaxFaults /\ verifies \in 0..MaxVerifies

LEMMA SnapshotsInitOk == S!Init => SnapshotsIInv
<1> SUFFICES ASSUME S!Init PROVE SnapshotsIInv
  OBVIOUS
<1>1. chunkrows \in Seq(SnapshotsRowSet)
  BY DEF S!Init
<1> QED BY <1>1, SnapshotsConstants DEF S!Init, SnapshotsIInv, SnapshotsReads, SnapshotsRooted, SnapshotsJudges, SnapshotsStatus

LEMMA SnapshotsImportOk == ASSUME SnapshotsIInv, NEW n \in 1..MaxChunks, NEW chunks \in [1..n -> Chunks], S!Import(chunks) PROVE SnapshotsIInv'
<1>1. n \in Nat /\ n >= 1
  OBVIOUS
<1>2. chunks = [i \in 1..n |-> chunks[i]] /\ DOMAIN chunks = 1..n /\ \A i \in 1..n : chunks[i] \in Chunks
  OBVIOUS
<1>3. chunks \in Seq(Chunks)
  BY <1>1, <1>2
<1>4. Len(chunks) = n
  BY <1>1, <1>2, SnapshotsLengthIs
<1>5. chunks # <<>>
  BY <1>1, <1>2
<1>6. chunkrows' = [i \in 1..n |-> S!Row(chunks[i])]
  BY <1>2 DEF S!Import
<1>7. \A i \in 1..n : S!Row(chunks[i]) \in SnapshotsRowSet
  BY <1>2 DEF S!Row, SnapshotsRowSet
<1>8. chunkrows' \in Seq(SnapshotsRowSet)
  BY <1>1, <1>6, <1>7
<1>9. S!Hashes(chunkrows') = [i \in 1..n |-> S!Hash(S!Json(chunks[i]))]
  <2>1. DOMAIN chunkrows' = 1..n /\ \A i \in 1..n : chunkrows'[i].hash = S!Hash(S!Json(chunks[i]))
    BY <1>6 DEF S!Row
  <2> QED BY <2>1 DEF S!Hashes
<1>10. snapshot' = [root |-> S!Root([i \in 1..n |-> S!Hash(S!Json(chunks[i]))]), status |-> "imported"]
  <2>1. snapshot' = [root |-> S!Root(S!Hashes(chunkrows')), status |-> "imported"]
    BY DEF S!Import
  <2> QED BY <1>9, <2>1
<1>11. snapshot'.root = S!Root([i \in 1..Len(import') |-> S!Hash(S!Json(import'[i]))]) /\ snapshot'.status = "imported"
  <2>1. import' = chunks
    BY DEF S!Import
  <2> QED BY <1>4, <1>10, <2>1
<1>12. SnapshotsRooted(snapshot', import')
  BY <1>3, <1>5, <1>11 DEF SnapshotsRooted, S!Import
<1>13. verifiers' = verifiers /\ \A v \in Verifiers : verifiers[v] = None
  BY DEF SnapshotsIInv, S!Import, SnapshotsReads
<1> QED BY <1>8, <1>10, <1>11, <1>12, <1>13 DEF SnapshotsIInv, S!Import, SnapshotsReads, SnapshotsJudges, SnapshotsStatus

LEMMA SnapshotsSelectOk == ASSUME SnapshotsIInv, NEW v \in Verifiers, S!Select(v) PROVE SnapshotsIInv'
<1>1. SnapshotsReads([rows |-> chunkrows, root |-> snapshot.root, status |-> snapshot.status], snapshot)
  BY DEF SnapshotsIInv, S!Select, SnapshotsReads
<1>2. \A w \in Verifiers : SnapshotsReads(verifiers'[w], snapshot)
  BY <1>1 DEF SnapshotsIInv, S!Select
<1>3. verifies' \in 0..MaxVerifies
  BY SnapshotsConstants DEF SnapshotsIInv, S!Select
<1> QED BY <1>2, <1>3 DEF SnapshotsIInv, S!Select

LEMMA SnapshotsCommitOk == ASSUME SnapshotsIInv, NEW v \in Verifiers, S!Commit(v) PROVE SnapshotsIInv'
<1>0. CASE UNCHANGED <<snapshot, judged>>
  BY <1>0 DEF SnapshotsIInv, S!Commit, SnapshotsReads, SnapshotsJudges, SnapshotsRooted
<1>1. CASE /\ verifiers[v] # None /\ judged' = verifiers[v].rows
           /\ \E status \in S!Statuses(verifiers[v].rows, verifiers[v].root) : snapshot' = [snapshot EXCEPT !.status = status]
  <2>2. verifiers[v].rows \in Seq(SnapshotsRowSet) \ {<<>>} /\ verifiers[v].root = snapshot.root /\ snapshot.status # "none"
    BY <1>1 DEF SnapshotsIInv, SnapshotsReads
  <2>3. PICK status \in S!Statuses(verifiers[v].rows, snapshot.root) : snapshot' = [snapshot EXCEPT !.status = status]
    BY <1>1, <2>2
  <2>4. /\ status \in {"failed", "quarantined", "verified"}
        /\ status = "verified" => S!IntegrityOk(verifiers[v].rows, snapshot.root)
    BY DEF S!Statuses
  <2>5. snapshot'.root = snapshot.root /\ snapshot'.status = status /\ snapshot' = [root |-> snapshot'.root, status |-> snapshot'.status]
    BY <2>3 DEF SnapshotsIInv
  <2>6. SnapshotsJudges(snapshot', judged')
    BY <1>1, <2>2, <2>4, <2>5 DEF SnapshotsJudges
  <2>7. \A w \in Verifiers : SnapshotsReads(verifiers'[w], snapshot')
    BY <2>4, <2>5 DEF SnapshotsIInv, S!Commit, SnapshotsReads
  <2>8. SnapshotsRooted(snapshot', import')
    BY <2>2, <2>5 DEF SnapshotsIInv, S!Commit, SnapshotsRooted
  <2> QED BY <2>4, <2>5, <2>6, <2>7, <2>8 DEF SnapshotsIInv, S!Commit, SnapshotsStatus
<1> QED BY <1>0, <1>1 DEF S!Commit

LEMMA SnapshotsFailOk == ASSUME SnapshotsIInv, NEW v \in Verifiers, S!Fail(v) PROVE SnapshotsIInv'
<1>1. \A w \in Verifiers : SnapshotsReads(verifiers'[w], snapshot)
  BY DEF SnapshotsIInv, S!Fail, SnapshotsReads
<1> QED BY <1>1 DEF SnapshotsIInv, S!Fail

LEMMA SnapshotsFaultOk == ASSUME SnapshotsIInv, S!Fault PROVE SnapshotsIInv'
<1>1. chunkrows \in Seq(SnapshotsRowSet) /\ DOMAIN chunkrows = 1..Len(chunkrows) /\ Len(chunkrows) \in Nat /\ \A i \in 1..Len(chunkrows) : chunkrows[i] \in SnapshotsRowSet
  BY DEF SnapshotsIInv
<1>2. chunkrows' \in Seq(SnapshotsRowSet)
  <2>1. CASE chunkrows' \in S!Lost
    <3>1. PICK i \in 1..Len(chunkrows) : chunkrows' = SubSeq(chunkrows, 1, i - 1) \o SubSeq(chunkrows, i + 1, Len(chunkrows))
      BY <1>1, <2>1 DEF S!Lost
    <3>2. SubSeq(chunkrows, 1, i - 1) \in Seq(SnapshotsRowSet) /\ SubSeq(chunkrows, i + 1, Len(chunkrows)) \in Seq(SnapshotsRowSet)
      <4>1. \A k \in 1..i - 1 : chunkrows[k] \in SnapshotsRowSet
        BY <1>1
      <4>2. \A k \in i + 1..Len(chunkrows) : chunkrows[k] \in SnapshotsRowSet
        BY <1>1
      <4> QED BY <1>1, <4>1, <4>2, SubSeqProperties
    <3> QED BY <3>1, <3>2, ConcatProperties
  <2>2. CASE chunkrows' \in S!Repeated
    BY <1>1, <2>2, AppendProperties DEF S!Repeated
  <2>3. CASE chunkrows' \in S!Exchanged
    <3>1. PICK i \in 1..Len(chunkrows), j \in 1..Len(chunkrows) : chunkrows' = [chunkrows EXCEPT ![i] = chunkrows[j], ![j] = chunkrows[i]]
      BY <1>1, <2>3 DEF S!Exchanged
    <3>2. chunkrows' \in [1..Len(chunkrows) -> SnapshotsRowSet]
      BY <1>1, <3>1
    <3> QED BY <1>1, <3>2
  <2>4. CASE chunkrows' \in S!Damaged
    <3>1. PICK i \in 1..Len(chunkrows), p \in Chunks \cup {"garbled"} : chunkrows' = [chunkrows EXCEPT ![i].payload = p]
      BY <1>1, <2>4 DEF S!Damaged
    <3>2. [chunkrows[i] EXCEPT !.payload = p] \in SnapshotsRowSet
      BY <1>1 DEF SnapshotsRowSet
    <3>3. chunkrows' \in [1..Len(chunkrows) -> SnapshotsRowSet]
      BY <1>1, <3>1, <3>2
    <3> QED BY <1>1, <3>3
  <2> QED BY <2>1, <2>2, <2>3, <2>4 DEF S!Fault
<1>3. faults' \in 0..MaxFaults
  BY SnapshotsConstants DEF SnapshotsIInv, S!Fault
<1> QED BY <1>2, <1>3 DEF SnapshotsIInv, S!Fault

LEMMA SnapshotsNextOk == ASSUME SnapshotsIInv, [S!Next]_(S!vars) PROVE SnapshotsIInv'
<1>1. CASE UNCHANGED S!vars
  BY <1>1 DEF S!vars, SnapshotsIInv
<1>2. ASSUME NEW n \in 1..MaxChunks, NEW chunks \in [1..n -> Chunks], S!Import(chunks) PROVE SnapshotsIInv'
  BY <1>2, SnapshotsImportOk
<1>3. ASSUME NEW v \in Verifiers, S!Select(v) PROVE SnapshotsIInv'
  BY <1>3, SnapshotsSelectOk
<1>4. ASSUME NEW v \in Verifiers, S!Commit(v) PROVE SnapshotsIInv'
  BY <1>4, SnapshotsCommitOk
<1>5. ASSUME NEW v \in Verifiers, S!Fail(v) PROVE SnapshotsIInv'
  BY <1>5, SnapshotsFailOk
<1>6. CASE S!Fault
  BY <1>6, SnapshotsFaultOk
<1> QED BY <1>1, <1>2, <1>3, <1>4, <1>5, <1>6 DEF S!Next

\* Chunks with the hash of their payload beside them that lead to the root are the imported ones.
LEMMA SnapshotsInvHolds == SnapshotsIInv => S!TypeOK /\ S!VerifiedIsImported
<1> SUFFICES ASSUME SnapshotsIInv PROVE S!TypeOK /\ S!VerifiedIsImported
  OBVIOUS
<1>1. S!TypeOK
  <2>1. \A i \in DOMAIN chunkrows : chunkrows[i] \in SnapshotsRowSet
    BY DEF SnapshotsIInv
  <2> QED BY <2>1 DEF SnapshotsIInv, S!TypeOK, SnapshotsRowSet, SnapshotsStatus
<1>2. ASSUME snapshot.status = "verified" PROVE S!VerifiedIsImported
  <2> DEFINE g == S!Hashes(judged)
             h == [i \in 1..Len(import) |-> S!Hash(S!Json(import[i]))]
             found == S!Payloads(judged)
  <2>1. /\ import \in Seq(Chunks) \ {<<>>} /\ snapshot.root = S!Root(h)
        /\ judged \in Seq(SnapshotsRowSet) \ {<<>>} /\ S!IntegrityOk(judged, snapshot.root)
    BY <1>2 DEF SnapshotsIInv, SnapshotsRooted, SnapshotsJudges
  <2>2. /\ Len(import) \in Nat /\ Len(import) # 0 /\ DOMAIN import = 1..Len(import)
        /\ Len(judged) \in Nat /\ Len(judged) # 0 /\ DOMAIN judged = 1..Len(judged)
    BY <2>1
  <2>3. Len(h) = Len(import) /\ SnapshotsLevel(h) /\ h # <<>>
    <3>1. h = [i \in 1..Len(import) |-> h[i]]
      OBVIOUS
    <3> HIDE DEF h
    <3>2. Len(h) = Len(import)
      BY <2>2, <3>1, SnapshotsLengthIs
    <3> QED BY <2>2, <3>1, <3>2 DEF SnapshotsLevel
  <2>4. g = [i \in 1..Len(judged) |-> S!Hash(S!Json(found[i]))] /\ DOMAIN found = 1..Len(judged)
    <3>1. DOMAIN found = 1..Len(judged) /\ \A i \in 1..Len(judged) : found[i] = judged[i].payload
      BY <2>2 DEF S!Payloads
    <3>2. \A i \in 1..Len(judged) : judged[i].hash = S!Hash(S!Json(judged[i].payload))
      BY <2>1, <2>2 DEF S!IntegrityOk, S!Intact
    <3>3. g = [i \in 1..Len(judged) |-> judged[i].hash]
      BY <2>2 DEF S!Hashes
    <3> QED BY <3>1, <3>2, <3>3
  <2> HIDE DEF found
  <2>5. Len(g) = Len(judged) /\ SnapshotsLevel(g) /\ g # <<>>
    <3>1. g = [i \in 1..Len(judged) |-> g[i]]
      BY <2>4
    <3> HIDE DEF g
    <3>2. Len(g) = Len(judged)
      BY <2>2, <3>1, SnapshotsLengthIs
    <3> QED BY <2>2, <3>1, <3>2 DEF SnapshotsLevel
  <2>6. \A i \in 1..Len(import) : h[i] = S!Hash(S!Json(import[i]))
    OBVIOUS
  <2>7. S!Root(g) = S!Root(h)
    BY <2>1 DEF S!IntegrityOk
  <2> HIDE DEF h, g
  <2>8. S!Top(g) = S!Top(h)
    BY <2>3, <2>5, <2>7 DEF S!Root
  <2>9. SnapshotsAgree(g, h)
    BY <2>3, <2>4, <2>5, <2>6, <2>8, RootsTellTheChunks DEF SnapshotsLeaves
  <2>0. \A x, y : S!Hash(S!Json(x)) = S!Hash(S!Json(y)) => x = y
    BY DEF S!Hash, S!Json
  <2>10. \A i \in DOMAIN found \cap DOMAIN import : found[i] = import[i]
    BY <2>0, <2>2, <2>3, <2>4, <2>5, <2>6, <2>9 DEF SnapshotsAgree
  <2>11. DOMAIN g = 1..Len(judged) /\ DOMAIN h = 1..Len(import)
    BY <2>3, <2>5 DEF SnapshotsLevel
  <2>12. S!Range(g) = {S!Hash(S!Json(found[i])) : i \in 1..Len(judged)} /\ S!Range(h) = {S!Hash(S!Json(import[i])) : i \in 1..Len(import)}
    BY <2>4, <2>6, <2>11 DEF S!Range
  <2>13. S!Range(found) = {found[i] : i \in 1..Len(judged)} /\ S!Range(import) = {import[i] : i \in 1..Len(import)}
    BY <2>2, <2>4 DEF S!Range
  <2>15. \A x : x \in S!Range(found) <=> S!Hash(S!Json(x)) \in S!Range(g)
    BY <2>0, <2>12, <2>13
  <2>16. \A x : x \in S!Range(import) <=> S!Hash(S!Json(x)) \in S!Range(h)
    BY <2>0, <2>12, <2>13
  <2>17. S!Range(found) = S!Range(import)
    BY <2>9, <2>15, <2>16 DEF SnapshotsAgree
  <2> QED BY <2>10, <2>17 DEF S!VerifiedIsImported, found
<1> QED BY <1>1, <1>2 DEF S!VerifiedIsImported

LEMMA SnapshotsSpecInv == S!Init /\ [][S!Next]_(S!vars) => [](S!TypeOK /\ S!VerifiedIsImported)
<1>1. S!Init => SnapshotsIInv
  BY SnapshotsInitOk
<1>2. SnapshotsIInv /\ [S!Next]_(S!vars) => SnapshotsIInv'
  BY SnapshotsNextOk
<1>3. SnapshotsIInv => S!TypeOK /\ S!VerifiedIsImported
  BY SnapshotsInvHolds
<1> QED BY <1>1, <1>2, <1>3, PTL
-----------------------------------------------------------------------------
(* RateLimits: the requests of a window are the ones its buckets count. *)

LEMMA LimitsConstants ==
  /\ Window \in Nat \ {0} /\ Limit \in Nat \ {0} /\ StaleAfter \in Nat /\ StaleAfter >= Window
  /\ CleanupEvery \in Nat /\ MaxNow \in Nat /\ MaxCount \in Nat
  BY ServicesAssumption
LEMMA LimitsSum == \A f, s : G!SumFunctionOnSet(f, s) = SumFunctionOnSet(f, s)
  BY DEF G!SumFunctionOnSet, SumFunctionOnSet, G!FoldFunctionOnSet, FoldFunctionOnSet,
         G!MapThenFoldSet, MapThenFoldSet
-----------------------------------------------------------------------------
LimitsRows == [count : Nat, start : Nat]
LimitsTypes ==
  /\ now \in 0..MaxNow /\ cleaned \in 0..now
  /\ DOMAIN buckets \subseteq Keys
  /\ \A k \in DOMAIN buckets :
       buckets[k] \in LimitsRows /\ buckets[k].count \in 1..MaxCount /\ buckets[k].start <= now
  /\ recent \in [Keys -> [0..Window-1 -> Nat]]

\* The requests of the last n ticks.
LimitsLast(k, n) == Prefix(recent[k], n)

\* A window that is open at age e: it let as many through as it counted, up to the limit, one of
\* them when it began; of the window before, the one that began it is too old to count.
LimitsOpen(k, b, e) ==
  /\ LimitsLast(k, e + 1) = IF b.count <= Limit THEN b.count ELSE Limit
  /\ recent[k][e] >= 1
  /\ LimitsLast(k, Window) - LimitsLast(k, e + 1) < Limit

\* No window is open: whatever was let through, one that began it is too old to count.
LimitsShut(k) == LimitsLast(k, Window) < Limit /\ recent[k][0] = 0

LimitsKeyOK(k) ==
  IF k \in DOMAIN buckets /\ ~G!Expired(buckets[k])
    THEN LimitsOpen(k, buckets[k], now - buckets[k].start)
    ELSE LimitsShut(k)

LimitsIInv == LimitsTypes /\ \A k \in Keys : LimitsKeyOK(k)
-----------------------------------------------------------------------------
LEMMA LimitsInitInv == G!Init => LimitsIInv
<1> SUFFICES ASSUME G!Init PROVE LimitsIInv
  OBVIOUS
<1>1. LimitsTypes
  BY LimitsConstants DEF G!Init, LimitsTypes
<1>2. ASSUME NEW k \in Keys PROVE LimitsKeyOK(k)
  <2>1. k \notin DOMAIN buckets
    BY DEF G!Init
  <2>2. recent[k] = [age \in 0..Window-1 |-> 0]
    BY DEF G!Init
  <2>3. SumFunctionOnSet(recent[k], 0..Window-1) = 0
    <3>1. IsFiniteSet(0..Window-1)
      BY LimitsConstants, FS_Interval
    <3> QED BY <2>2, <3>1, SumZero
  <2> QED BY <2>1, <2>2, <2>3, LimitsConstants DEF LimitsKeyOK, LimitsShut, LimitsLast, Prefix
<1> QED BY <1>1, <1>2 DEF LimitsIInv

\* The sums of what is remembered are numbers, and grow with the ticks.
LEMMA LimitsLastNat ==
  ASSUME LimitsTypes, NEW k \in Keys, NEW n \in 1..Window
  PROVE  /\ LimitsLast(k, n) \in Nat /\ recent[k] \in [0..Window-1 -> Nat]
         /\ LimitsLast(k, n) = LimitsLast(k, n - 1) + recent[k][n - 1] /\ LimitsLast(k, n - 1) \in Nat
<1>1. recent[k] \in [0..Window-1 -> Nat] /\ \A a \in 0..Window-1 : recent[k][a] \in Nat
  BY DEF LimitsTypes
<1>2. n \in Nat /\ n - 1 \in Nat /\ (n - 1) + 1 = n
  BY LimitsConstants
<1>3. (\A a \in 0 .. n - 1 : recent[k][a] \in Nat) /\ (\A a \in 0 .. n - 1 : recent[k][a] \in Int)
      /\ \A a \in 0 .. (n - 1) - 1 : recent[k][a] \in Nat
  BY <1>1, LimitsConstants
<1>4. Prefix(recent[k], n) \in Nat /\ Prefix(recent[k], n - 1) \in Nat
  BY <1>2, <1>3, PrefixNat
<1>5. Prefix(recent[k], (n - 1) + 1) = Prefix(recent[k], n - 1) + recent[k][n - 1]
  BY <1>2, <1>3, PrefixStep
<1> QED BY <1>1, <1>2, <1>4, <1>5 DEF LimitsLast

LEMMA LimitsTickInv == ASSUME LimitsIInv, G!Tick PROVE LimitsIInv'
<1>a. LimitsTypes /\ now \in Nat /\ cleaned \in Nat
  BY LimitsConstants DEF LimitsIInv, LimitsTypes
<1>b. now' = now + 1 /\ now' \in 0..MaxNow /\ UNCHANGED <<buckets, cleaned>>
  BY <1>a, LimitsConstants DEF G!Tick, LimitsTypes
<1>1. \A k \in Keys : /\ recent'[k] = [age \in 0..Window-1 |-> IF age = 0 THEN 0 ELSE recent[k][age - 1]]
                      /\ recent'[k] \in [0..Window-1 -> Nat]
  <2> TAKE k \in Keys
  <2>1. recent'[k] = [age \in 0..Window-1 |-> IF age = 0 THEN 0 ELSE recent[k][age - 1]]
    BY DEF G!Tick
  <2>2. \A age \in 0..Window-1 : age # 0 => recent[k][age - 1] \in Nat
    <3>1. recent[k] \in [0..Window-1 -> Nat]
      BY <1>a DEF LimitsTypes
    <3> QED BY <3>1, LimitsConstants
  <2> QED BY <2>1, <2>2
<1>2. LimitsTypes'
  <2>1. recent' \in [Keys -> [0..Window-1 -> Nat]]
    <3>1. recent' = [k \in Keys |-> recent'[k]]
      BY DEF G!Tick
    <3> QED BY <1>1, <3>1
  <2> QED BY <1>a, <1>b, <2>1 DEF LimitsTypes, LimitsRows
<1>3. ASSUME NEW k \in Keys, NEW n \in 1..Window
      PROVE  LimitsLast(k, n)' = LimitsLast(k, n - 1) /\ recent'[k][0] = 0 /\ (n < Window => recent'[k][n] = recent[k][n - 1])
  <2>1. recent'[k] = [age \in 0..Window-1 |-> IF age = 0 THEN 0 ELSE recent[k][age - 1]]
    BY <1>1
  <2>2. recent'[k][0] = 0 /\ \A a \in 0 .. (n - 1) - 1 : recent[k][a] \in Int /\ recent'[k][a + 1] = recent[k][a]
    <3>1. 0 \in 0..Window-1
      BY LimitsConstants
    <3>2. ASSUME NEW a \in 0 .. (n - 1) - 1 PROVE recent[k][a] \in Int /\ recent'[k][a + 1] = recent[k][a]
      <4>1. a \in 0..Window-1 /\ a + 1 \in 0..Window-1 /\ a + 1 # 0 /\ (a + 1) - 1 = a
        BY LimitsConstants
      <4>2. recent[k] \in [0..Window-1 -> Nat]
        BY <1>a DEF LimitsTypes
      <4>3. recent'[k][a + 1] = recent[k][(a + 1) - 1]
        BY <2>1, <4>1
      <4>4. recent[k][a] \in Nat
        BY <4>1, <4>2
      <4> QED BY <4>1, <4>3, <4>4
    <3> QED BY <2>1, <3>1, <3>2
  <2>3. n - 1 \in Nat /\ (n - 1) + 1 = n
    BY LimitsConstants
  <2>4. Prefix(recent'[k], (n - 1) + 1) = Prefix(recent[k], n - 1)
    BY <2>2, <2>3, PrefixShift
  <2>5. n < Window => recent'[k][n] = recent[k][n - 1]
    <3>1. n < Window => n \in 0..Window-1 /\ n # 0
      BY LimitsConstants
    <3> QED BY <2>1, <3>1
  <2> QED BY <2>2, <2>3, <2>4, <2>5 DEF LimitsLast
<1>4. ASSUME NEW k \in Keys PROVE LimitsKeyOK(k)'
  <2>0. Window \in 1..Window /\ Window \in Nat /\ Limit \in Nat
    BY LimitsConstants
  <2>1. /\ LimitsLast(k, Window)' = LimitsLast(k, Window - 1) /\ recent'[k][0] = 0
        /\ LimitsLast(k, Window) = LimitsLast(k, Window - 1) + recent[k][Window - 1]
        /\ LimitsLast(k, Window - 1) \in Nat /\ LimitsLast(k, Window) \in Nat /\ recent[k][Window - 1] \in Nat
    <3>1. recent[k] \in [0..Window-1 -> Nat] /\ Window - 1 \in 0..Window-1
      BY <1>a, <2>0, LimitsLastNat
    <3> QED BY <1>3, <2>0, LimitsLastNat, <1>a, <3>1
  <2>2. CASE k \in DOMAIN buckets /\ ~G!Expired(buckets[k])
    <3>0. PICK b, e : b = buckets[k] /\ e = now - buckets[k].start
      OBVIOUS
    <3>1. e \in Nat /\ e < Window /\ LimitsOpen(k, b, e) /\ b.count \in Nat /\ buckets'[k] = b
          /\ now' - buckets'[k].start = e + 1 /\ k \in DOMAIN buckets'
          /\ (G!Expired(buckets[k])' <=> e + 1 >= Window)
      BY <1>a, <1>b, <2>2, <2>0, <3>0 DEF LimitsIInv, LimitsKeyOK, LimitsTypes, LimitsRows, G!Expired
    <3>2. CASE e + 1 < Window
      <4>1. e + 1 \in 1..Window /\ (e + 1) + 1 \in 1..Window /\ ((e + 1) + 1) - 1 = e + 1
        BY <3>1, <3>2, <2>0
      <4>2. LimitsLast(k, (e + 1) + 1)' = LimitsLast(k, e + 1) /\ recent'[k][e + 1] = recent[k][e]
        <5>1. (e + 1) - 1 = e
          BY <3>1
        <5> QED BY <4>1, <1>3, <3>2, <5>1
      <4>3. LimitsLast(k, e + 1) \in Nat
        BY <4>1, <1>a, LimitsLastNat
      <4>4. LimitsOpen(k, b, e + 1)'
        BY <3>1, <4>2, <4>3, <2>1, <2>0, <1>b DEF LimitsOpen
      <4> QED BY <3>1, <3>2, <4>4, <2>0 DEF LimitsKeyOK
    <3>3. CASE ~(e + 1 < Window)
      <4>1. e + 1 = Window /\ e = Window - 1
        BY <3>1, <3>3, <2>0
      <4>2. LimitsLast(k, Window) <= Limit /\ recent[k][Window - 1] >= 1
        BY <3>1, <4>1, <2>1, <2>0 DEF LimitsOpen
      <4>3. LimitsShut(k)'
        BY <2>0, <2>1, <4>2 DEF LimitsShut
      <4> QED BY <3>1, <3>3, <4>1, <4>3, <2>0 DEF LimitsKeyOK
    <3> QED BY <3>2, <3>3
  <2>3. CASE ~(k \in DOMAIN buckets /\ ~G!Expired(buckets[k]))
    <3>1. LimitsShut(k)
      BY <2>3 DEF LimitsIInv, LimitsKeyOK
    <3>2. LimitsShut(k)'
      BY <3>1, <2>1, <2>0 DEF LimitsShut
    <3>3. ~(k \in DOMAIN buckets /\ ~G!Expired(buckets[k]))'
      BY <1>a, <1>b, <2>3, <2>0 DEF G!Expired, LimitsTypes, LimitsRows
    <3> QED BY <3>2, <3>3 DEF LimitsKeyOK
  <2> QED BY <2>2, <2>3
<1> QED BY <1>2, <1>4 DEF LimitsIInv

\* The clean-up removes no window that is open.
LEMMA LimitsSweptKeeps ==
  ASSUME LimitsTypes, NEW k
  PROVE  /\ DOMAIN G!Swept \subseteq DOMAIN buckets
         /\ k \in DOMAIN G!Swept => G!Swept[k] = buckets[k]
         /\ k \in DOMAIN buckets /\ ~G!Expired(buckets[k]) => k \in DOMAIN G!Swept
<1>1. DOMAIN G!Swept = {j \in DOMAIN buckets : ~G!CleansUp \/ now - buckets[j].start <= StaleAfter}
      /\ \A j \in DOMAIN G!Swept : G!Swept[j] = buckets[j]
  BY DEF G!Swept
<1>2. k \in DOMAIN buckets => now \in Int /\ buckets[k].start \in Int
  BY LimitsConstants DEF LimitsTypes, LimitsRows
<1> QED BY <1>1, <1>2, LimitsConstants DEF G!Expired

LEMMA LimitsCheckInv == ASSUME LimitsIInv, NEW k \in Keys, G!Check(k) PROVE LimitsIInv'
<1> DEFINE found == IF k \in DOMAIN G!Swept THEN G!Swept[k] ELSE G!New
           b0 == IF G!Expired(found) THEN G!Renewed(found) ELSE found
<1>a. LimitsTypes /\ now \in Nat /\ cleaned \in Nat /\ Window \in Nat \ {0} /\ Limit \in Nat \ {0}
  BY LimitsConstants DEF LimitsIInv, LimitsTypes
<1>0. PICK b : b = b0
  OBVIOUS
<1>1. /\ b.count < MaxCount /\ now' = now /\ cleaned' = (IF G!CleansUp THEN now ELSE cleaned)
      /\ buckets' = [j \in DOMAIN G!Swept \cup {k} |-> IF j = k THEN [b EXCEPT !.count = b.count + 1] ELSE G!Swept[j]]
      /\ recent' = [recent EXCEPT ![k][0] = IF b.count + 1 <= Limit THEN @ + 1 ELSE @]
  BY <1>0 DEF G!Check
<1>2. \/ /\ k \in DOMAIN buckets /\ ~G!Expired(buckets[k]) /\ b = buckets[k]
      \/ /\ ~(k \in DOMAIN buckets /\ ~G!Expired(buckets[k])) /\ b = [count |-> 0, start |-> now]
  <2>1. CASE k \in DOMAIN buckets /\ ~G!Expired(buckets[k])
    BY <1>0, <1>a, <2>1, LimitsSweptKeeps
  <2>2. CASE ~(k \in DOMAIN buckets /\ ~G!Expired(buckets[k]))
    <3>1. k \in DOMAIN G!Swept => G!Expired(found)
      BY <1>a, <2>2, LimitsSweptKeeps
    <3>2. k \notin DOMAIN G!Swept => found = G!New
      OBVIOUS
    <3> QED BY <1>0, <2>2, <3>1, <3>2 DEF G!Renewed, G!New
  <2> QED BY <2>1, <2>2
<1> HIDE DEF found, b0
<1>3. b \in LimitsRows /\ b.count \in Nat /\ b.start \in Nat /\ b.start <= now /\ b.count + 1 \in 1..MaxCount
      /\ now - b.start \in 0..Window-1
  BY <1>1, <1>2, <1>a, LimitsConstants DEF LimitsTypes, LimitsRows, G!Expired
<1>4. /\ [b EXCEPT !.count = b.count + 1] \in LimitsRows
      /\ [b EXCEPT !.count = b.count + 1].count = b.count + 1
      /\ [b EXCEPT !.count = b.count + 1].start = b.start
  BY <1>3 DEF LimitsRows
<1>5. /\ recent[k] \in [0..Window-1 -> Nat] /\ 0 \in 0..Window-1 /\ k \in DOMAIN recent
      /\ recent'[k] = [recent[k] EXCEPT ![0] = IF b.count + 1 <= Limit THEN @ + 1 ELSE @]
      /\ \A j \in Keys \ {k} : recent'[j] = recent[j]
  BY <1>1, <1>a DEF LimitsTypes
<1>6. LimitsTypes'
  <2>1. recent' \in [Keys -> [0..Window-1 -> Nat]]
    <3>1. [recent[k] EXCEPT ![0] = IF b.count + 1 <= Limit THEN @ + 1 ELSE @] \in [0..Window-1 -> Nat]
      <4>1. recent[k][0] \in Nat /\ recent[k][0] + 1 \in Nat
        BY <1>5
      <4> QED BY <1>5, <4>1
    <3> QED BY <1>1, <1>a, <3>1 DEF LimitsTypes
  <2>2. \A j \in DOMAIN buckets' :
          buckets'[j] \in LimitsRows /\ buckets'[j].count \in 1..MaxCount /\ buckets'[j].start <= now
    <3> TAKE j \in DOMAIN buckets'
    <3>1. CASE j = k
      BY <1>1, <1>3, <1>4, <3>1
    <3>2. CASE j # k
      <4>1. j \in DOMAIN G!Swept /\ buckets'[j] = G!Swept[j]
        BY <1>1, <3>2
      <4>2. j \in DOMAIN buckets /\ G!Swept[j] = buckets[j]
        BY <1>a, <4>1, LimitsSweptKeeps
      <4> QED BY <1>a, <4>1, <4>2 DEF LimitsTypes
    <3> QED BY <3>1, <3>2
  <2>3. DOMAIN buckets' \subseteq Keys /\ cleaned' \in 0..now
    <3>1. DOMAIN buckets' = DOMAIN G!Swept \cup {k} /\ DOMAIN G!Swept \subseteq Keys
      BY <1>1, <1>a, LimitsSweptKeeps DEF LimitsTypes
    <3>2. cleaned' \in 0..now
      BY <1>1, <1>a DEF LimitsTypes
    <3> QED BY <3>1, <3>2
  <2> QED BY <1>1, <1>a, <2>1, <2>2, <2>3 DEF LimitsTypes
<1>7. LimitsKeyOK(k)'
  <2> DEFINE d == IF b.count + 1 <= Limit THEN 1 ELSE 0
  <2>1. \A n \in 1..Window : LimitsLast(k, n)' = LimitsLast(k, n) + d
    <3> TAKE n \in 1..Window
    <3>1. n \in Nat \ {0} /\ d \in Int /\ recent'[k][0] = recent[k][0] + d
      BY <1>3, <1>5, <1>a
    <3>2. \A a \in 0 .. n - 1 : recent[k][a] \in Int /\ (a # 0 => recent'[k][a] = recent[k][a])
      BY <1>5, <1>a
    <3> HIDE DEF d
    <3>3. Prefix(recent'[k], n) = Prefix(recent[k], n) + d
      BY <3>1, <3>2, PrefixChange
    <3> QED BY <3>3 DEF LimitsLast
  <2>2. PICK e \in 0..Window-1 : e = now - b.start
    BY <1>3
  <2>3. e + 1 \in 1..Window /\ Window \in 1..Window /\ 1 \in 1..Window /\ e \in Nat
    BY <1>a, <2>2
  <2>4. /\ LimitsLast(k, e + 1) \in Nat /\ LimitsLast(k, Window) \in Nat /\ LimitsLast(k, 1) = recent[k][0]
        /\ recent[k][e] \in Nat /\ recent[k][0] \in Nat
    <3>1. LimitsLast(k, e + 1) \in Nat /\ LimitsLast(k, Window) \in Nat
      BY <1>a, <2>3, LimitsLastNat
    <3>2. LimitsLast(k, 1) = LimitsLast(k, 1 - 1) + recent[k][1 - 1] /\ LimitsLast(k, 1 - 1) \in Nat
      BY <1>a, <2>3, LimitsLastNat
    <3>3. LimitsLast(k, 0) = 0
      BY PrefixNone DEF LimitsLast
    <3>4. recent[k][e] \in Nat /\ recent[k][0] \in Nat
      BY <1>5, <2>2
    <3> QED BY <3>1, <3>2, <3>3, <3>4
  <2>5. /\ LimitsLast(k, e + 1)' = LimitsLast(k, e + 1) + d /\ LimitsLast(k, Window)' = LimitsLast(k, Window) + d
        /\ recent'[k][e] >= recent[k][e] /\ (e = 0 => recent'[k][e] = recent[k][e] + d)
    BY <2>1, <2>2, <2>3, <2>4, <1>5
  <2>6. PICK c : c = [b EXCEPT !.count = b.count + 1]
    OBVIOUS
  <2>7. LimitsOpen(k, c, e)'
    <3>1. CASE k \in DOMAIN buckets /\ ~G!Expired(buckets[k])
      <4>1. LimitsOpen(k, b, e)
        BY <3>1, <1>2, <2>2 DEF LimitsIInv, LimitsKeyOK
      <4>2. c.count = b.count + 1 /\ b.count \in Nat /\ Limit \in Nat
        BY <2>6, <1>3, <1>4, <1>a
      <4>3. PICK x : x = LimitsLast(k, e + 1)
        OBVIOUS
      <4>4. PICK y : y = LimitsLast(k, Window)
        OBVIOUS
      <4>5. /\ x \in Nat /\ y \in Nat /\ y - x < Limit
            /\ x = IF b.count <= Limit THEN b.count ELSE Limit
        BY <4>1, <4>3, <4>4, <2>4 DEF LimitsOpen
      <4>6. LimitsLast(k, e + 1)' = x + d /\ LimitsLast(k, Window)' = y + d
        BY <4>3, <4>4, <2>5
      <4>7. x + d = (IF c.count <= Limit THEN c.count ELSE Limit) /\ (y + d) - (x + d) < Limit
        BY <4>2, <4>5
      <4>8. recent'[k][e] >= 1
        <5>1. d \in Nat /\ recent[k][e] \in Nat /\ recent[k][e] >= 1
          BY <4>1, <2>4 DEF LimitsOpen
        <5>2. recent'[k][e] \in Nat
          BY <1>5, <2>2, <1>6 DEF LimitsTypes
        <5> QED BY <2>5, <5>1, <5>2
      <4> HIDE DEF d
      <4> QED BY <4>6, <4>7, <4>8 DEF LimitsOpen
    <3>2. CASE ~(k \in DOMAIN buckets /\ ~G!Expired(buckets[k]))
      <4>1. LimitsShut(k) /\ b.count = 0 /\ e = 0 /\ d = 1 /\ c.count = 1
        BY <3>2, <1>2, <2>2, <2>6, <1>4, <1>a DEF LimitsIInv, LimitsKeyOK
      <4>2. LimitsLast(k, e + 1) = 0
        BY <4>1, <2>4 DEF LimitsShut
      <4> QED BY <4>1, <4>2, <2>4, <2>5, <1>a DEF LimitsOpen, LimitsShut
    <3> QED BY <3>1, <3>2
  <2>8. k \in DOMAIN buckets' /\ buckets'[k] = c /\ c.start = b.start /\ now' = now
    BY <1>1, <1>4, <2>6
  <2> QED BY <2>2, <2>7, <2>8, <1>a DEF LimitsKeyOK, G!Expired
<1>8. ASSUME NEW j \in Keys, j # k PROVE LimitsKeyOK(j)'
  <2>1. recent'[j] = recent[j] /\ now' = now
    BY <1>1, <1>5, <1>8
  <2>2. CASE j \in DOMAIN buckets /\ ~G!Expired(buckets[j])
    <3>1. j \in DOMAIN buckets' /\ buckets'[j] = buckets[j]
      BY <1>1, <1>a, <1>8, <2>2, LimitsSweptKeeps
    <3> QED BY <2>1, <2>2, <3>1 DEF LimitsIInv, LimitsKeyOK, G!Expired, LimitsOpen, LimitsLast
  <2>3. CASE ~(j \in DOMAIN buckets /\ ~G!Expired(buckets[j]))
    <3>1. j \in DOMAIN buckets' => j \in DOMAIN buckets /\ buckets'[j] = buckets[j]
      BY <1>1, <1>a, <1>8, LimitsSweptKeeps
    <3> QED BY <2>1, <2>3, <3>1 DEF LimitsIInv, LimitsKeyOK, G!Expired, LimitsShut, LimitsLast
  <2> QED BY <2>2, <2>3
<1> QED BY <1>6, <1>7, <1>8 DEF LimitsIInv

LEMMA LimitsNextInv == LimitsIInv /\ [G!Next]_(G!vars) => LimitsIInv'
<1> SUFFICES ASSUME LimitsIInv, [G!Next]_(G!vars) PROVE LimitsIInv'
  OBVIOUS
<1>1. CASE UNCHANGED G!vars
  BY <1>1 DEF G!vars, LimitsIInv, LimitsTypes, LimitsKeyOK, LimitsOpen, LimitsShut, LimitsLast, G!Expired
<1> QED BY <1>1, LimitsTickInv, LimitsCheckInv DEF G!Next

LEMMA LimitsInvLimits == LimitsIInv => G!TypeOK /\ G!LessThanTwice
<1> SUFFICES ASSUME LimitsIInv PROVE G!TypeOK /\ G!LessThanTwice
  OBVIOUS
<1>1. G!TypeOK
  BY LimitsConstants DEF LimitsIInv, LimitsTypes, G!TypeOK, LimitsRows
<1>2. ASSUME NEW k \in Keys
      PROVE  /\ SumFunctionOnSet(recent[k], 0..Window-1) < 2 * Limit
             /\ k \in DOMAIN buckets /\ ~G!Expired(buckets[k]) /\ buckets[k].count >= Limit
                  => SumFunctionOnSet(recent[k], 0..(now - buckets[k].start)) = Limit
  <2>1. LimitsLast(k, Window) = SumFunctionOnSet(recent[k], 0..Window-1) /\ LimitsLast(k, Window) \in Nat
    BY LimitsConstants, LimitsLastNat DEF LimitsLast, Prefix, LimitsIInv
  <2>2. CASE k \in DOMAIN buckets /\ ~G!Expired(buckets[k])
    <3>1. PICK e : e = now - buckets[k].start
      OBVIOUS
    <3>2. e \in 0..Window-1 /\ buckets[k].count \in Nat /\ LimitsOpen(k, buckets[k], e)
      BY <2>2, <3>1, LimitsConstants DEF LimitsIInv, LimitsTypes, LimitsRows, G!Expired, LimitsKeyOK
    <3>3. LimitsLast(k, e + 1) = SumFunctionOnSet(recent[k], 0..e)
      <4>1. (e + 1) - 1 = e
        BY <3>2, LimitsConstants
      <4> QED BY <4>1 DEF LimitsLast, Prefix
    <3>4. e + 1 \in 1..Window
      BY <3>2, LimitsConstants
    <3>5. LimitsLast(k, e + 1) \in Nat
      BY <3>4, LimitsLastNat DEF LimitsIInv
    <3> QED BY <2>1, <2>2, <3>1, <3>2, <3>3, <3>5, LimitsConstants DEF LimitsOpen
  <2>3. CASE ~(k \in DOMAIN buckets /\ ~G!Expired(buckets[k]))
    <3>1. LimitsShut(k)
      BY <2>3 DEF LimitsIInv, LimitsKeyOK
    <3> QED BY <2>1, <2>3, <3>1, LimitsConstants DEF LimitsShut
  <2> QED BY <2>2, <2>3
<1> QED BY <1>1, <1>2, LimitsSum DEF G!LessThanTwice

LEMMA LimitsSpecInv == G!Init /\ [][G!Next]_(G!vars) => [](G!TypeOK /\ G!LessThanTwice)
<1>1. G!Init /\ [][G!Next]_(G!vars) => []LimitsIInv
  BY LimitsInitInv, LimitsNextInv, PTL
<1> QED BY <1>1, LimitsInvLimits, PTL
-----------------------------------------------------------------------------
(* All services. *)

\* The state of every service keeps its type, whichever of them moves.
THEOREM ServicesTypeCorrect == Spec => []TypeOK
<1>1. Spec => [](E!TypeOK /\ H!TypeOK /\ F!TypeOK /\ B!TypeOK)
  BY EventsRun, EventsSpecInv, HooksRun, HooksSpecInv, ServersRun, ServersSpecInv,
     BreakerRun, BreakerSpecInv, PTL
<1>2. Spec => [](Y!TypeOK /\ U!TypeOK /\ L!TypeOK /\ D!TypeOK)
  BY ClientsRun, ClientsSpecInv, InputsRun, InputsSpecInv, RowsRun, RowsSpecInv,
     ContentsRun, ContentsSpecInv, PTL
<1>3. Spec => [](W!TypeOK /\ R!TypeOK /\ O!TypeOK /\ V!TypeOK)
  BY FeedsRun, FeedsSpecInv, TokensRun, TokensSpecInv, GrantsRun, GrantsSpecInv,
     VerdictsRun, VerdictsSpecInv, PTL
<1>4. Spec => [](A!TypeOK /\ T!TypeOK /\ P!TypeOK /\ S!TypeOK /\ G!TypeOK)
  BY TasksRun, TasksSpecInv, TrustRun, TrustSpecInv, ShopRun, ShopSpecInv,
     SnapshotsRun, SnapshotsSpecInv, LimitsRun, LimitsSpecInv, PTL
<1>5. Spec => [](C!TypeOK /\ X!TypeOK /\ Q!TypeOK)
  <2>1. Spec => C!Spec /\ X!Spec /\ Q!Spec
    BY ChainsRun, ActionsRun, QueueRun DEF C!Spec, X!Spec, Q!Spec
  <2> QED BY <2>1, ChainsTypeCorrect, ActionsTypeCorrect, QueueSpecTypes, PTL
<1>6. /\ E!TypeOK /\ H!TypeOK /\ F!TypeOK /\ B!TypeOK
      /\ Y!TypeOK /\ U!TypeOK /\ L!TypeOK /\ D!TypeOK
      /\ W!TypeOK /\ R!TypeOK /\ O!TypeOK /\ V!TypeOK
      /\ A!TypeOK /\ T!TypeOK /\ P!TypeOK /\ S!TypeOK /\ G!TypeOK
      /\ C!TypeOK /\ X!TypeOK /\ Q!TypeOK
      => TypeOK
  BY DEF TypeOK
<1> QED BY <1>1, <1>2, <1>3, <1>4, <1>5, <1>6, PTL

\* A subscription or webhook that is paused had as many failures in a row as it takes, in
\* whatever order the attempts of overlapping fan-outs are recorded
\* (_deliver_to_subscription, _send_webhook).
THEOREM ServicesPausedHadFailures == Spec => []PausedHadFailures
<1>1. E!PausedHadFailures /\ H!PausedHadFailures => PausedHadFailures
  BY DEF PausedHadFailures
<1> QED BY <1>1, EventsRun, EventsSpecInv, HooksRun, HooksSpecInv, PTL

\* What a service took on is not lost: queued webhooks, updates of rows, answers of users,
\* stored contents, published projects and broadcast events are where their module says,
\* and the response of a tasks/sendSubscribe streams only a task that is over, whenever it
\* was canceled or cleaned up, for any number of clients, workers, connections and tasks.
THEOREM ServicesNothingLost == Spec => []NothingLost
<1>1. Spec => Q!Spec
  BY QueueRun DEF Q!Spec
<1>2. Q!NothingLost /\ L!DoneIsStored /\ U!AnswersReachTheCall /\ D!WholeUnlessCut
      /\ P!ListedForGood /\ W!BroadcastsReach /\ A!StreamsAreOver => NothingLost
  BY DEF NothingLost
<1> QED BY <1>1, <1>2, QueuedNothingLost, RowsRun, RowsSpecInv, InputsRun, InputsSpecInv,
           ContentsRun, ContentsSpecInv, ShopRun, ShopSpecInv, FeedsRun, FeedsSpecInv,
           TasksRun, TasksSpecInv, PTL

\* What the checks of tokens, grants, agents, listings and snapshots say is right: of a
\* snapshot, that a verified one is what was imported, whatever became of its rows.
THEOREM ServicesVerdictsAreRight == Spec => []VerdictsAreRight
<1>1. R!VerdictsAreRight /\ O!OnePairAtATime /\ T!NextOneRepairs /\ V!OneJobShows
      /\ S!VerifiedIsImported => VerdictsAreRight
  BY DEF VerdictsAreRight
<1> QED BY <1>1, TokensRun, TokensSpecInv, GrantsRun, GrantsSpecInv, TrustRun, TrustSpecInv,
           VerdictsRun, VerdictsSpecInv, SnapshotsRun, SnapshotsSpecInv, PTL

\* A settled chain execution has paid every priced node of it, once.
THEOREM ServicesSettledMeansPaid == Spec => []SettledMeansPaid
<1>1. Spec => C!Spec
  BY ChainsRun DEF C!Spec
<1>2. C!SettledMeansPaid => SettledMeansPaid
  BY DEF SettledMeansPaid
<1> QED BY <1>1, <1>2, ChainsSettledMeansPaid, PTL

\* The payment of an action agrees with its outcome, through overlapping cancellations.
THEOREM ServicesOutcomeMatchesPayment == Spec => []OutcomeMatchesPayment
<1>1. Spec => X!Spec
  BY ActionsRun DEF X!Spec
<1>2. X!OutcomeMatchesPayment => OutcomeMatchesPayment
  BY DEF OutcomeMatchesPayment
<1> QED BY <1>1, <1>2, ActionsOutcomeMatchesPayment, PTL

\* Servers, agents, the hot cache, A2UI clients and API keys stay within their limits,
\* for every threshold, cache size and rate.
THEOREM ServicesLimitsHold == Spec => []LimitsHold
<1>1. F!OutOnlyAfterFailures /\ B!CountsInARow /\ D!WithinBudget /\ Y!OneConnection
      /\ G!LessThanTwice => LimitsHold
  BY DEF LimitsHold
<1> QED BY <1>1, ServersRun, ServersSpecInv, BreakerRun, BreakerSpecInv, ContentsRun,
           ContentsSpecInv, ClientsRun, ClientsSpecInv, LimitsRun, LimitsSpecInv, PTL

\* A grant that has ended stays so: neither an exchange of its code nor a refresh that was
\* under way gives its client a token that works (exchange_code, refresh_access_token).
THEOREM EndedGrantsStayEnded == Spec => O!EndedStaysEnded
  BY GrantsRun, GrantsSpecEnded, PTL
=============================================================================
