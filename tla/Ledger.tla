------------------------------- MODULE Ledger -------------------------------
(***************************************************************************)
(* The billing ledger, as its writers run on PostgreSQL: transfer, deposit *)
(* and the creator royalty of marketplace/services/token_service.py, and   *)
(* the withdrawal of a creator and its refund, which redemption_service.py *)
(* writes by itself.                                                       *)
(*                                                                         *)
(* A session is one request handler with its own AsyncSession.  Every      *)
(* await is a point where another session may run, so a call is a sequence *)
(* of steps: the idempotency SELECT, one plain SELECT per account, one     *)
(* SELECT ... FOR UPDATE per account in the order of their ids, the        *)
(* balance check, the creator's row, the commit.  The plain SELECTs put    *)
(* the rows in the session's identity map; the locking SELECTs that follow *)
(* find them there and do not refresh them (no populate_existing), so the  *)
(* arithmetic runs on what was read BEFORE the locks were held.            *)
(*                                                                         *)
(* A withdrawal locks the creator's row alone and loads it by the locking  *)
(* SELECT; a refund reads it by a plain SELECT, and only the UPDATE at its *)
(* flush waits for the row.  Neither locks the treasury, and their entries *)
(* have no hashes.                                                         *)
(*                                                                         *)
(* Of a token_accounts row only the balance is kept: the running totals    *)
(* are read and written together with it.                                  *)
(***************************************************************************)
EXTENDS Integers, Sequences, FiniteSets, Functions

CONSTANTS
  Sessions,      \* concurrent request handlers
  Requests,      \* the calls that callers make, retries being the same call
  Accounts,      \* rows of token_accounts
  Platform,      \* the treasury row (agent_id and creator_id NULL)
  None,          \* "no row", "not loaded", "no request"
  Kind,          \* "deposit", "purchase" (also "sale"), "transfer",
                 \* "withdrawal" or "refund"
  From,          \* paying account of a request, None for a deposit or a refund
  To,            \* receiving account, None for a withdrawal
  Undoes,        \* the withdrawal a refund gives back, None for the others
  Amount,        \* amount in the ledger's smallest unit
  Keyed,         \* requests that carry an idempotency key
  Creators,      \* the rows that have a creator_id
  CreatorOf,     \* creator's account of an agent's account, or None
  Rank,          \* position of an account's id in the sorted order
  Fee(_),        \* platform_fee_pct of an amount
  Royalty(_),    \* creator_royalty_pct of a net amount
  Opening,       \* balances before the behaviour starts
  Workloads      \* bound: how often each request is sent, in one case and another

ASSUME AccountsAssumption ==
  /\ Platform \in Accounts
  /\ None \notin Accounts /\ None \notin Requests /\ None \notin Nat
  /\ IsFiniteSet(Accounts) /\ Rank \in [Accounts -> 1 .. Cardinality(Accounts)]
  /\ \A a, b \in Accounts : Rank[a] = Rank[b] => a = b
  /\ Opening \in [Accounts -> Nat]

\* Only what goes through token_service carries an idempotency key.
ASSUME RequestsAssumption ==
  /\ Kind \in [Requests -> {"deposit", "purchase", "transfer", "withdrawal", "refund"}]
  /\ From \in [Requests -> Accounts \cup {None}]
  /\ To \in [Requests -> Accounts \cup {None}]
  /\ Undoes \in [Requests -> Requests \cup {None}]
  /\ Amount \in [Requests -> Nat \ {0}]
  /\ Keyed \subseteq {q \in Requests : Kind[q] \notin {"withdrawal", "refund"}}
  /\ \A q \in Requests : /\ Kind[q] \in {"deposit", "refund"} <=> From[q] = None
                         /\ Kind[q] = "withdrawal" <=> To[q] = None
                         /\ Kind[q] = "refund" <=> Undoes[q] # None
  /\ Workloads \subseteq [Requests -> Nat]

\* An agent's account is never a creator's account nor the treasury; the
\* creators withdraw, the agents pay each other and deposit.
ASSUME CreatorsAssumption ==
  /\ Creators \subseteq Accounts /\ Platform \notin Creators
  /\ CreatorOf \in [Accounts -> Creators \cup {None}]
  /\ \A q \in Requests : /\ From[q] # Platform /\ To[q] # Platform
                         /\ IF Kind[q] \in {"withdrawal", "refund"}
                              THEN {From[q], To[q]} \ {None} \subseteq Creators
                              ELSE {From[q], To[q]} \cap Creators = {}

ASSUME RatesAssumption ==
  \A q \in Requests : \A n \in 0 .. Amount[q] : Fee(n) \in 0 .. n /\ Royalty(n) \in 0 .. n

VARIABLES
  balance,   \* committed token_accounts.balance
  ledger,    \* committed token_ledger rows, in the order of the commits
  clock,     \* the last created_at that was given out
  pc,        \* where a session's call is
  req,       \* the request a session serves
  seen,      \* a session's identity map: the balances it works with
  held,      \* the row locks a session holds
  draft,     \* the token_ledger rows a session has added and not committed
  unsent,    \* how often a request will still be sent
  replies    \* the kinds of answer a request has received

vars == <<balance, ledger, clock, pc, req, seen, held, draft, unsent, replies>>
-----------------------------------------------------------------------------
(* What a request touches and what it moves. *)

IsDeposit(q) == Kind[q] = "deposit"
HasCreator(q) == Kind[q] = "purchase" /\ CreatorOf[To[q]] # None

\* The calls of redemption_service: no treasury, no key, no hashes.
Plain(q) == Kind[q] \in {"withdrawal", "refund"}

\* The rows a call works with ...
Rows(q) == ({From[q], To[q]} \ {None}) \cup (IF Plain(q) THEN {} ELSE {Platform})

\* ... those it locks by a SELECT (a refund locks by its UPDATE) ...
OnlyReceiver(q) == IF Plain(q) THEN {From[q]} \ {None} ELSE {To[q]}       \* mutant
LockIds(q) == IF Kind[q] = "refund" THEN {} ELSE Rows(q)

\* ... and where the call goes when the plain SELECTs are over.
Loading(q) == IF Kind[q] = "withdrawal" THEN "lock" ELSE "resolve"
LockingOf(q) == IF LockIds(q) = {} THEN "apply" ELSE "lock"

FeeOf(q) == IF Kind[q] \in {"purchase", "transfer"} THEN Fee(Amount[q]) ELSE 0
Net(q) == Amount[q] - FeeOf(q)

Add(m, a, n) == [m EXCEPT ![a] = @ + n]

\* The assignments to the account objects, in the order of the source.
GrossTransfer(q, m) ==                                                 \* mutant
  IF From[q] = None THEN Add(m, To[q], Amount[q])
  ELSE IF To[q] = None THEN Add(m, From[q], -Amount[q])
  ELSE Add(Add(Add(m, From[q], -Amount[q]), To[q], Amount[q]), Platform, FeeOf(q))
AfterTransfer(q, m) ==
  IF From[q] = None THEN Add(m, To[q], Amount[q])
  ELSE IF To[q] = None THEN Add(m, From[q], -Amount[q])
  ELSE Add(Add(Add(m, From[q], -Amount[q]), To[q], Net(q)), Platform, FeeOf(q))

\* "Don't overdraw -- transfer what's available."
RoyaltyOf(q, m) ==
  IF m[To[q]] < Royalty(Net(q)) THEN m[To[q]] ELSE Royalty(Net(q))

UndebitedRoyalty(q, m) ==                                              \* mutant
  IF HasCreator(q) THEN Add(m, CreatorOf[To[q]], RoyaltyOf(q, m)) ELSE m
AfterRoyalty(q, m) ==
  IF HasCreator(q)
    THEN Add(Add(m, To[q], -RoyaltyOf(q, m)), CreatorOf[To[q]], RoyaltyOf(q, m))
    ELSE m

\* The ledger rows of a call, written at time n after a row whose hash is p.
Row(q, p, n) ==
  [req |-> q, type |-> Kind[q], from |-> From[q], to |-> To[q],
   amount |-> Amount[q], fee |-> FeeOf(q), prev |-> p, at |-> n]
RoyaltyRow(q, m, p, n) ==
  [req |-> q, type |-> "creator_royalty", from |-> To[q], to |-> CreatorOf[To[q]],
   amount |-> RoyaltyOf(q, m), fee |-> 0, prev |-> p, at |-> n]

\* A row's hash is named by its created_at; withdrawals and refunds have none.
Hashed(e) == e.type \notin {"withdrawal", "refund"}

\* SELECT entry_hash ... ORDER BY created_at DESC LIMIT 1 over the rows R.
Newest(R, e) == e \in R /\ \A f \in R : f.at <= e.at
LatestHash(R) ==
  IF \E e \in R : Newest(R, e) /\ Hashed(e)
    THEN (CHOOSE e \in R : Newest(R, e) /\ Hashed(e)).at
    ELSE None

Posted(q) == \E i \in DOMAIN ledger : ledger[i].req = q

\* The unique index on idempotency_key.
NoIndex(q) == TRUE                                                     \* mutant
Unique(q) == q \in Keyed => ~Posted(q)
-----------------------------------------------------------------------------
NothingLoaded == [a \in Accounts |-> None]
Loaded(s) == {a \in Accounts : seen[s][a] # None}
Locked(a) == \E s \in Sessions : a \in held[s]

Init ==
  /\ balance = Opening
  /\ ledger = <<>>
  /\ clock = 0
  /\ pc = [s \in Sessions |-> "idle"]
  /\ req = [s \in Sessions |-> None]
  /\ seen = [s \in Sessions |-> NothingLoaded]
  /\ held = [s \in Sessions |-> {}]
  /\ draft = [s \in Sessions |-> <<>>]
  /\ unsent \in Workloads
  /\ replies = [q \in Requests |-> {}]

\* The end of a call, committed or rolled back: the session is closed, its
\* locks and its identity map are gone.
Leave(s) ==
  /\ pc' = [pc EXCEPT ![s] = "idle"]
  /\ req' = [req EXCEPT ![s] = None]
  /\ seen' = [seen EXCEPT ![s] = NothingLoaded]
  /\ held' = [held EXCEPT ![s] = {}]
  /\ draft' = [draft EXCEPT ![s] = <<>>]

Reply(q, answer) == replies' = [replies EXCEPT ![q] = @ \cup {answer}]

\* transfer: the idempotency check finds no entry with this key.  deposit has
\* no such check, it relies on the unique index alone.  A refund finds the
\* redemption whose withdrawal it gives back (admin_reject_redemption looks at
\* no status; the check of cancel_redemption is in Redemptions).
Begin(s, q) ==
  /\ pc[s] = "idle" /\ unsent[q] > 0
  /\ q \in Keyed /\ ~IsDeposit(q) => ~Posted(q)
  /\ Kind[q] = "refund" => Posted(Undoes[q])
  /\ pc' = [pc EXCEPT ![s] = Loading(q)]
  /\ req' = [req EXCEPT ![s] = q]
  /\ unsent' = [unsent EXCEPT ![q] = @ - 1]
  /\ UNCHANGED <<balance, ledger, clock, seen, held, draft, replies>>

\* transfer: the check finds the entry and returns it.
Replay(s, q) ==
  /\ pc[s] = "idle" /\ unsent[q] > 0
  /\ q \in Keyed /\ ~IsDeposit(q) /\ Posted(q)
  /\ unsent' = [unsent EXCEPT ![q] = @ - 1]
  /\ Reply(q, "replay")
  /\ UNCHANGED <<balance, ledger, clock, pc, req, seen, held, draft>>

\* The plain SELECTs: sender, receiver, treasury.
NextToLoad(s) ==
  LET q == req[s] IN
  IF From[q] \notin Loaded(s) \cup {None} THEN From[q]
  ELSE IF To[q] \notin Loaded(s) THEN To[q]
  ELSE Platform

Resolve(s) ==
  LET a == NextToLoad(s) IN
  /\ pc[s] = "resolve"
  /\ seen' = [seen EXCEPT ![s][a] = balance[a]]
  /\ pc' = [pc EXCEPT ![s] = IF Rows(req[s]) \subseteq Loaded(s) \cup {a}
                               THEN LockingOf(req[s]) ELSE "resolve"]
  /\ UNCHANGED <<balance, ledger, clock, req, held, draft, unsent, replies>>

\* sorted(lock_ids): the row that a session asks for next.
UnsortedNextLock(s, a) ==                                              \* mutant
  a = IF From[req[s]] \notin held[s] \cup {None} THEN From[req[s]]
      ELSE IF To[req[s]] \notin held[s] THEN To[req[s]] ELSE Platform
NextLock(s, a) ==
  /\ a \in LockIds(req[s]) \ held[s]
  /\ \A b \in LockIds(req[s]) \ held[s] : Rank[a] <= Rank[b]

\* SELECT ... FOR UPDATE: waits for the lock, and loads the row only if it is
\* not in the identity map.
Lock(s) ==
  /\ pc[s] = "lock"
  /\ \E a \in Accounts :
       /\ NextLock(s, a) /\ ~Locked(a)
       /\ held' = [held EXCEPT ![s] = @ \cup {a}]
       /\ seen' = [seen EXCEPT ![s][a] = IF a \in Loaded(s) THEN @ ELSE balance[a]]
       /\ pc' = [pc EXCEPT ![s] = IF LockIds(req[s]) \subseteq held[s] \cup {a}
                                    THEN "apply" ELSE "lock"]
  /\ UNCHANGED <<balance, ledger, clock, req, draft, unsent, replies>>

Unchecked(s) == TRUE                                                   \* mutant
Covered(s) == \A a \in {From[req[s]]} \ {None} : seen[s][a] >= Amount[req[s]]

\* The balance check fails: ValueError, the session rolls back.
Refuse(s) ==
  /\ pc[s] = "apply" /\ ~Covered(s)
  /\ Reply(req[s], "refused")
  /\ Leave(s)
  /\ UNCHANGED <<balance, ledger, clock, unsent>>

AfterApply(q) ==
  IF HasCreator(q) THEN "royalty" ELSE IF Kind[q] = "refund" THEN "flush" ELSE "commit"

\* The account objects are changed, the latest entry_hash is read (not by a
\* withdrawal or a refund) and the entry is added with its created_at.
Apply(s) ==
  LET q == req[s]
      p == IF Plain(q) THEN None ELSE LatestHash(Range(ledger)) IN
  /\ pc[s] = "apply" /\ Covered(s)
  /\ clock' = clock + 1
  /\ draft' = [draft EXCEPT ![s] = <<Row(q, p, clock + 1)>>]
  /\ pc' = [pc EXCEPT ![s] = AfterApply(q)]
  /\ UNCHANGED <<balance, ledger, req, seen, held, unsent, replies>>

\* _process_creator_royalty.  The entry has been flushed (autoflush), so the
\* unique index has accepted it.  The creator's row is first loaded by the
\* locking SELECT itself, so it is fresh; the latest entry is read again, and
\* may be one that a withdrawal or a refund committed in the meantime.
LockCreator(s) ==
  LET q == req[s]
      c == CreatorOf[To[q]]
      m == AfterTransfer(q, seen[s])
      p == LatestHash(Range(ledger) \cup Range(draft[s])) IN
  /\ pc[s] = "royalty" /\ Unique(q) /\ ~Locked(c)
  /\ held' = [held EXCEPT ![s] = @ \cup {c}]
  /\ seen' = [seen EXCEPT ![s][c] = balance[c]]
  /\ IF RoyaltyOf(q, m) > 0
       THEN /\ clock' = clock + 1
            /\ draft' = [draft EXCEPT ![s] = Append(@, RoyaltyRow(q, m, p, clock + 1))]
       ELSE UNCHANGED <<clock, draft>>
  /\ pc' = [pc EXCEPT ![s] = "commit"]
  /\ UNCHANGED <<balance, ledger, req, unsent, replies>>

\* The UPDATE of a refund waits for the row and writes what was read before.
Flush(s) ==
  LET a == To[req[s]] IN
  /\ pc[s] = "flush" /\ ~Locked(a)
  /\ held' = [held EXCEPT ![s] = {a}]
  /\ pc' = [pc EXCEPT ![s] = "commit"]
  /\ UNCHANGED <<balance, ledger, clock, req, seen, draft, unsent, replies>>

\* The columns the unit of work sends: those that a flush finds changed.  The
\* transfer is flushed before the royalty is worked out.
Dirty(q, m) ==
  {a \in Accounts : \/ AfterTransfer(q, m)[a] # m[a]
                    \/ AfterRoyalty(q, AfterTransfer(q, m))[a] # AfterTransfer(q, m)[a]}

Commit(s) ==
  LET q == req[s]
      m == AfterTransfer(q, seen[s]) IN
  /\ pc[s] = "commit"
  /\ Unique(q)
  /\ balance' = [a \in Accounts |-> IF a \in Dirty(q, seen[s])
                                      THEN AfterRoyalty(q, m)[a] ELSE balance[a]]
  /\ ledger' = ledger \o draft[s]
  /\ Reply(q, "ok")
  /\ Leave(s)
  /\ UNCHANGED <<clock, unsent>>

\* The unique index refuses the entry: IntegrityError, rolled back.  In the
\* flush before the royalty the exception is swallowed, and the commit on the
\* session that was rolled back raises.
Conflict(s) ==
  /\ pc[s] \in {"royalty", "commit"}
  /\ ~Unique(req[s])
  /\ Reply(req[s], "error")
  /\ Leave(s)
  /\ UNCHANGED <<balance, ledger, clock, unsent>>

\* The process or the connection dies before the commit.
Crash(s) ==
  /\ pc[s] # "idle"
  /\ Leave(s)
  /\ UNCHANGED <<balance, ledger, clock, unsent, replies>>

Step(s) == Resolve(s) \/ Lock(s) \/ Refuse(s) \/ Apply(s) \/ LockCreator(s)
             \/ Flush(s) \/ Commit(s) \/ Conflict(s)

\* Every request that has a redemption to work on was sent as often as the
\* workload has it, nothing is running.
Finished ==
  /\ \A s \in Sessions : pc[s] = "idle"
  /\ \A q \in Requests : \/ unsent[q] = 0
                         \/ Kind[q] = "refund" /\ ~Posted(Undoes[q])
  /\ UNCHANGED vars

Next == \/ \E s \in Sessions : \/ \E q \in Requests : Begin(s, q) \/ Replay(s, q)
                               \/ Step(s)
                               \/ Crash(s)
        \/ Finished

Spec == Init /\ [][Next]_vars

\* The event loop resumes every coroutine that can run and PostgreSQL grants a
\* lock that is free.  Callers and crashes have no fairness.
FairSpec == Spec /\ \A s \in Sessions : WF_vars(Step(s))
-----------------------------------------------------------------------------
(* Properties. *)

Entry == [req : Requests,
          type : {"deposit", "purchase", "transfer", "withdrawal", "refund", "creator_royalty"},
          from : Accounts \cup {None}, to : Accounts \cup {None},
          amount : Nat, fee : Nat, prev : Nat \cup {None}, at : Nat]

\* Types; in particular no balance is ever negative, whatever the snapshots
\* the arithmetic ran on (ck_token_balance_nonneg never fires).
TypeOK ==
  /\ balance \in [Accounts -> Nat]
  /\ ledger \in Seq(Entry) /\ clock \in Nat
  /\ pc \in [Sessions -> {"idle", "resolve", "lock", "apply", "royalty", "flush", "commit"}]
  /\ req \in [Sessions -> Requests \cup {None}]
  /\ seen \in [Sessions -> [Accounts -> Nat \cup {None}]]
  /\ held \in [Sessions -> SUBSET Accounts]
  /\ draft \in [Sessions -> Seq(Entry)]
  /\ unsent \in [Requests -> Nat]
  /\ replies \in [Requests -> SUBSET {"ok", "replay", "refused", "error"}]

\* Idempotency: a keyed call posts its movement at most once however often and
\* however concurrently it is sent, and a caller that was told it is done (or
\* was done before) can rely on the entry being there.
OncePerKey ==
  \A q \in Keyed :
    /\ \A i, j \in DOMAIN ledger :
         /\ ledger[i].req = q /\ ledger[i].type = Kind[q]
         /\ ledger[j].req = q /\ ledger[j].type = Kind[q]
         => i = j
    /\ replies[q] \cap {"ok", "replay"} # {} => Posted(q)

\* What a session waits for, if it waits.
WaitsFor(s, t) ==
  /\ s # t
  /\ \/ pc[s] = "lock" /\ \E a \in held[t] : NextLock(s, a)
     \/ pc[s] = "royalty" /\ CreatorOf[To[req[s]]] \in held[t]
     \/ pc[s] = "flush" /\ To[req[s]] \in held[t]

\* "Deterministic lock ordering ... prevents deadlocks": there is no set of
\* sessions each of which waits for another one of the set.  The creator's row
\* is taken out of the sorted order, after the treasury's, and by withdrawals
\* and refunds without the treasury's.
NoDeadlock ==
  \A W \in SUBSET Sessions :
    W # {} => \E s \in W : \A t \in W : ~WaitsFor(s, t)

\* The row that e names as its predecessor is the last one with a hash before
\* it; e names none only if there is no such row, or if a row without a hash
\* was written in between.
Linked(e, R) ==
  IF e.prev # None
    THEN /\ e.prev < e.at
         /\ \E h \in R : Hashed(h) /\ h.at = e.prev
         /\ \A g \in R : Hashed(g) => g.at <= e.prev \/ e.at <= g.at
    ELSE \A h \in R : Hashed(h) /\ h.at < e.at =>
           \E u \in R : ~Hashed(u) /\ h.at < u.at /\ u.at < e.at

\* The hash chain never forks and skips no hashed row, although the
\* predecessor is read before the insert and a royalty call waits for a lock in
\* between; only the rows of withdrawals and refunds cut it.
ChainNeverForks ==
  \A e \in Range(ledger) : Hashed(e) => Linked(e, Range(ledger))

\* A committed balance changes only in a step of a session that held the row's
\* lock, also where the row was never among lock_ids (the creator's).
WritesUnderLock ==
  [][\A a \in Accounts : balance'[a] # balance[a] =>
       \E s \in Sessions : a \in held[s] /\ pc[s] = "commit" /\ pc'[s] = "idle"]_vars

\* Double entry: every balance is its opening value plus what the entries say.
Effect(e, a) == (IF e.to = a THEN e.amount - e.fee ELSE 0)
                + (IF a = Platform THEN e.fee ELSE 0)
                - (IF e.from = a THEN e.amount ELSE 0)
Entered(a) == SumFunction([i \in DOMAIN ledger |-> Effect(ledger[i], a)])
BalancesMatchLedger == \A a \in Accounts : balance[a] = Opening[a] + Entered(a)

\* Every call ends: no session waits for ever for a lock.
CallsEnd == \A s \in Sessions : pc[s] # "idle" ~> pc[s] = "idle"
-----------------------------------------------------------------------------
(* What the callers are promised: the abstract ledger. *)

Bank == INSTANCE Bank WITH
  funds <- balance,
  posted <- {ledger[i].req : i \in DOMAIN ledger}
BankSpec == Bank!Spec
=============================================================================
