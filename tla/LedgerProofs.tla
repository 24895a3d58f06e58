---------------------------- MODULE LedgerProofs ----------------------------
(***************************************************************************)
(* Machine-checked proofs about Ledger, for any number of sessions,        *)
(* accounts and requests.  One inductive invariant, IInv, carries all of   *)
(* them: what a session has loaded, locked and drafted at each point of    *)
(* its call, and how the drafts relate to the committed entries.           *)
(***************************************************************************)
EXTENDS Ledger, Sums

Book == [Accounts -> Nat \cup {None}]
Drafting == {"royalty", "flush", "commit"}

\* What a call has loaded: every row it works with from the balance check on,
\* and the creator's row when it may commit.
LoadAt(s) ==
  /\ pc[s] # "idle" => req[s] \in Requests
  /\ pc[s] = "resolve" => Kind[req[s]] # "withdrawal"
  /\ pc[s] = "lock" => held[s] \subseteq Loaded(s)
  /\ pc[s] \in {"apply"} \cup Drafting => Rows(req[s]) \subseteq Loaded(s)
  /\ pc[s] \in Drafting => Covered(s)
  /\ pc[s] = "royalty" => HasCreator(req[s])
  /\ pc[s] = "flush" => Kind[req[s]] = "refund"
  /\ pc[s] = "commit" /\ HasCreator(req[s]) => CreatorOf[To[req[s]]] \in Loaded(s)
LoadInv == \A s \in Sessions : LoadAt(s)

\* The row of the creator, for a call that pays a royalty.
Upward(q) == IF HasCreator(q) THEN {CreatorOf[To[q]]} ELSE {}

\* What a call has locked: a prefix of its rows in the order of the ids, all
\* of them from the balance check on; no row is locked twice.
LockAt(s) ==
  /\ pc[s] \in {"idle", "resolve", "flush"} => held[s] = {}
  /\ pc[s] = "lock" => /\ Kind[req[s]] # "refund"
                       /\ held[s] \subseteq Rows(req[s])
                       /\ \A a \in held[s], b \in Rows(req[s]) \ held[s] : Rank[a] < Rank[b]
  /\ pc[s] = "apply" => held[s] = LockIds(req[s])
  /\ pc[s] = "royalty" => held[s] = Rows(req[s])
  /\ pc[s] = "commit" => held[s] = Rows(req[s]) \cup Upward(req[s])
LockInv ==
  /\ \A s, t \in Sessions : s # t => held[s] \cap held[t] = {}
  /\ \A s \in Sessions : LockAt(s)

\* What a call has added to its session: its entry, and the royalty's if it
\* pays one.
First(q, d) == d[1] = Row(q, d[1].prev, d[1].at)
Whole(q, b, d) ==
  LET m == AfterTransfer(q, b) IN
  IF HasCreator(q) /\ RoyaltyOf(q, m) > 0
    THEN Len(d) = 2 /\ d[2] = RoyaltyRow(q, m, d[2].prev, d[2].at)
    ELSE Len(d) = 1
DraftAt(s) ==
  /\ pc[s] \in Drafting => First(req[s], draft[s]) /\ Len(draft[s]) >= 1
  /\ pc[s] \in {"royalty", "flush"} => Len(draft[s]) = 1
  /\ pc[s] = "commit" => Whole(req[s], seen[s], draft[s])
DraftInv == \A s \in Sessions : DraftAt(s)

\* Every created_at was given out once.
StampInv ==
  /\ \A e \in Range(ledger) : e.at <= clock
  /\ \A s \in Sessions : \A d \in Range(draft[s]) :
       d.at <= clock /\ \A e \in Range(ledger) : d.at # e.at
  /\ \A s, t \in Sessions : s # t =>
       \A d \in Range(draft[s]), e \in Range(draft[t]) : d.at # e.at
  /\ \A e, f \in Range(ledger) : Hashed(e) /\ ~Hashed(f) => e.at # f.at

\* A hashed draft continues the chain of the committed entries until it is
\* committed itself: nobody else appends a hashed entry in the meantime.
LinkAt(s) ==
  pc[s] \in {"royalty", "commit"} /\ ~Plain(req[s]) =>
    /\ \A e \in Range(ledger) : Hashed(e) => e.at < draft[s][1].at
    /\ Linked(draft[s][1], Range(ledger))
    /\ Len(draft[s]) = 2 => /\ draft[s][1].at < draft[s][2].at
                            /\ Linked(draft[s][2], Range(ledger) \cup {draft[s][1]})
LinkInv == \A s \in Sessions : LinkAt(s)

IInv == /\ TypeOK /\ LoadInv /\ LockInv /\ DraftInv /\ StampInv /\ LinkInv
        /\ ChainNeverForks /\ OncePerKey
-----------------------------------------------------------------------------
(* Arithmetic of one call. *)

\* Rows hold what the constants allow; the treasury is one of them for every
\* call that goes through token_service.
LEMMA RowsFacts ==
  ASSUME NEW q \in Requests
  PROVE  /\ Rows(q) \subseteq Accounts
         /\ From[q] # None => From[q] \in Rows(q)
         /\ To[q] # None => To[q] \in Rows(q)
         /\ ~Plain(q) => To[q] # None /\ Platform \in Rows(q)
         /\ HasCreator(q) => ~Plain(q) /\ From[q] # None
         /\ From[q] # None /\ To[q] # None => ~Plain(q)
         /\ From[q] # Platform /\ To[q] # Platform
         /\ Amount[q] \in Nat /\ FeeOf(q) \in 0 .. Amount[q] /\ Net(q) \in 0 .. Amount[q]
         /\ Royalty(Net(q)) \in 0 .. Net(q)
         /\ From[q] = None \/ To[q] = None => FeeOf(q) = 0
<1>1. /\ Kind[q] \in {"deposit", "purchase", "transfer", "withdrawal", "refund"}
      /\ From[q] \in Accounts \cup {None} /\ To[q] \in Accounts \cup {None}
      /\ Amount[q] \in Nat
      /\ Kind[q] \in {"deposit", "refund"} <=> From[q] = None
      /\ Kind[q] = "withdrawal" <=> To[q] = None
  BY RequestsAssumption
<1>2. Platform \in Accounts /\ From[q] # Platform /\ To[q] # Platform
  BY AccountsAssumption, CreatorsAssumption
<1>3. \A n \in 0 .. Amount[q] : Fee(n) \in 0 .. n /\ Royalty(n) \in 0 .. n
  BY RatesAssumption
<1>4. FeeOf(q) \in 0 .. Amount[q]
  BY <1>1, <1>3 DEF FeeOf
<1>5. Net(q) \in 0 .. Amount[q]
  BY <1>1, <1>4 DEF Net
<1>6. From[q] = None \/ To[q] = None => FeeOf(q) = 0
  BY <1>1 DEF FeeOf
<1> QED BY <1>1, <1>2, <1>3, <1>4, <1>5, <1>6 DEF Rows, Plain, HasCreator

\* A creator's account is none of the rows that a request locks first.
LEMMA CreatorFacts ==
  ASSUME NEW q \in Requests, HasCreator(q)
  PROVE  CreatorOf[To[q]] \in Creators /\ CreatorOf[To[q]] \in Accounts \ Rows(q)
<1>1. To[q] \in Accounts /\ CreatorOf[To[q]] \in Creators /\ {From[q], To[q]} \cap Creators = {}
  BY RequestsAssumption, CreatorsAssumption DEF HasCreator
<1> QED BY <1>1, CreatorsAssumption DEF Rows

\* Which calls touch a creator's row before their royalty.
LEMMA CreatorRows ==
  ASSUME NEW q \in Requests
  PROVE  IF Plain(q) THEN Rows(q) \subseteq Creators ELSE Rows(q) \cap Creators = {}
  BY CreatorsAssumption DEF Rows, Plain

LEMMA KeyedFacts == Keyed \subseteq Requests
  BY RequestsAssumption

LEMMA NoneFacts == None \notin Accounts /\ None \notin Requests /\ None \notin Nat
  BY AccountsAssumption

\* Ids are unique, so the sorted order is strict.
LEMMA RankFacts ==
  /\ Cardinality(Accounts) \in Nat
  /\ \A a \in Accounts : Rank[a] \in Nat /\ Rank[a] <= Cardinality(Accounts)
  /\ \A a, b \in Accounts : a # b => Rank[a] # Rank[b]
<1>1. Cardinality(Accounts) \in Nat
  BY AccountsAssumption, FS_CardinalityType
<1> QED BY <1>1, AccountsAssumption

\* Adding to a loaded entry keeps a book a book.
LEMMA AddBook ==
  ASSUME NEW m \in Book, NEW a \in Accounts, m[a] \in Nat,
         NEW n \in Int, m[a] + n >= 0
  PROVE  /\ Add(m, a, n) \in Book
         /\ Add(m, a, n)[a] = m[a] + n
         /\ \A b \in Accounts \ {a} : Add(m, a, n)[b] = m[b]
         /\ \A b \in Accounts : m[b] \in Nat <=> Add(m, a, n)[b] \in Nat
  BY DEF Add, Book

\* The assignments keep every loaded balance non-negative and load nothing.
LEMMA TransferBook ==
  ASSUME NEW q \in Requests, NEW m \in Book,
         \A a \in Rows(q) : m[a] \in Nat,
         \A a \in {From[q]} \ {None} : m[a] >= Amount[q]
  PROVE  LET n == AfterTransfer(q, m) IN
         /\ n \in Book
         /\ \A b \in Accounts : m[b] \in Nat <=> n[b] \in Nat
<1>1. CASE From[q] = None
  <2>1. AfterTransfer(q, m) = Add(m, To[q], Amount[q])
    BY <1>1 DEF AfterTransfer
  <2>2. To[q] \in Rows(q) /\ To[q] \in Accounts /\ Amount[q] \in Nat
    BY <1>1, RowsFacts, RequestsAssumption
  <2>3. Amount[q] \in Int /\ m[To[q]] \in Nat /\ m[To[q]] + Amount[q] >= 0
    BY <2>2
  <2> QED BY <2>1, <2>2, <2>3, AddBook
<1>2. CASE From[q] # None /\ To[q] = None
  <2>1. AfterTransfer(q, m) = Add(m, From[q], -Amount[q])
    BY <1>2 DEF AfterTransfer
  <2>2. From[q] \in Accounts /\ m[From[q]] \in Nat /\ m[From[q]] >= Amount[q] /\ Amount[q] \in Nat
    BY <1>2, RowsFacts
  <2>3. -Amount[q] \in Int /\ m[From[q]] + (-Amount[q]) >= 0
    BY <2>2
  <2> QED BY <2>1, <2>2, <2>3, AddBook
<1>3. CASE From[q] # None /\ To[q] # None
  <2> DEFINE m1 == Add(m, From[q], -Amount[q])
             m2 == Add(m1, To[q], Net(q))
             m3 == Add(m2, Platform, FeeOf(q))
  <2>0. From[q] \in Accounts /\ To[q] \in Accounts /\ Platform \in Accounts
        /\ {From[q], To[q], Platform} \subseteq Rows(q)
    BY <1>3, RowsFacts
  <2>1. m1 \in Book /\ \A b \in Accounts : m[b] \in Nat <=> m1[b] \in Nat
    <3>1. m[From[q]] \in Nat /\ m[From[q]] >= Amount[q] /\ Amount[q] \in Nat
      BY <1>3, <2>0, RowsFacts
    <3>2. -Amount[q] \in Int /\ m[From[q]] + (-Amount[q]) >= 0
      BY <3>1
    <3> QED BY <2>0, <3>1, <3>2, AddBook
  <2>2. m2 \in Book /\ \A b \in Accounts : m1[b] \in Nat <=> m2[b] \in Nat
    <3>1. m1[To[q]] \in Nat /\ Net(q) \in Nat
      BY <2>0, <2>1, RowsFacts
    <3>2. Net(q) \in Int /\ m1[To[q]] + Net(q) >= 0
      BY <3>1
    <3> HIDE DEF m1
    <3> QED BY <2>0, <2>1, <3>1, <3>2, AddBook
  <2>3. m3 \in Book /\ \A b \in Accounts : m2[b] \in Nat <=> m3[b] \in Nat
    <3>1. m2[Platform] \in Nat /\ FeeOf(q) \in Nat
      BY <2>0, <2>1, <2>2, RowsFacts
    <3>2. FeeOf(q) \in Int /\ m2[Platform] + FeeOf(q) >= 0
      BY <3>1
    <3> HIDE DEF m2
    <3> QED BY <2>0, <2>2, <3>1, <3>2, AddBook
  <2>4. AfterTransfer(q, m) = m3
    BY <1>3 DEF AfterTransfer
  <2> HIDE DEF m3
  <2> QED BY <2>1, <2>2, <2>3, <2>4
<1> QED BY <1>1, <1>2, <1>3

\* So do the royalty's.
LEMMA RoyaltyBook ==
  ASSUME NEW q \in Requests, NEW m \in Book,
         HasCreator(q) => m[To[q]] \in Nat /\ m[CreatorOf[To[q]]] \in Nat
  PROVE  LET n == AfterRoyalty(q, m) IN
         /\ n \in Book
         /\ \A b \in Accounts : m[b] \in Nat <=> n[b] \in Nat
<1>1. CASE ~HasCreator(q)
  BY <1>1 DEF AfterRoyalty
<1>2. CASE HasCreator(q)
  <2> DEFINE r == RoyaltyOf(q, m)
             c == CreatorOf[To[q]]
             m1 == Add(m, To[q], -r)
  <2>0. To[q] \in Accounts /\ c \in Accounts /\ c # To[q] /\ m[To[q]] \in Nat /\ m[c] \in Nat
    BY <1>2, CreatorFacts, RowsFacts
  <2>1. r \in Nat /\ r <= m[To[q]]
    BY <2>0, RowsFacts DEF RoyaltyOf
  <2>2. -r \in Int /\ m[To[q]] + (-r) >= 0
    <3> HIDE DEF r
    <3> QED BY <2>0, <2>1
  <2>3. m1 \in Book /\ \A b \in Accounts : m[b] \in Nat <=> m1[b] \in Nat
    <3> HIDE DEF r
    <3> QED BY <2>0, <2>2, AddBook
  <2>4. m1[c] \in Nat /\ r \in Int /\ m1[c] + r >= 0
    <3>1. m1[c] \in Nat
      BY <2>0, <2>3
    <3> HIDE DEF r, m1
    <3> QED BY <2>1, <3>1
  <2>5. LET n == Add(m1, c, r) IN n \in Book /\ \A b \in Accounts : m1[b] \in Nat <=> n[b] \in Nat
    <3> HIDE DEF r, m1
    <3> QED BY <2>0, <2>3, <2>4, AddBook
  <2>6. AfterRoyalty(q, m) = Add(m1, c, r)
    BY <1>2 DEF AfterRoyalty
  <2> HIDE DEF r, m1, c
  <2> QED BY <2>3, <2>5, <2>6
<1> QED BY <1>1, <1>2

\* The receiver's balance after the transfer, where there is a royalty to pay.
LEMMA ReceiverBook ==
  ASSUME NEW q \in Requests, HasCreator(q), NEW b \in Book,
         \A a \in Rows(q) : b[a] \in Nat,
         \A a \in {From[q]} \ {None} : b[a] >= Amount[q]
  PROVE  LET m == AfterTransfer(q, b) IN
         m \in Book /\ m[To[q]] \in Nat /\ RoyaltyOf(q, m) \in Nat
<1> DEFINE m == AfterTransfer(q, b)
<1>1. m \in Book /\ \A a \in Accounts : b[a] \in Nat <=> m[a] \in Nat
  BY TransferBook
<1>2. To[q] \in Rows(q) /\ To[q] \in Accounts /\ Royalty(Net(q)) \in Nat
  BY RowsFacts
<1> HIDE DEF m
<1>3. m[To[q]] \in Nat
  BY <1>1, <1>2
<1> QED BY <1>1, <1>2, <1>3 DEF RoyaltyOf, m

\* What an entry of a call is.
LEMMA RowFacts ==
  ASSUME NEW q \in Requests, NEW p \in Nat \cup {None}, NEW n \in Nat
  PROVE  LET e == Row(q, p, n) IN
         /\ e \in Entry /\ e = Row(q, e.prev, e.at) /\ e.prev = p /\ e.at = n
         /\ e.req = q /\ e.type = Kind[q]
         /\ Hashed(e) <=> ~Plain(q)
<1>1. Row(q, p, n) \in Entry
  BY RowsFacts, RequestsAssumption DEF Row, Entry
<1> QED BY <1>1 DEF Row, Hashed, Plain

LEMMA RoyaltyRowFacts ==
  ASSUME NEW q \in Requests, HasCreator(q), NEW m, RoyaltyOf(q, m) \in Nat,
         NEW p \in Nat \cup {None}, NEW n \in Nat
  PROVE  LET e == RoyaltyRow(q, m, p, n) IN
         /\ e \in Entry /\ e = RoyaltyRow(q, m, e.prev, e.at) /\ e.prev = p /\ e.at = n
         /\ e.req = q /\ e.type # Kind[q] /\ Hashed(e)
<1>1. RoyaltyRow(q, m, p, n) \in Entry
  BY CreatorFacts, RowsFacts DEF RoyaltyRow, Entry
<1> QED BY <1>1, RequestsAssumption DEF RoyaltyRow, Hashed
-----------------------------------------------------------------------------
(* The chain. *)

\* Every non-empty set of numbers with an upper bound has a largest element.
LEMMA Largest ==
  ASSUME NEW N \in Nat, NEW S \in SUBSET (0 .. N), S # {}
  PROVE  \E x \in S : \A y \in S : y <= x
<1> DEFINE T == {N - x : x \in S}
<1>1. T \subseteq Nat /\ T # {}
  <2>1. \A x \in S : x \in Nat /\ x <= N
    OBVIOUS
  <2>2. \A x \in S : N - x \in Nat
    BY <2>1
  <2> QED BY <2>2
<1> DEFINE Less == {ss \in Nat \X Nat : ss[1] < ss[2]}
<1>2. IsWellFoundedOn(Less, Nat)
  BY NatLessThanWellFounded DEF OpToRel
<1>3. \E n \in T : \A k \in T : ~(<<k, n>> \in Less)
  <2> HIDE DEF T, Less
  <2> QED BY <1>1, <1>2, WFMin
<1>4. PICK n \in T : \A k \in T : ~(k < n)
  BY <1>1, <1>3
<1> QED BY <1>4

\* The entry that reads the latest hash continues the chain of what it reads.
LEMMA ReadsLink ==
  ASSUME NEW R \in SUBSET Entry, NEW c \in Nat, \A f \in R : f.at <= c,
         \A f, g \in R : Hashed(f) /\ ~Hashed(g) => f.at # g.at,
         NEW e \in Entry, e.prev = LatestHash(R), e.at = c + 1
  PROVE  Linked(e, R)
<1>0. \A f \in R : f.at \in Nat
  BY DEF Entry
<1>1. CASE \E f \in R : Newest(R, f) /\ Hashed(f)
  <2> DEFINE x == CHOOSE f \in R : Newest(R, f) /\ Hashed(f)
  <2>1. x \in R /\ Newest(R, x) /\ Hashed(x) /\ e.prev = x.at
    BY <1>1 DEF LatestHash
  <2> HIDE DEF x
  <2>2. e.prev \in Nat /\ e.prev # None /\ e.prev < e.at
    BY <1>0, <2>1, NoneFacts
  <2> QED BY <2>1, <2>2 DEF Linked, Newest
<1>2. CASE ~\E f \in R : Newest(R, f) /\ Hashed(f)
  <2>1. e.prev = None
    BY <1>2 DEF LatestHash
  <2>2. ASSUME NEW h \in R, Hashed(h)
        PROVE  \E u \in R : ~Hashed(u) /\ h.at < u.at /\ u.at < e.at
    <3> DEFINE S == {f.at : f \in R}
    <3>1. S \in SUBSET (0 .. c) /\ S # {}
      BY <1>0
    <3>2. PICK n \in S : \A y \in S : y <= n
      <4> HIDE DEF S
      <4> QED BY <3>1, Largest
    <3>3. PICK v \in R : v.at = n
      BY <3>2
    <3>4. Newest(R, v)
      BY <3>2, <3>3 DEF Newest
    <3>5. ~Hashed(v)
      BY <1>2, <3>4
    <3>6. h.at <= v.at /\ h.at # v.at /\ v.at <= c /\ h.at \in Nat /\ v.at \in Nat
      BY <1>0, <2>2, <3>4, <3>5 DEF Newest
    <3> QED BY <3>5, <3>6
  <2> QED BY <2>1, <2>2 DEF Linked
<1> QED BY <1>1, <1>2

\* A link stays one when entries come that are not hashed, or not earlier.
LEMMA LinkedGrows ==
  ASSUME NEW R \in SUBSET Entry, NEW N \in SUBSET Entry, NEW e \in Entry, Linked(e, R),
         \A g \in N : Hashed(g) => e.at <= g.at
  PROVE  Linked(e, R \cup N)
<1>1. \A g \in N : g.at \in Nat /\ e.at \in Nat
  BY DEF Entry
<1>2. CASE e.prev # None
  BY <1>2 DEF Linked
<1>3. CASE e.prev = None
  <2>1. \A h \in R : Hashed(h) /\ h.at < e.at => \E u \in R : ~Hashed(u) /\ h.at < u.at /\ u.at < e.at
    BY <1>3 DEF Linked
  <2>2. \A h \in N : ~(Hashed(h) /\ h.at < e.at)
    BY <1>1
  <2> QED BY <1>3, <2>1, <2>2 DEF Linked
<1> QED BY <1>2, <1>3

LEMMA LatestHashType ==
  ASSUME NEW R \in SUBSET Entry PROVE LatestHash(R) \in Nat \cup {None}
<1>1. CASE \E f \in R : Newest(R, f) /\ Hashed(f)
  BY <1>1 DEF LatestHash, Entry
<1>2. CASE ~\E f \in R : Newest(R, f) /\ Hashed(f)
  BY <1>2 DEF LatestHash
<1> QED BY <1>1, <1>2

\* The entries that are there keep their places when others are appended.
LEMMA AppendFacts ==
  ASSUME NEW S, NEW old \in Seq(S), NEW new \in Seq(S), Len(new) >= 1
  PROVE  LET all == old \o new IN
         /\ all \in Seq(S) /\ Len(all) = Len(old) + Len(new)
         /\ DOMAIN old = 1 .. Len(old) /\ DOMAIN old \subseteq DOMAIN all
         /\ Len(old) + 1 \in DOMAIN all \ DOMAIN old
         /\ \A i \in DOMAIN old : all[i] = old[i]
         /\ \A i \in DOMAIN all \ DOMAIN old :
              i - Len(old) \in DOMAIN new /\ all[i] = new[i - Len(old)]
  OBVIOUS

LEMMA AppendRange ==
  ASSUME NEW S, NEW old \in Seq(S), NEW new \in Seq(S), Len(new) >= 1
  PROVE  Range(old \o new) = Range(old) \cup Range(new)
<1> DEFINE all == old \o new
<1>1. ASSUME NEW i \in DOMAIN new PROVE Len(old) + i \in DOMAIN all /\ all[Len(old) + i] = new[i]
  OBVIOUS
<1>2. /\ DOMAIN old \subseteq DOMAIN all /\ \A i \in DOMAIN old : all[i] = old[i]
      /\ \A i \in DOMAIN all \ DOMAIN old : \E j \in DOMAIN new : all[i] = new[j]
  BY AppendFacts
<1> HIDE DEF all
<1>3. Range(all) \subseteq Range(old) \cup Range(new)
  BY <1>2 DEF Range
<1>4. Range(old) \cup Range(new) \subseteq Range(all)
  BY <1>1, <1>2 DEF Range
<1> QED BY <1>3, <1>4 DEF all

LEMMA ShortRange ==
  ASSUME NEW S, NEW d \in Seq(S)
  PROVE  /\ Range(d) \subseteq S
         /\ Len(d) = 0 => Range(d) = {}
         /\ Len(d) = 1 => Range(d) = {d[1]}
         /\ Len(d) = 2 => Range(d) = {d[1], d[2]}
  BY DEF Range
-----------------------------------------------------------------------------
(* The invariant is inductive. *)

LEMMA InitInv == Init => IInv
  BY AccountsAssumption, RequestsAssumption
     DEF Init, IInv, TypeOK, LoadInv, LoadAt, LockInv, LockAt, DraftInv, DraftAt, StampInv, LinkInv,
         LinkAt, ChainNeverForks, OncePerKey, NothingLoaded, Drafting, Entry, Range

\* A session whose own state a step leaves alone keeps its part of the invariant.
LEMMA Frame ==
  ASSUME NEW t \in Sessions, LoadAt(t), LockAt(t), DraftAt(t),
         pc'[t] = pc[t], req'[t] = req[t], seen'[t] = seen[t], held'[t] = held[t],
         draft'[t] = draft[t]
  PROVE  LoadAt(t)' /\ LockAt(t)' /\ DraftAt(t)' /\ (LinkAt(t) /\ ledger' = ledger => LinkAt(t)')
  BY DEF LoadAt, LockAt, DraftAt, LinkAt, Loaded, Covered

\* A step of session s that writes no entry and drafts none.
LEMMA QuietStep ==
  ASSUME IInv, NEW s \in Sessions, TypeOK', UNCHANGED <<ledger, clock>>,
         \A t \in Sessions \ {s} : /\ pc'[t] = pc[t] /\ req'[t] = req[t] /\ seen'[t] = seen[t]
                                   /\ held'[t] = held[t] /\ draft'[t] = draft[t],
         draft'[s] \in {draft[s], <<>>},
         \A t \in Sessions \ {s} : held'[s] \cap held[t] = {},
         LoadAt(s)', LockAt(s)', DraftAt(s)', LinkAt(s)',
         \A q \in Keyed : replies'[q] \cap {"ok", "replay"} # {} =>
                            replies[q] \cap {"ok", "replay"} # {} \/ Posted(q)
  PROVE  IInv'
<1>1. ASSUME NEW t \in Sessions \ {s} PROVE LoadAt(t)' /\ LockAt(t)' /\ DraftAt(t)' /\ LinkAt(t)'
  BY <1>1, Frame DEF IInv, LoadInv, LockInv, DraftInv, LinkInv
<1>2. LoadInv' /\ LockInv' /\ DraftInv' /\ LinkInv'
  BY <1>1 DEF IInv, LoadInv, LockInv, DraftInv, LinkInv
<1>3. StampInv'
  <2>1. Range(draft'[s]) \subseteq Range(draft[s])
    BY DEF Range
  <2>2. \A t \in Sessions : Range(draft'[t]) \subseteq Range(draft[t])
    BY <2>1
  <2>3. \A t \in Sessions : \A d \in Range(draft'[t]) :
          d.at <= clock' /\ \A e \in Range(ledger') : d.at # e.at
    BY <2>2 DEF IInv, StampInv
  <2>4. ASSUME NEW t \in Sessions, NEW u \in Sessions, t # u,
               NEW d \in Range(draft'[t]), NEW e \in Range(draft'[u])
        PROVE  d.at # e.at
    <3>1. d \in Range(draft[t]) /\ e \in Range(draft[u])
      BY <2>2
    <3> QED BY <2>4, <3>1 DEF IInv, StampInv
  <2>5. /\ \A e \in Range(ledger') : e.at <= clock'
        /\ \A e, f \in Range(ledger') : Hashed(e) /\ ~Hashed(f) => e.at # f.at
    BY DEF IInv, StampInv
  <2> QED BY <2>3, <2>4, <2>5 DEF StampInv
<1>4. ChainNeverForks' /\ OncePerKey'
  BY DEF IInv, ChainNeverForks, OncePerKey, Posted
<1> QED BY <1>2, <1>3, <1>4 DEF IInv

\* A call that ends without a commit.
LEMMA LeaveInv ==
  ASSUME IInv, NEW s \in Sessions, Leave(s),
         UNCHANGED <<balance, ledger, clock, unsent>>,
         replies' \in [Requests -> SUBSET {"ok", "replay", "refused", "error"}],
         \A q \in Requests : replies'[q] \cap {"ok", "replay"} = replies[q] \cap {"ok", "replay"}
  PROVE  IInv'
<1> USE DEF Leave
<1>1. TypeOK'
  BY DEF IInv, TypeOK, NothingLoaded
<1>2. pc'[s] = "idle" /\ held'[s] = {} /\ draft'[s] = <<>>
  BY DEF IInv, TypeOK
<1>3. LoadAt(s)' /\ LockAt(s)' /\ DraftAt(s)' /\ LinkAt(s)'
  BY <1>2 DEF LoadAt, LockAt, DraftAt, LinkAt, Drafting
<1>4. \A t \in Sessions \ {s} : /\ pc'[t] = pc[t] /\ req'[t] = req[t] /\ seen'[t] = seen[t]
                                /\ held'[t] = held[t] /\ draft'[t] = draft[t]
  BY DEF IInv, TypeOK
<1> QED BY <1>1, <1>2, <1>3, <1>4, QuietStep, KeyedFacts

LEMMA BeginInv ==
  ASSUME IInv, NEW s \in Sessions, NEW q \in Requests, Begin(s, q)
  PROVE  IInv'
<1> USE DEF Begin
<1>1. TypeOK'
  BY DEF IInv, TypeOK, Loading
<1>2. /\ pc'[s] = Loading(q) /\ req'[s] = q /\ held'[s] = {} /\ draft'[s] = draft[s]
      /\ pc'[s] \in {"lock", "resolve"} /\ (pc'[s] = "lock" => Kind[q] # "refund")
      /\ (pc'[s] = "resolve" => Kind[q] # "withdrawal")
  BY DEF IInv, TypeOK, LockInv, LockAt, Loading
<1>3. LoadAt(s)' /\ LockAt(s)' /\ DraftAt(s)' /\ LinkAt(s)'
  BY <1>2 DEF LoadAt, LockAt, DraftAt, LinkAt, Drafting
<1>4. \A t \in Sessions \ {s} : /\ pc'[t] = pc[t] /\ req'[t] = req[t] /\ seen'[t] = seen[t]
                                /\ held'[t] = held[t] /\ draft'[t] = draft[t]
  BY DEF IInv, TypeOK
<1> QED BY <1>1, <1>2, <1>3, <1>4, QuietStep

LEMMA ReplayInv ==
  ASSUME IInv, NEW s \in Sessions, NEW q \in Requests, Replay(s, q)
  PROVE  IInv'
<1> USE DEF Replay, Reply
<1>1. TypeOK'
  BY DEF IInv, TypeOK
<1>2. LoadAt(s)' /\ LockAt(s)' /\ DraftAt(s)' /\ LinkAt(s)'
  BY Frame DEF IInv, LoadInv, LockInv, DraftInv, LinkInv
<1>3. \A k \in Keyed : replies'[k] \cap {"ok", "replay"} # {} =>
                         replies[k] \cap {"ok", "replay"} # {} \/ Posted(k)
  BY KeyedFacts DEF IInv, TypeOK
<1>4. \A t \in Sessions \ {s} : held'[s] \cap held[t] = {}
  BY DEF IInv, LockInv
<1> QED BY <1>1, <1>2, <1>3, <1>4, QuietStep

LEMMA ResolveInv ==
  ASSUME IInv, NEW s \in Sessions, Resolve(s)
  PROVE  IInv'
<1> USE DEF Resolve
<1> DEFINE n == NextToLoad(s)
           q == req[s]
<1>0. q \in Requests /\ held[s] = {} /\ Kind[q] # "withdrawal"
  BY DEF IInv, LoadInv, LoadAt, LockInv, LockAt
<1>1. n \in Accounts
  BY <1>0, AccountsAssumption, RequestsAssumption DEF NextToLoad
<1>2. TypeOK'
  BY <1>1 DEF IInv, TypeOK, LockingOf
<1>3. Loaded(s)' = Loaded(s) \cup {n}
  BY <1>1, NoneFacts DEF IInv, TypeOK, Loaded
<1>4. /\ req'[s] = q /\ held'[s] = {} /\ draft'[s] = draft[s]
      /\ pc'[s] = IF Rows(q) \subseteq Loaded(s) \cup {n} THEN LockingOf(q) ELSE "resolve"
  BY <1>0 DEF IInv, TypeOK
<1>5. /\ pc'[s] \in {"lock", "resolve", "apply"}
      /\ pc'[s] = "apply" => LockIds(q) = {} /\ Rows(q) \subseteq Loaded(s)'
      /\ pc'[s] = "lock" => Kind[q] # "refund"
  <2> HIDE DEF n, q, Resolve
  <2> QED BY <1>3, <1>4 DEF LockingOf, LockIds
<1>6. LoadAt(s)' /\ LockAt(s)' /\ DraftAt(s)' /\ LinkAt(s)'
  <2>1. req'[s] = q
    BY <1>4
  <2> HIDE DEF n, q, Resolve
  <2> QED BY <1>0, <1>4, <1>5, <2>1 DEF LoadAt, LockAt, DraftAt, LinkAt, Drafting
<1>7. \A t \in Sessions \ {s} : /\ pc'[t] = pc[t] /\ req'[t] = req[t] /\ seen'[t] = seen[t]
                                /\ held'[t] = held[t] /\ draft'[t] = draft[t]
  BY DEF IInv, TypeOK
<1> QED BY <1>2, <1>4, <1>6, <1>7, QuietStep

LEMMA LockStepInv ==
  ASSUME IInv, NEW s \in Sessions, Lock(s)
  PROVE  IInv'
<1> USE DEF Lock
<1>0. req[s] \in Requests /\ LoadAt(s) /\ LockAt(s) /\ Kind[req[s]] # "refund"
      /\ LockIds(req[s]) = Rows(req[s]) /\ held[s] \subseteq Loaded(s)
  BY DEF IInv, LoadInv, LoadAt, LockInv, LockAt, LockIds
<1>1. PICK a \in Accounts :
        /\ NextLock(s, a) /\ ~Locked(a)
        /\ held' = [held EXCEPT ![s] = @ \cup {a}]
        /\ seen' = [seen EXCEPT ![s][a] = IF a \in Loaded(s) THEN @ ELSE balance[a]]
        /\ pc' = [pc EXCEPT ![s] = IF LockIds(req[s]) \subseteq held[s] \cup {a}
                                     THEN "apply" ELSE "lock"]
  OBVIOUS
<1>2. TypeOK'
  <2>1. IF a \in Loaded(s) THEN seen[s][a] \in Nat \cup {None} ELSE balance[a] \in Nat \cup {None}
    BY DEF IInv, TypeOK
  <2> QED BY <1>1, <2>1 DEF IInv, TypeOK
<1>3. /\ held'[s] = held[s] \cup {a} /\ req'[s] = req[s] /\ draft'[s] = draft[s]
      /\ pc'[s] = IF LockIds(req[s]) \subseteq held[s] \cup {a} THEN "apply" ELSE "lock"
  BY <1>1 DEF IInv, TypeOK
<1>4. Loaded(s)' = Loaded(s) \cup {a}
  BY <1>1, NoneFacts DEF IInv, TypeOK, Loaded
<1>5. LoadAt(s)'
  BY <1>0, <1>3, <1>4 DEF LoadAt, Drafting
<1>6. held[s] \cup {a} \subseteq Rows(req[s])
  BY <1>0, <1>1 DEF LockAt, NextLock
<1>7. LockAt(s)'
  <2>1. \A b \in held[s], c \in Rows(req[s]) \ held[s] : Rank[b] < Rank[c]
    BY <1>0 DEF LockAt
  <2>2. \A c \in Rows(req[s]) \ (held[s] \cup {a}) : Rank[a] < Rank[c]
    <3>1. Rows(req[s]) \subseteq Accounts
      BY <1>0, RowsFacts
    <3>2. \A c \in Rows(req[s]) \ held[s] : Rank[a] <= Rank[c]
      BY <1>0, <1>1 DEF NextLock
    <3>3. ASSUME NEW c \in Rows(req[s]) \ (held[s] \cup {a}) PROVE Rank[a] < Rank[c]
      <4>1. c \in Accounts /\ c # a /\ Rank[a] \in Nat /\ Rank[c] \in Nat /\ Rank[a] <= Rank[c]
        BY <3>1, <3>2, RankFacts
      <4>2. Rank[a] # Rank[c]
        BY <4>1, RankFacts
      <4> QED BY <4>1, <4>2
    <3> QED BY <3>3
  <2> QED BY <1>0, <1>3, <1>6, <2>1, <2>2 DEF LockAt
<1>8. DraftAt(s)' /\ LinkAt(s)'
  BY <1>3 DEF DraftAt, LinkAt, Drafting
<1>9. \A t \in Sessions \ {s} : /\ pc'[t] = pc[t] /\ req'[t] = req[t] /\ seen'[t] = seen[t]
                                /\ held'[t] = held[t] /\ draft'[t] = draft[t]
  BY <1>1 DEF IInv, TypeOK
<1>10. \A t \in Sessions \ {s} : held'[s] \cap held[t] = {}
  BY <1>1, <1>3 DEF IInv, LockInv, Locked
<1> QED BY <1>2, <1>3, <1>5, <1>7, <1>8, <1>9, <1>10, QuietStep

\* The flush of a refund.
LEMMA FlushInv ==
  ASSUME IInv, NEW s \in Sessions, Flush(s)
  PROVE  IInv'
<1> USE DEF Flush
<1> DEFINE q == req[s]
<1>0. /\ q \in Requests /\ Kind[q] = "refund" /\ Rows(q) \subseteq Loaded(s) /\ Covered(s)
      /\ First(q, draft[s]) /\ Len(draft[s]) = 1
  BY DEF IInv, LoadInv, LoadAt, DraftInv, DraftAt, Drafting
<1>1. Rows(q) = {To[q]} /\ To[q] \in Accounts /\ ~HasCreator(q) /\ Plain(q)
  BY <1>0, RequestsAssumption DEF Rows, HasCreator, Plain
<1>2. TypeOK'
  BY <1>1 DEF IInv, TypeOK
<1>3. /\ pc'[s] = "commit" /\ held'[s] = {To[q]} /\ req'[s] = q /\ draft'[s] = draft[s]
      /\ seen'[s] = seen[s]
  BY DEF IInv, TypeOK
<1>4. Loaded(s)' = Loaded(s) /\ Covered(s)'
  BY <1>0, <1>3 DEF Loaded, Covered
<1>5. LoadAt(s)' /\ LockAt(s)' /\ DraftAt(s)' /\ LinkAt(s)'
  <2>1. /\ req'[s] = q /\ held'[s] = Rows(q) \cup Upward(q) /\ Whole(q, seen'[s], draft'[s])
        /\ First(q, draft'[s]) /\ Len(draft'[s]) >= 1
    BY <1>0, <1>1, <1>3 DEF Upward, Whole
  <2>2. Rows(q) \subseteq Loaded(s)'
    BY <1>0, <1>4
  <2> HIDE DEF Flush, q
  <2>3. LoadAt(s)'
    BY <1>0, <1>1, <1>3, <1>4, <2>1, <2>2 DEF LoadAt, Drafting
  <2> QED BY <1>1, <1>3, <2>1, <2>3 DEF LockAt, DraftAt, LinkAt, Drafting
<1>6. \A t \in Sessions \ {s} : /\ pc'[t] = pc[t] /\ req'[t] = req[t] /\ seen'[t] = seen[t]
                                /\ held'[t] = held[t] /\ draft'[t] = draft[t]
  BY DEF IInv, TypeOK
<1>7. \A t \in Sessions \ {s} : held'[s] \cap held[t] = {}
  BY <1>3 DEF Locked
<1> QED BY <1>2, <1>3, <1>5, <1>6, <1>7, QuietStep

\* What a session that has passed its balance check works with.
LEMMA AtDraft ==
  ASSUME IInv, NEW s \in Sessions, pc[s] \in {"apply"} \cup Drafting
  PROVE  /\ req[s] \in Requests /\ seen[s] \in Book
         /\ balance \in [Accounts -> Nat] /\ clock \in Nat
         /\ ledger \in Seq(Entry) /\ Len(ledger) \in Nat /\ Range(ledger) \in SUBSET Entry
         /\ draft[s] \in Seq(Entry) /\ Range(draft[s]) \in SUBSET Entry
         /\ \A a \in Rows(req[s]) : seen[s][a] \in Nat
         /\ \A a \in Accounts : a \in Loaded(s) <=> seen[s][a] \in Nat
         /\ pc[s] # "apply" => \A a \in {From[req[s]]} \ {None} : seen[s][a] >= Amount[req[s]]
         /\ pc[s] = "commit" /\ HasCreator(req[s]) => seen[s][CreatorOf[To[req[s]]]] \in Nat
<1>1. LoadAt(s) /\ TypeOK
  BY DEF IInv, LoadInv
<1>2. req[s] \in Requests /\ Rows(req[s]) \subseteq Loaded(s) /\ (pc[s] # "apply" => Covered(s))
      /\ (pc[s] = "commit" /\ HasCreator(req[s]) => CreatorOf[To[req[s]]] \in Loaded(s))
  BY <1>1 DEF LoadAt, Drafting
<1>3. seen[s] \in Book /\ \A a \in Accounts : a \in Loaded(s) <=> seen[s][a] \in Nat
  BY <1>1, NoneFacts DEF TypeOK, Book, Loaded
<1>4. /\ ledger \in Seq(Entry) /\ Len(ledger) \in Nat /\ balance \in [Accounts -> Nat]
      /\ clock \in Nat /\ draft[s] \in Seq(Entry)
  BY <1>1 DEF TypeOK
<1>5. Range(ledger) \in SUBSET Entry /\ Range(draft[s]) \in SUBSET Entry
  BY <1>4, ShortRange
<1>6. Loaded(s) \subseteq Accounts
  BY DEF Loaded
<1> QED BY <1>2, <1>3, <1>4, <1>5, <1>6 DEF Covered

\* Two sessions that lock the treasury's row are not both past their locks.
LEMMA OneHashes ==
  ASSUME IInv, NEW s \in Sessions, NEW t \in Sessions, s # t,
         pc[s] \in {"apply", "royalty", "commit"}, ~Plain(req[s]),
         pc[t] \in {"apply", "royalty", "commit"}
  PROVE  Plain(req[t])
<1> SUFFICES ASSUME ~Plain(req[t]) PROVE FALSE
  OBVIOUS
<1>1. ASSUME NEW u \in Sessions, pc[u] \in {"apply", "royalty", "commit"}, ~Plain(req[u])
      PROVE  Platform \in held[u]
  <2>1. req[u] \in Requests /\ Rows(req[u]) \subseteq held[u]
    BY <1>1 DEF IInv, LoadInv, LoadAt, LockInv, LockAt, LockIds, Plain
  <2> QED BY <1>1, <2>1, RowsFacts
<1>2. Platform \in held[s] /\ Platform \in held[t]
  BY <1>1
<1> QED BY <1>2 DEF IInv, LockInv

\* A new draft's created_at differs from all others.
LEMMA StampGrows ==
  ASSUME IInv, TypeOK', NEW s \in Sessions, ledger' = ledger, clock' = clock + 1,
         \A t \in Sessions \ {s} : draft'[t] = draft[t],
         \A d \in Range(draft'[s]) : d \in Range(draft[s]) \/ d.at = clock + 1
  PROVE  StampInv'
<1>0. clock \in Nat /\ \A t \in Sessions : \A d \in Range(draft[t]) : d.at \in Nat
  <2>1. \A t \in Sessions : Range(draft[t]) \subseteq Entry
    BY ShortRange DEF IInv, TypeOK
  <2> QED BY <2>1 DEF IInv, TypeOK, Entry
<1>1. /\ \A e \in Range(ledger) : e.at \in Nat /\ e.at <= clock
      /\ \A e, f \in Range(ledger) : Hashed(e) /\ ~Hashed(f) => e.at # f.at
  <2>1. Range(ledger) \subseteq Entry
    BY ShortRange DEF IInv, TypeOK
  <2> QED BY <2>1 DEF IInv, StampInv, Entry
<1>2. ASSUME NEW t \in Sessions, NEW d \in Range(draft'[t])
      PROVE  d.at <= clock + 1 /\ \A e \in Range(ledger) : d.at # e.at
  <2>1. CASE d \in Range(draft[t])
    BY <1>0, <2>1 DEF IInv, StampInv
  <2>2. CASE d.at = clock + 1
    BY <1>0, <1>1, <2>2
  <2> QED BY <1>2, <2>1, <2>2
<1>3. ASSUME NEW t \in Sessions, NEW u \in Sessions, t # u,
             NEW d \in Range(draft'[t]), NEW e \in Range(draft'[u])
      PROVE  d.at # e.at
  <2>1. (d \in Range(draft[t]) \/ (t = s /\ d.at = clock + 1))
        /\ (e \in Range(draft[u]) \/ (u = s /\ e.at = clock + 1))
    BY <1>3
  <2>2. /\ \A x \in Range(draft[t]) : x.at <= clock
        /\ \A x \in Range(draft[u]) : x.at <= clock
    BY DEF IInv, StampInv
  <2>3. CASE d \in Range(draft[t]) /\ e \in Range(draft[u])
    BY <1>3, <2>3 DEF IInv, StampInv
  <2>4. CASE ~(d \in Range(draft[t]) /\ e \in Range(draft[u]))
    BY <1>0, <1>3, <2>1, <2>2, <2>4
  <2> QED BY <2>3, <2>4
<1>4. \A e \in Range(ledger) : e.at <= clock + 1
  BY <1>0, <1>1
<1> QED BY <1>1, <1>2, <1>3, <1>4 DEF StampInv

LEMMA ApplyInv ==
  ASSUME IInv, NEW s \in Sessions, Apply(s)
  PROVE  IInv'
<1> DEFINE q == req[s]
           p == IF Plain(q) THEN None ELSE LatestHash(Range(ledger))
           e == Row(q, p, clock + 1)
<1>0. /\ q \in Requests /\ clock \in Nat /\ Range(ledger) \in SUBSET Entry /\ LoadAt(s) /\ LockAt(s)
      /\ pc[s] = "apply" /\ Covered(s) /\ held[s] = LockIds(q) /\ Rows(q) \subseteq Loaded(s)
  BY AtDraft DEF Apply, IInv, LoadInv, LoadAt, LockInv, LockAt
<1>1. p \in Nat \cup {None} /\ clock + 1 \in Nat
  BY <1>0, LatestHashType
<1>2. e \in Entry /\ First(q, <<e>>) /\ e.prev = p /\ e.at = clock + 1
  <2> HIDE DEF q, p
  <2> QED BY <1>0, <1>1, RowFacts DEF First
<1>3. TypeOK'
  BY <1>2 DEF Apply, IInv, TypeOK, AfterApply
<1>4. /\ pc'[s] = AfterApply(q) /\ draft'[s] = <<e>> /\ req'[s] = q /\ seen'[s] = seen[s]
      /\ held'[s] = held[s]
  BY DEF Apply, IInv, TypeOK
<1>5. \A t \in Sessions \ {s} : /\ pc'[t] = pc[t] /\ req'[t] = req[t] /\ seen'[t] = seen[t]
                                /\ held'[t] = held[t] /\ draft'[t] = draft[t]
  BY DEF Apply, IInv, TypeOK
<1>6. ledger' = ledger /\ clock' = clock + 1 /\ replies' = replies
  BY DEF Apply
<1>7. /\ pc'[s] = "royalty" <=> HasCreator(q)
      /\ pc'[s] = "flush" <=> Kind[q] = "refund"
      /\ pc'[s] \in Drafting
      /\ HasCreator(q) => Kind[q] # "refund"
  <2> HIDE DEF q, e, p
  <2> QED BY <1>4 DEF AfterApply, Drafting, HasCreator
<1> HIDE DEF q, e
<1>8. LoadAt(s)'
  <2>1. Rows(q) \subseteq Loaded(s)' /\ Covered(s)'
    BY <1>0, <1>4 DEF Loaded, Covered, q
  <2> QED BY <1>0, <1>4, <1>7, <2>1 DEF LoadAt, Drafting
<1>9. LockAt(s)'
  <2>1. Kind[q] = "refund" => held[s] = {}
    BY <1>0 DEF LockIds
  <2>2. Kind[q] # "refund" => held[s] = Rows(q)
    BY <1>0 DEF LockIds
  <2> QED BY <1>4, <1>7, <2>1, <2>2 DEF LockAt, Drafting, Upward
<1>10. DraftAt(s)'
  BY <1>2, <1>4, <1>7 DEF DraftAt, Drafting, Whole
<1>11. LinkAt(s)'
  <2> SUFFICES ASSUME ~Plain(q)
               PROVE  /\ \A f \in Range(ledger) : Hashed(f) => f.at < e.at
                      /\ Linked(e, Range(ledger))
    BY <1>4, <1>6 DEF LinkAt
  <2>1. \A f \in Range(ledger) : f.at <= clock /\ f.at \in Nat
    BY <1>0 DEF IInv, StampInv, Entry
  <2>2. e.prev = LatestHash(Range(ledger)) /\ e.at = clock + 1
    BY <1>2
  <2>3. Linked(e, Range(ledger))
    BY <1>0, <1>2, <2>1, <2>2, ReadsLink DEF IInv, StampInv
  <2> QED BY <1>0, <2>1, <2>2, <2>3
<1>12. ASSUME NEW t \in Sessions \ {s} PROVE LoadAt(t)' /\ LockAt(t)' /\ DraftAt(t)' /\ LinkAt(t)'
  BY <1>5, <1>6, <1>12, Frame DEF IInv, LoadInv, LockInv, DraftInv, LinkInv
<1>13. \A t, u \in Sessions : t # u => held'[t] \cap held'[u] = {}
  BY <1>4, <1>5 DEF IInv, LockInv
<1>14. LoadInv' /\ LockInv' /\ DraftInv' /\ LinkInv'
  BY <1>8, <1>9, <1>10, <1>11, <1>12, <1>13 DEF LoadInv, LockInv, DraftInv, LinkInv
<1>15. StampInv'
  <2>1. \A d \in Range(draft'[s]) : d = e
    BY <1>2, <1>4, ShortRange DEF Range
  <2> QED BY <1>2, <1>3, <1>5, <1>6, <2>1, StampGrows
<1>16. ChainNeverForks' /\ OncePerKey'
  BY <1>6 DEF IInv, ChainNeverForks, OncePerKey, Posted
<1> QED BY <1>3, <1>14, <1>15, <1>16 DEF IInv

LEMMA LockCreatorInv ==
  ASSUME IInv, NEW s \in Sessions, LockCreator(s)
  PROVE  IInv'
<1> DEFINE q == req[s]
           c == CreatorOf[To[q]]
           b == seen[s]
           m == AfterTransfer(q, b)
           d == draft[s]
           R == Range(ledger) \cup Range(d)
           p == LatestHash(R)
           e == RoyaltyRow(q, m, p, clock + 1)
<1>0. /\ q \in Requests /\ clock \in Nat /\ Range(ledger) \in SUBSET Entry /\ LoadAt(s) /\ LockAt(s)
      /\ pc[s] = "royalty" /\ HasCreator(q) /\ ~Plain(q) /\ held[s] = Rows(q)
      /\ Rows(q) \subseteq Loaded(s) /\ Covered(s) /\ b \in Book
      /\ d \in Seq(Entry) /\ Len(d) = 1 /\ First(q, d) /\ Range(d) \in SUBSET Entry
      /\ ledger \in Seq(Entry)
  <2>1. pc[s] = "royalty" /\ LoadAt(s) /\ LockAt(s) /\ DraftAt(s)
    BY DEF LockCreator, IInv, LoadInv, LockInv, DraftInv
  <2>2. q \in Requests /\ HasCreator(q) /\ held[s] = Rows(q) /\ Rows(q) \subseteq Loaded(s)
        /\ Covered(s) /\ Len(d) = 1 /\ First(q, d)
    BY <2>1 DEF LoadAt, LockAt, DraftAt, Drafting
  <2> QED BY <2>1, <2>2, AtDraft, RowsFacts DEF Drafting
<1>1. c \in Creators /\ c \in Accounts \ Rows(q)
  BY <1>0, CreatorFacts
<1>2. m \in Book /\ m[To[q]] \in Nat /\ RoyaltyOf(q, m) \in Nat
  <2>1. /\ \A a \in Rows(q) : b[a] \in Nat
        /\ \A a \in {From[q]} \ {None} : b[a] >= Amount[q]
    BY <1>0, AtDraft DEF Drafting
  <2> HIDE DEF q, b
  <2> QED BY <1>0, <2>1, ReceiverBook
<1>3. p \in Nat \cup {None} /\ R \in SUBSET Entry /\ clock + 1 \in Nat
  BY <1>0, LatestHashType
<1>4. /\ e \in Entry /\ e = RoyaltyRow(q, m, e.prev, e.at) /\ e.prev = p /\ e.at = clock + 1
      /\ Hashed(e)
  <2> HIDE DEF q, m, p
  <2> QED BY <1>0, <1>2, <1>3, RoyaltyRowFacts
<1>5. /\ pc' = [pc EXCEPT ![s] = "commit"] /\ held' = [held EXCEPT ![s] = @ \cup {c}]
      /\ seen' = [seen EXCEPT ![s][c] = balance[c]] /\ req' = req /\ ~Locked(c)
      /\ UNCHANGED <<balance, ledger, unsent, replies>>
      /\ RoyaltyOf(q, m) > 0 => clock' = clock + 1 /\ draft' = [draft EXCEPT ![s] = Append(@, e)]
      /\ ~(RoyaltyOf(q, m) > 0) => clock' = clock /\ draft' = draft
  BY DEF LockCreator
<1>6. TypeOK'
  <2>1. clock' \in Nat
    BY <1>0, <1>5
  <2>2. Append(draft[s], e) \in Seq(Entry)
    BY <1>0, <1>4
  <2>3. draft' \in [Sessions -> Seq(Entry)]
    BY <1>5, <2>2 DEF IInv, TypeOK
  <2> HIDE DEF q, b, d, m, p, e, c, R
  <2> QED BY <1>1, <1>5, <2>1, <2>3 DEF IInv, TypeOK
<1>7. /\ pc'[s] = "commit" /\ held'[s] = Rows(q) \cup {c} /\ req'[s] = q
      /\ seen'[s] = [b EXCEPT ![c] = balance[c]]
      /\ draft'[s] = IF RoyaltyOf(q, m) > 0 THEN Append(d, e) ELSE d
  <2>1. s \in DOMAIN pc /\ s \in DOMAIN held /\ s \in DOMAIN seen /\ s \in DOMAIN draft
    BY DEF IInv, TypeOK
  <2> HIDE DEF e
  <2> QED BY <1>0, <1>5, <2>1
<1>8. \A t \in Sessions \ {s} : /\ pc'[t] = pc[t] /\ req'[t] = req[t] /\ seen'[t] = seen[t]
                                /\ held'[t] = held[t] /\ draft'[t] = draft[t]
  <2> HIDE DEF q, b, d, m, p, e, c, R
  <2> QED BY <1>5 DEF IInv, TypeOK
<1>9. Loaded(s)' = Loaded(s) \cup {c} /\ \A a \in Accounts \ {c} : seen'[s][a] = b[a]
  BY <1>0, <1>1, <1>6, <1>7, NoneFacts DEF IInv, TypeOK, Loaded, Book
<1>10. m[To[q]] = AfterTransfer(q, seen'[s])[To[q]]
  \* The creator's row is none of those the transfer's assignments touch.
  <2>1. From[q] # None /\ To[q] # None /\ {From[q], To[q], Platform} \subseteq Accounts \ {c}
    BY <1>0, <1>1, RowsFacts, AccountsAssumption
  <2>2. DOMAIN b = Accounts /\ DOMAIN seen'[s] = Accounts
    BY <1>0, <1>7 DEF Book
  <2> DEFINE b2 == seen'[s]
  <2>3. \A a \in {From[q], To[q], Platform} : b2[a] = b[a]
    BY <1>9, <2>1
  <2> HIDE DEF q, b, b2, c
  <2>4. AfterTransfer(q, b)[To[q]] = AfterTransfer(q, b2)[To[q]]
    BY <2>1, <2>2, <2>3 DEF AfterTransfer, Add, b2
  <2> QED BY <2>4 DEF b2
<1> DEFINE m2 == AfterTransfer(q, seen'[s])
<1>11. RoyaltyOf(q, m2) = RoyaltyOf(q, m) /\ \A x, n : RoyaltyRow(q, m2, x, n) = RoyaltyRow(q, m, x, n)
  <2> HIDE DEF q, m
  <2> QED BY <1>10 DEF RoyaltyOf, RoyaltyRow
<1>12. IF RoyaltyOf(q, m) > 0
         THEN Len(draft'[s]) = 2 /\ draft'[s][1] = d[1] /\ draft'[s][2] = e
         ELSE draft'[s] = d
  <2> HIDE DEF e
  <2> QED BY <1>0, <1>4, <1>7
<1> HIDE DEF q, c, b, m, m2, d, R, p, e
<1>13. LoadAt(s)'
  <2>1. Covered(s)'
    <3>1. From[q] # None => From[q] \in Accounts \ {c}
      BY <1>0, <1>1, RowsFacts
    <3> QED BY <1>0, <1>7, <1>9, <3>1 DEF Covered, q, b
  <2> QED BY <1>0, <1>7, <1>9, <2>1 DEF LoadAt, Drafting, c
<1>14. LockAt(s)'
  BY <1>0, <1>7 DEF LockAt, Upward, Drafting, c
<1>15. DraftAt(s)'
  <2>1. First(q, draft'[s]) /\ Len(draft'[s]) >= 1
    BY <1>0, <1>12 DEF First
  <2>2. Whole(q, seen'[s], draft'[s])
    <3>1. CASE RoyaltyOf(q, m) > 0
      <4>1. Len(draft'[s]) = 2 /\ draft'[s][2] = RoyaltyRow(q, m2, draft'[s][2].prev, draft'[s][2].at)
        BY <1>4, <1>11, <1>12, <3>1
      <4> QED BY <1>0, <1>11, <3>1, <4>1 DEF Whole, m2
    <3>2. CASE ~(RoyaltyOf(q, m) > 0)
      BY <1>0, <1>11, <1>12, <3>2 DEF Whole, m2
    <3> QED BY <3>1, <3>2
  <2> QED BY <1>7, <2>1, <2>2 DEF DraftAt, Drafting
<1>16. LinkAt(s)'
  <2>1. /\ \A f \in Range(ledger) : Hashed(f) => f.at < d[1].at
        /\ Linked(d[1], Range(ledger))
    BY <1>0 DEF IInv, LinkInv, LinkAt, q, d
  <2>2. Range(d) = {d[1]} /\ d[1] \in Entry /\ R = Range(ledger) \cup {d[1]}
    BY <1>0, ShortRange DEF R
  <2>3. \A f \in R : f.at <= clock /\ f.at \in Nat
    BY <1>3, <2>2 DEF IInv, StampInv, Entry, R, d
  <2>4. \A f, g \in R : Hashed(f) /\ ~Hashed(g) => f.at # g.at
    <3>1. d[1] \in Range(draft[s])
      BY <2>2 DEF d
    <3>2. \A f \in Range(ledger) : f.at # d[1].at
      BY <3>1 DEF IInv, StampInv
    <3>3. \A f, g \in Range(ledger) : Hashed(f) /\ ~Hashed(g) => f.at # g.at
      BY DEF IInv, StampInv
    <3> QED BY <2>2, <3>2, <3>3
  <2>5. Linked(e, R)
    BY <1>0, <1>3, <1>4, <2>3, <2>4, ReadsLink DEF p
  <2>6. d[1].at < e.at
    BY <1>0, <1>4, <2>2, <2>3
  <2>7. ledger' = ledger
    BY <1>5
  <2>8. CASE RoyaltyOf(q, m) > 0
    BY <1>12, <2>1, <2>2, <2>5, <2>6, <2>7, <2>8 DEF LinkAt
  <2>9. CASE ~(RoyaltyOf(q, m) > 0)
    BY <1>0, <1>12, <2>1, <2>7, <2>9 DEF LinkAt
  <2> QED BY <2>8, <2>9
<1>17. ASSUME NEW t \in Sessions \ {s} PROVE LoadAt(t)' /\ LockAt(t)' /\ DraftAt(t)' /\ LinkAt(t)'
  BY <1>5, <1>8, <1>17, Frame DEF IInv, LoadInv, LockInv, DraftInv, LinkInv
<1>18. \A t, u \in Sessions : t # u => held'[t] \cap held'[u] = {}
  <2>1. \A t \in Sessions \ {s} : held'[s] \cap held[t] = {}
    BY <1>0, <1>5, <1>7 DEF IInv, LockInv, Locked
  <2> QED BY <1>8, <2>1 DEF IInv, LockInv
<1>19. LoadInv' /\ LockInv' /\ DraftInv' /\ LinkInv'
  BY <1>13, <1>14, <1>15, <1>16, <1>17, <1>18 DEF LoadInv, LockInv, DraftInv, LinkInv
<1>20. StampInv'
  <2>1. CASE RoyaltyOf(q, m) > 0
    <3>1. draft'[s] \in Seq(Entry)
      BY <1>6 DEF TypeOK
    <3>2. Range(draft'[s]) = {d[1], e} /\ d[1] \in Range(draft[s])
      BY <1>0, <1>12, <2>1, <3>1, ShortRange DEF d
    <3> QED BY <1>4, <1>5, <1>6, <1>8, <2>1, <3>2, StampGrows
  <2>2. CASE ~(RoyaltyOf(q, m) > 0)
    BY <1>5, <2>2 DEF IInv, StampInv
  <2> QED BY <2>1, <2>2
<1>21. ChainNeverForks' /\ OncePerKey'
  BY <1>5 DEF IInv, ChainNeverForks, OncePerKey, Posted
<1> QED BY <1>6, <1>19, <1>20, <1>21 DEF IInv

\* The entries of a call when it commits.
LEMMA DraftFacts ==
  ASSUME IInv, NEW s \in Sessions, pc[s] = "commit"
  PROVE  LET d == draft[s]
             q == req[s] IN
         /\ d \in Seq(Entry) /\ Len(d) \in {1, 2}
         /\ d[1] = Row(q, d[1].prev, d[1].at)
         /\ Len(d) = 2 <=> HasCreator(q) /\ RoyaltyOf(q, AfterTransfer(q, seen[s])) > 0
         /\ Len(d) = 2 => /\ d[2] = RoyaltyRow(q, AfterTransfer(q, seen[s]), d[2].prev, d[2].at)
                          /\ ~Plain(q)
         /\ \A i \in DOMAIN d : /\ d[i] \in Entry /\ d[i].req = q /\ (d[i].type = Kind[q] => i = 1)
                                /\ Hashed(d[i]) <=> ~Plain(q)
<1> DEFINE d == draft[s]
           q == req[s]
           m == AfterTransfer(q, seen[s])
<1>1. /\ q \in Requests /\ d \in Seq(Entry) /\ First(q, d) /\ Len(d) >= 1 /\ Whole(q, seen[s], d)
  BY AtDraft DEF IInv, DraftInv, DraftAt, Drafting
<1>2. Len(d) \in {1, 2} /\ (Len(d) = 2 <=> HasCreator(q) /\ RoyaltyOf(q, m) > 0)
      /\ (Len(d) = 2 => d[2] = RoyaltyRow(q, m, d[2].prev, d[2].at))
  <2>1. IF HasCreator(q) /\ RoyaltyOf(q, m) > 0
          THEN Len(d) = 2 /\ d[2] = RoyaltyRow(q, m, d[2].prev, d[2].at)
          ELSE Len(d) = 1
    BY <1>1 DEF Whole
  <2> HIDE DEF q, d, m
  <2>2. CASE HasCreator(q) /\ RoyaltyOf(q, m) > 0
    BY <2>1, <2>2
  <2>3. CASE ~(HasCreator(q) /\ RoyaltyOf(q, m) > 0)
    <3>1. Len(d) = 1 /\ Len(d) # 2
      BY <2>1, <2>3
    <3> QED BY <2>3, <3>1
  <2> QED BY <2>2, <2>3
<1>3. DOMAIN d = 1 .. Len(d) /\ d[1] \in Entry /\ (Len(d) = 2 => d[2] \in Entry)
  BY <1>1, <1>2
<1> HIDE DEF q, d, m
<1>4. d[1].req = q /\ (Hashed(d[1]) <=> ~Plain(q))
  <2>1. d[1] = Row(q, d[1].prev, d[1].at)
    BY <1>1 DEF First
  <2> DEFINE p == d[1].prev
             n == d[1].at
  <2>2. p \in Nat \cup {None} /\ n \in Nat /\ q \in Requests /\ d[1] = Row(q, p, n)
    BY <1>1, <1>3, <2>1 DEF Entry
  <2> HIDE DEF p, n
  <2>3. Row(q, p, n).req = q /\ (Hashed(Row(q, p, n)) <=> ~Plain(q))
    BY <2>2, RowFacts
  <2> QED BY <2>2, <2>3
<1>5. Len(d) = 2 => d[2].req = q /\ d[2].type # Kind[q] /\ Hashed(d[2]) /\ ~Plain(q)
  <2> SUFFICES ASSUME Len(d) = 2 PROVE d[2].req = q /\ d[2].type # Kind[q] /\ Hashed(d[2]) /\ ~Plain(q)
    OBVIOUS
  <2>1. d[2] = RoyaltyRow(q, m, d[2].prev, d[2].at) /\ HasCreator(q)
    BY <1>2
  <2>2. d[2].type = "creator_royalty" /\ d[2].req = q
    BY <2>1 DEF RoyaltyRow
  <2> QED BY <1>1, <2>1, <2>2, RowsFacts, RequestsAssumption DEF Hashed
<1>6. \A i \in DOMAIN d : i = 1 \/ (i = 2 /\ Len(d) = 2)
  BY <1>2, <1>3
<1>7. \A i \in DOMAIN d : /\ d[i] \in Entry /\ d[i].req = q /\ (d[i].type = Kind[q] => i = 1)
                          /\ Hashed(d[i]) <=> ~Plain(q)
  BY <1>3, <1>4, <1>5, <1>6
<1> QED BY <1>1, <1>2, <1>5, <1>7 DEF q, d, m, First

\* The chain takes in the entries of a commit.
LEMMA CommitLinks ==
  ASSUME IInv, NEW s \in Sessions, pc[s] = "commit",
         Range(ledger') = Range(ledger) \cup Range(draft[s])
  PROVE  ChainNeverForks'
<1> DEFINE d == draft[s]
           q == req[s]
           R == Range(ledger)
<1>1. /\ R \in SUBSET Entry /\ d \in Seq(Entry) /\ Len(d) \in {1, 2} /\ Range(d) \in SUBSET Entry
      /\ \A e \in Range(d) : Hashed(e) <=> ~Plain(q)
      /\ d[1] \in Entry /\ (Len(d) = 2 => d[2] \in Entry)
      /\ Range(d) = IF Len(d) = 2 THEN {d[1], d[2]} ELSE {d[1]}
  <2>1. R \in SUBSET Entry /\ Range(d) \in SUBSET Entry
    BY AtDraft DEF Drafting
  <2> HIDE DEF R
  <2> QED BY <2>1, DraftFacts, ShortRange DEF Range
<1>2. \A e \in R : Hashed(e) => Linked(e, R)
  BY DEF IInv, ChainNeverForks
<1> SUFFICES ASSUME NEW e \in R \cup Range(d), Hashed(e) PROVE Linked(e, R \cup Range(d))
  BY DEF ChainNeverForks
<1> HIDE DEF R
<1>3. CASE Plain(q)
  <2>1. e \in R
    BY <1>1, <1>3
  <2> QED BY <1>1, <1>2, <1>3, <2>1, LinkedGrows
<1>4. CASE ~Plain(q)
  <2>1. /\ \A f \in R : Hashed(f) => f.at < d[1].at
        /\ Linked(d[1], R)
        /\ Len(d) = 2 => d[1].at < d[2].at /\ Linked(d[2], R \cup {d[1]})
    BY <1>4 DEF IInv, LinkInv, LinkAt, R
  <2>2. e.at \in Nat /\ d[1].at \in Nat /\ (Len(d) = 2 => d[2].at \in Nat)
    BY <1>1 DEF Entry
  <2> HIDE DEF d, q
  <2>3. CASE e \in R
    <3>1. e \in Entry /\ Linked(e, R) /\ \A g \in Range(d) : Hashed(g) => e.at <= g.at
      BY <1>1, <1>2, <2>1, <2>2, <2>3
    <3> QED BY <1>1, <3>1, LinkedGrows
  <2>4. CASE e = d[1]
    <3>1. \A g \in Range(d) : Hashed(g) => e.at <= g.at
      BY <1>1, <2>1, <2>2, <2>4
    <3> QED BY <1>1, <2>1, <2>4, <3>1, LinkedGrows
  <2>5. CASE Len(d) = 2 /\ e = d[2]
    <3>1. R \cup {d[1]} \in SUBSET Entry /\ {d[2]} \in SUBSET Entry
          /\ Linked(e, R \cup {d[1]})
          /\ \A g \in {d[2]} : Hashed(g) => e.at <= g.at
      BY <1>1, <2>1, <2>2, <2>5
    <3>2. Linked(e, (R \cup {d[1]}) \cup {d[2]})
      BY <1>1, <2>5, <3>1, LinkedGrows
    <3>3. (R \cup {d[1]}) \cup {d[2]} = R \cup Range(d)
      BY <1>1, <2>5
    <3> QED BY <3>2, <3>3
  <2> QED BY <1>1, <2>3, <2>4, <2>5
<1> QED BY <1>3, <1>4

LEMMA CommitInv ==
  ASSUME IInv, NEW s \in Sessions, Commit(s)
  PROVE  IInv'
<1> DEFINE q == req[s]
           b == seen[s]
           m == AfterTransfer(q, b)
           n == AfterRoyalty(q, m)
           rows == draft[s]
<1>0. /\ pc[s] = "commit" /\ q \in Requests /\ b \in Book /\ ledger \in Seq(Entry)
      /\ \A a \in Rows(q) : b[a] \in Nat
      /\ HasCreator(q) => b[CreatorOf[To[q]]] \in Nat
      /\ \A a \in {From[q]} \ {None} : b[a] >= Amount[q]
  BY AtDraft DEF Commit, Drafting
<1>1. m \in Book /\ (\A a \in Accounts : b[a] \in Nat <=> m[a] \in Nat)
  <2> HIDE DEF q, b
  <2> QED BY <1>0, TransferBook
<1>2. HasCreator(q) => m[To[q]] \in Nat /\ m[CreatorOf[To[q]]] \in Nat
  <2> HIDE DEF q, b, m
  <2> QED BY <1>0, <1>1, RowsFacts, CreatorFacts
<1>3. n \in Book /\ (\A a \in Accounts : m[a] \in Nat <=> n[a] \in Nat)
  <2> HIDE DEF q, b, m
  <2> QED BY <1>0, <1>1, <1>2, RoyaltyBook
<1>4. /\ rows \in Seq(Entry) /\ Len(rows) \in {1, 2}
      /\ \A i \in DOMAIN rows : /\ rows[i].req = q
                                /\ rows[i].type = Kind[q] => i = 1
  BY <1>0, DraftFacts
<1>5. /\ q \in Keyed => ~Posted(q)
      /\ ledger' = ledger \o rows
      /\ balance' = [a \in Accounts |-> IF a \in Dirty(q, b) THEN n[a] ELSE balance[a]]
      /\ replies' = [replies EXCEPT ![q] = @ \cup {"ok"}]
      /\ Leave(s) /\ UNCHANGED <<clock, unsent>>
  BY DEF Commit, Reply, Unique
<1>6. \A a \in Dirty(q, b) : n[a] \in Nat
  <2>1. \A a \in Accounts : b[a] \notin Nat => b[a] = None /\ m[a] = None /\ n[a] = None
    <3> HIDE DEF q, b, m, n
    <3> QED BY <1>0, <1>1, <1>3 DEF Book
  <2>2. Dirty(q, b) = {a \in Accounts : m[a] # b[a] \/ n[a] # m[a]}
    BY DEF Dirty
  <2> HIDE DEF q, b, m, n
  <2> QED BY <1>1, <1>3, <2>1, <2>2
<1> HIDE DEF q, b, m, n, rows
<1>7. /\ ledger' \in Seq(Entry) /\ Len(ledger') = Len(ledger) + Len(rows)
      /\ DOMAIN ledger = 1 .. Len(ledger) /\ DOMAIN ledger \subseteq DOMAIN ledger'
      /\ Len(ledger) + 1 \in DOMAIN ledger' \ DOMAIN ledger
      /\ \A i \in DOMAIN ledger : ledger'[i] = ledger[i]
      /\ \A i \in DOMAIN ledger' \ DOMAIN ledger :
           i - Len(ledger) \in DOMAIN rows /\ ledger'[i] = rows[i - Len(ledger)]
      /\ Range(ledger') = Range(ledger) \cup Range(rows)
  <2>1. Len(rows) >= 1
    <3>1. \A k \in {1, 2} : k >= 1
      OBVIOUS
    <3> QED BY <1>4, <3>1
  <2>2. ledger \in Seq(Entry) /\ rows \in Seq(Entry) /\ ledger' = ledger \o rows
    BY <1>0, <1>4, <1>5
  <2>3. Range(ledger') = Range(ledger) \cup Range(rows)
    BY <2>1, <2>2, AppendRange
  <2> QED BY <2>1, <2>2, <2>3, AppendFacts
<1>8. TypeOK'
  <2>1. balance' \in [Accounts -> Nat]
    BY <1>5, <1>6 DEF IInv, TypeOK
  <2>2. replies' \in [Requests -> SUBSET {"ok", "replay", "refused", "error"}]
    BY <1>0, <1>5 DEF IInv, TypeOK
  <2> QED BY <1>5, <1>7, <2>1, <2>2 DEF IInv, TypeOK, Leave, NothingLoaded
<1>9. pc'[s] = "idle" /\ held'[s] = {} /\ draft'[s] = <<>>
  BY <1>5 DEF IInv, TypeOK, Leave
<1>10. \A t \in Sessions \ {s} : /\ pc'[t] = pc[t] /\ req'[t] = req[t] /\ seen'[t] = seen[t]
                                 /\ held'[t] = held[t] /\ draft'[t] = draft[t]
  BY <1>5 DEF IInv, TypeOK, Leave
<1>11. LoadInv' /\ LockInv' /\ DraftInv'
  <2>1. LoadAt(s)' /\ LockAt(s)' /\ DraftAt(s)'
    BY <1>9 DEF LoadAt, LockAt, DraftAt, Drafting
  <2>2. ASSUME NEW t \in Sessions \ {s} PROVE LoadAt(t)' /\ LockAt(t)' /\ DraftAt(t)'
    BY <1>10, <2>2, Frame DEF IInv, LoadInv, LockInv, DraftInv
  <2>3. \A t, u \in Sessions : t # u => held'[t] \cap held'[u] = {}
    BY <1>9, <1>10 DEF IInv, LockInv
  <2> QED BY <2>1, <2>2, <2>3 DEF LoadInv, LockInv, DraftInv
<1>12. LinkInv'
  \* Of the others that draft a hashed entry, none is there while s is: the
  \* treasury's row is locked by s, unless s itself appends no hashed entry.
  <2>1. ASSUME NEW t \in Sessions \ {s}, pc[t] \in {"royalty", "commit"}, ~Plain(req[t])
        PROVE  LinkAt(t)'
    <3>1. Plain(q)
      BY <1>0, <2>1, OneHashes DEF q
    <3>2. \A g \in Range(rows) : ~Hashed(g)
      BY <1>0, <3>1, DraftFacts DEF Range, rows, q
    <3>3. /\ \A e \in Range(ledger) : Hashed(e) => e.at < draft[t][1].at
          /\ Linked(draft[t][1], Range(ledger))
          /\ Len(draft[t]) = 2 => /\ draft[t][1].at < draft[t][2].at
                                  /\ Linked(draft[t][2], Range(ledger) \cup {draft[t][1]})
      BY <2>1 DEF IInv, LinkInv, LinkAt
    <3>4. /\ draft[t] \in Seq(Entry) /\ Len(draft[t]) >= 1
          /\ Range(ledger) \in SUBSET Entry /\ Range(rows) \in SUBSET Entry
      <4>1. DraftAt(t)
        BY DEF IInv, DraftInv
      <4>2. draft[t] \in Seq(Entry)
        BY DEF IInv, TypeOK
      <4>3. Len(draft[t]) >= 1
        BY <2>1, <4>1 DEF DraftAt, Drafting
      <4>4. Range(rows) \in SUBSET Entry
        BY <1>4, ShortRange
      <4>5. Range(ledger) \in SUBSET Entry
        BY <1>0, ShortRange
      <4> QED BY <4>2, <4>3, <4>4, <4>5
    <3>5. draft[t][1] \in Entry /\ (Len(draft[t]) = 2 => draft[t][2] \in Entry)
      BY <3>4
    <3>6. Linked(draft[t][1], Range(ledger'))
      <4>1. Linked(draft[t][1], Range(ledger) \cup Range(rows))
        BY <3>2, <3>3, <3>4, <3>5, LinkedGrows
      <4> QED BY <1>7, <4>1
    <3>7. Len(draft[t]) = 2 => Linked(draft[t][2], Range(ledger') \cup {draft[t][1]})
      <4> SUFFICES ASSUME Len(draft[t]) = 2
                   PROVE  Linked(draft[t][2], Range(ledger') \cup {draft[t][1]})
        OBVIOUS
      <4>1. Linked(draft[t][2], (Range(ledger) \cup {draft[t][1]}) \cup Range(rows))
        <5>1. Range(ledger) \cup {draft[t][1]} \in SUBSET Entry
          BY <3>4, <3>5
        <5> QED BY <3>2, <3>3, <3>4, <3>5, <5>1, LinkedGrows
      <4>2. (Range(ledger) \cup {draft[t][1]}) \cup Range(rows) = Range(ledger') \cup {draft[t][1]}
        BY <1>7
      <4> QED BY <4>1, <4>2
    <3>8. \A e \in Range(ledger') : Hashed(e) => e.at < draft[t][1].at
      BY <1>7, <3>2, <3>3
    <3> QED BY <1>10, <3>3, <3>6, <3>7, <3>8 DEF LinkAt
  <2>2. ASSUME NEW t \in Sessions, t = s \/ ~(pc[t] \in {"royalty", "commit"} /\ ~Plain(req[t]))
        PROVE  LinkAt(t)'
    BY <1>9, <1>10, <2>2 DEF LinkAt
  <2> QED BY <2>1, <2>2 DEF LinkInv
<1>13. StampInv'
  <2>1. \A d \in Range(rows) : /\ d.at <= clock /\ \A e \in Range(ledger) : d.at # e.at
                               /\ \A t \in Sessions \ {s} : \A e \in Range(draft[t]) : d.at # e.at
    BY DEF IInv, StampInv, rows
  <2>2. \A d, e \in Range(rows) : Hashed(d) <=> Hashed(e)
    BY <1>0, DraftFacts DEF Range, rows
  <2>3. \A e \in Range(ledger') : e.at <= clock'
    BY <1>5, <1>7, <2>1 DEF IInv, StampInv
  <2>4. \A e, f \in Range(ledger') : Hashed(e) /\ ~Hashed(f) => e.at # f.at
    <3>1. \A e, f \in Range(ledger) : Hashed(e) /\ ~Hashed(f) => e.at # f.at
      BY DEF IInv, StampInv
    <3> QED BY <1>7, <2>1, <2>2, <3>1
  <2>5. ASSUME NEW t \in Sessions, NEW d \in Range(draft'[t])
        PROVE  d.at <= clock' /\ \A e \in Range(ledger') : d.at # e.at
    <3>1. t # s /\ d \in Range(draft[t])
      <4>1. Range(draft'[s]) = {}
        BY <1>9 DEF Range
      <4> QED BY <1>10, <2>5, <4>1
    <3>2. d.at <= clock /\ \A e \in Range(ledger) : d.at # e.at
      BY <3>1 DEF IInv, StampInv
    <3> QED BY <1>5, <1>7, <2>1, <3>1, <3>2
  <2>6. ASSUME NEW t \in Sessions, NEW u \in Sessions, t # u,
               NEW d \in Range(draft'[t]), NEW e \in Range(draft'[u])
        PROVE  d.at # e.at
    <3>1. Range(draft'[s]) = {}
      BY <1>9 DEF Range
    <3>2. d \in Range(draft[t]) /\ e \in Range(draft[u])
      BY <1>10, <2>6, <3>1
    <3> QED BY <2>6, <3>2 DEF IInv, StampInv
  <2> QED BY <2>3, <2>4, <2>5, <2>6 DEF StampInv
<1>14. ChainNeverForks'
  BY <1>0, <1>7, CommitLinks DEF rows
<1>15. OncePerKey'
  <2>1. ASSUME NEW k \in Keyed, NEW i \in DOMAIN ledger', NEW j \in DOMAIN ledger',
               ledger'[i].req = k, ledger'[i].type = Kind[k],
               ledger'[j].req = k, ledger'[j].type = Kind[k]
        PROVE  i = j
    <3>1. CASE i \in DOMAIN ledger /\ j \in DOMAIN ledger
      BY <1>7, <2>1, <3>1 DEF IInv, OncePerKey
    <3>2. CASE i \in DOMAIN ledger /\ j \notin DOMAIN ledger
      BY <1>4, <1>5, <1>7, <2>1, <3>2 DEF Posted
    <3>3. CASE i \notin DOMAIN ledger /\ j \in DOMAIN ledger
      BY <1>4, <1>5, <1>7, <2>1, <3>3 DEF Posted
    <3>4. CASE i \notin DOMAIN ledger /\ j \notin DOMAIN ledger
      <4>1. ASSUME NEW x \in DOMAIN ledger' \ DOMAIN ledger,
                   ledger'[x].req = k, ledger'[x].type = Kind[k]
            PROVE  x - Len(ledger) = 1
        <5>1. x - Len(ledger) \in DOMAIN rows /\ ledger'[x] = rows[x - Len(ledger)]
          BY <1>7
        <5>2. k = q
          BY <1>4, <4>1, <5>1
        <5> QED BY <1>4, <4>1, <5>1, <5>2
      <4>2. i - Len(ledger) = 1 /\ j - Len(ledger) = 1
        BY <2>1, <3>4, <4>1
      <4>3. i \in Nat /\ j \in Nat /\ Len(ledger) \in Nat
        BY <1>0, <1>7
      <4> QED BY <4>2, <4>3
    <3> QED BY <3>1, <3>2, <3>3, <3>4
  <2>2. ASSUME NEW k \in Keyed, replies'[k] \cap {"ok", "replay"} # {}
        PROVE  Posted(k)'
    <3>1. CASE k = q
      <4>1. Len(ledger) + 1 \in DOMAIN ledger' \ DOMAIN ledger
        BY <1>7
      <4>2. ledger'[Len(ledger) + 1].req = q
        BY <1>4, <1>7, <4>1
      <4> QED BY <3>1, <4>1, <4>2 DEF Posted
    <3>2. CASE k # q
      <4>1. replies'[k] = replies[k] /\ Posted(k)
        BY <1>5, <2>2, <3>2, KeyedFacts DEF IInv, TypeOK, OncePerKey
      <4> QED BY <1>7, <4>1 DEF Posted
    <3> QED BY <3>1, <3>2
  <2> QED BY <2>1, <2>2 DEF OncePerKey
<1> QED BY <1>8, <1>11, <1>12, <1>13, <1>14, <1>15 DEF IInv

LEMMA InvStep == IInv /\ [Next]_vars => IInv'
<1> SUFFICES ASSUME IInv, [Next]_vars PROVE IInv'
  OBVIOUS
<1>1. ASSUME NEW s \in Sessions, NEW q \in Requests, Begin(s, q) PROVE IInv'
  BY <1>1, BeginInv
<1>2. ASSUME NEW s \in Sessions, NEW q \in Requests, Replay(s, q) PROVE IInv'
  BY <1>2, ReplayInv
<1>3. ASSUME NEW s \in Sessions, Step(s) PROVE IInv'
  <2>1. CASE Resolve(s) BY <2>1, ResolveInv
  <2>2. CASE Lock(s) BY <2>2, LockStepInv
  <2>3. CASE Refuse(s)
    BY <2>3, LeaveInv DEF Refuse, Reply, IInv, TypeOK
  <2>4. CASE Apply(s) BY <2>4, ApplyInv
  <2>5. CASE LockCreator(s) BY <2>5, LockCreatorInv
  <2>6. CASE Flush(s) BY <2>6, FlushInv
  <2>7. CASE Commit(s) BY <2>7, CommitInv
  <2>8. CASE Conflict(s)
    BY <2>8, LeaveInv DEF Conflict, Reply, IInv, TypeOK
  <2> QED BY <1>3, <2>1, <2>2, <2>3, <2>4, <2>5, <2>6, <2>7, <2>8 DEF Step
<1>4. ASSUME NEW s \in Sessions, Crash(s) PROVE IInv'
  BY <1>4, LeaveInv DEF Crash, IInv, TypeOK
<1>5. CASE UNCHANGED vars
  <2>1. LoadInv' /\ LockInv' /\ DraftInv' /\ LinkInv'
    BY <1>5, Frame DEF vars, IInv, LoadInv, LockInv, DraftInv, LinkInv
  <2>2. TypeOK' /\ StampInv' /\ ChainNeverForks' /\ OncePerKey'
    BY <1>5 DEF vars, IInv, TypeOK, StampInv, ChainNeverForks, OncePerKey, Posted
  <2> QED BY <2>1, <2>2 DEF IInv
<1> QED BY <1>1, <1>2, <1>3, <1>4, <1>5 DEF Next, Finished

LEMMA Invariance == Spec => []IInv
  BY InitInv, InvStep, PTL DEF Spec
-----------------------------------------------------------------------------
(* Theorems. *)

\* Types, and with them: no committed balance is ever negative.
THEOREM TypeCorrect == Spec => []TypeOK
  BY Invariance, PTL DEF IInv

\* The hash chain of the ledger never forks and skips no hashed entry: the
\* treasury's row, which every call of token_service locks before it reads the
\* latest entry, keeps the reads in order; withdrawals and refunds, which lock
\* nothing of the kind, cut the chain and do nothing else to it.
THEOREM HashChain == Spec => []ChainNeverForks
  BY Invariance, PTL DEF IInv

\* A call with an idempotency key is posted at most once, for any number of
\* concurrent and repeated sends, and an answer of success is backed by an entry.
THEOREM PostedOnce == Spec => []OncePerKey
  BY Invariance, PTL DEF IInv

\* A committed balance changes only under its row lock.
THEOREM LockedWrites == Spec => WritesUnderLock
<1> DEFINE Guarded == \A a \in Accounts : balance'[a] # balance[a] =>
                        \E s \in Sessions : a \in held[s] /\ pc[s] = "commit" /\ pc'[s] = "idle"
<1>1. IInv /\ [Next]_vars => Guarded
  <2> SUFFICES ASSUME IInv, [Next]_vars, NEW a \in Accounts, balance'[a] # balance[a]
               PROVE  \E s \in Sessions : a \in held[s] /\ pc[s] = "commit" /\ pc'[s] = "idle"
    OBVIOUS
  <2>1. PICK s \in Sessions : Commit(s)
    BY DEF Next, Begin, Replay, Step, Resolve, Lock, Refuse, Apply, LockCreator, Flush,
           Conflict, Crash, Finished, vars
  <2> DEFINE q == req[s]
  <2>2. /\ q \in Requests /\ pc[s] = "commit" /\ pc'[s] = "idle"
        /\ Rows(q) \subseteq held[s]
        /\ HasCreator(q) => CreatorOf[To[q]] \in held[s]
    BY <2>1 DEF Commit, Leave, IInv, TypeOK, LoadInv, LoadAt, LockInv, LockAt, Upward
  <2>3. a \in Dirty(q, seen[s])
    BY <2>1 DEF Commit, IInv, TypeOK
  <2>4. ASSUME NEW m, DOMAIN m = Accounts, a \notin Rows(q)
        PROVE  DOMAIN AfterTransfer(q, m) = Accounts /\ AfterTransfer(q, m)[a] = m[a]
    <3>1. /\ From[q] # None => a # From[q]
          /\ To[q] # None => a # To[q]
          /\ From[q] # None /\ To[q] # None => a # Platform
      BY <2>2, <2>4, RowsFacts
    <3>2. ASSUME NEW b, DOMAIN b = Accounts, NEW n, NEW c, a # c
          PROVE  DOMAIN Add(b, c, n) = Accounts /\ Add(b, c, n)[a] = b[a]
      BY <3>2 DEF Add
    <3>3. From[q] # None \/ To[q] # None
      BY <2>2, RequestsAssumption
    <3>4. CASE From[q] = None
      BY <2>4, <3>1, <3>2, <3>3, <3>4 DEF AfterTransfer
    <3>5. CASE From[q] # None /\ To[q] = None
      BY <2>4, <3>1, <3>2, <3>5 DEF AfterTransfer
    <3>6. CASE From[q] # None /\ To[q] # None
      <4> DEFINE m1 == Add(m, From[q], -Amount[q])
                 m2 == Add(m1, To[q], Net(q))
      <4>1. DOMAIN m1 = Accounts /\ m1[a] = m[a]
        BY <2>4, <3>1, <3>2, <3>6
      <4> HIDE DEF m1
      <4>2. DOMAIN m2 = Accounts /\ m2[a] = m[a]
        BY <3>1, <3>2, <3>6, <4>1
      <4>3. AfterTransfer(q, m) = Add(m2, Platform, FeeOf(q))
        BY <3>6 DEF AfterTransfer, m1
      <4> HIDE DEF m2
      <4> QED BY <3>1, <3>2, <3>6, <4>2, <4>3
    <3> QED BY <3>4, <3>5, <3>6
  <2>5. ASSUME NEW m, DOMAIN m = Accounts, a \notin Rows(q), ~(HasCreator(q) /\ a = CreatorOf[To[q]])
        PROVE  AfterRoyalty(q, m)[a] = m[a]
    BY <2>2, <2>5, RowsFacts DEF AfterRoyalty, Add
  <2>6. DOMAIN seen[s] = Accounts
    BY DEF IInv, TypeOK
  <2>7. a \in Rows(q) \/ (HasCreator(q) /\ a = CreatorOf[To[q]])
    BY <2>3, <2>4, <2>5, <2>6 DEF Dirty
  <2> QED BY <2>2, <2>7
<1> QED BY <1>1, Invariance, PTL DEF Spec, WritesUnderLock

\* Whoever waits holds no creator's row: it is taken last, by a royalty, a
\* withdrawal or a refund that waits for nothing any more.
LEMMA WaitingHoldsNoCreator ==
  ASSUME IInv, NEW t \in Sessions, NEW u \in Sessions, WaitsFor(t, u)
  PROVE  held[t] \cap Creators = {}
<1>1. LoadAt(t) /\ LockAt(t) /\ req[t] \in Requests
  BY DEF WaitsFor, IInv, LoadInv, LoadAt, LockInv
<1>2. CASE pc[t] = "lock" /\ \E a \in held[u] : NextLock(t, a)
  <2>1. CASE Plain(req[t])
    <3>1. Kind[req[t]] = "withdrawal" /\ Rows(req[t]) = {From[req[t]]}
      BY <1>1, <1>2, <2>1, RequestsAssumption DEF LockAt, Plain, Rows
    <3>2. From[req[t]] \notin held[t]
      BY <1>2, <3>1 DEF NextLock, LockIds
    <3> QED BY <1>1, <1>2, <3>1, <3>2 DEF LockAt
  <2>2. CASE ~Plain(req[t])
    BY <1>1, <1>2, <2>2, CreatorRows DEF LockAt
  <2> QED BY <2>1, <2>2
<1>3. CASE pc[t] = "royalty"
  BY <1>1, <1>3, CreatorRows, RowsFacts DEF LoadAt, LockAt
<1>4. CASE pc[t] = "flush"
  BY <1>1, <1>4 DEF LockAt
<1> QED BY <1>2, <1>3, <1>4 DEF WaitsFor

\* No set of sessions is deadlocked: nobody in it waits for a creator's row,
\* and the one that waits for the row with the largest id waits for a session
\* that is not in the set.
THEOREM DeadlockFree == Spec => []NoDeadlock
<1>1. IInv => NoDeadlock
  <2> SUFFICES ASSUME IInv, NEW W \in SUBSET Sessions, W # {}
               PROVE  \E s \in W : \A t \in W : ~WaitsFor(s, t)
    BY DEF NoDeadlock
  <2> SUFFICES ASSUME \A s \in W : \E t \in W : WaitsFor(s, t)
               PROVE  FALSE
    OBVIOUS
  <2> DEFINE Wanted == {a \in Accounts : \E s \in W : pc[s] = "lock" /\ NextLock(s, a)}
             R == {Rank[a] : a \in Wanted}
  <2>1. ASSUME NEW s \in W
        PROVE  /\ pc[s] = "lock" /\ req[s] \in Requests /\ LockIds(req[s]) = Rows(req[s])
               /\ \E t \in W : \E a \in Wanted : a \in held[t] /\ NextLock(s, a)
    <3>1. PICK t \in W : WaitsFor(s, t)
      OBVIOUS
    <3>2. held[t] \cap Creators = {}
      BY WaitingHoldsNoCreator
    <3>3. req[s] \in Requests /\ LoadAt(s) /\ LockAt(s) /\ held[t] \subseteq Accounts
      BY <3>1 DEF WaitsFor, IInv, LoadInv, LoadAt, LockInv, TypeOK
    <3>4. ~(pc[s] = "royalty" /\ CreatorOf[To[req[s]]] \in held[t])
      BY <3>2, <3>3, CreatorFacts DEF LoadAt
    <3>5. ~(pc[s] = "flush" /\ To[req[s]] \in held[t])
      <4> SUFFICES ASSUME pc[s] = "flush" PROVE To[req[s]] \in Creators
        BY <3>2
      <4> QED BY <3>3, RequestsAssumption, CreatorsAssumption DEF LoadAt
    <3>6. pc[s] = "lock" /\ \E a \in held[t] : NextLock(s, a)
      BY <3>1, <3>4, <3>5 DEF WaitsFor
    <3>7. LockIds(req[s]) = Rows(req[s])
      BY <3>3, <3>6 DEF LockAt, LockIds
    <3> QED BY <3>3, <3>6, <3>7
  <2>2. R # {} /\ R \in SUBSET (0 .. Cardinality(Accounts)) /\ Cardinality(Accounts) \in Nat
    <3>1. Wanted # {}
      BY <2>1
    <3> QED BY <3>1, RankFacts
  <2>3. PICK x \in R : \A y \in R : y <= x
    <3> HIDE DEF R
    <3> QED BY <2>2, Largest
  <2>4. PICK a \in Wanted, s \in W : x = Rank[a] /\ NextLock(s, a)
    OBVIOUS
  <2>5. PICK t \in W, b \in Wanted : b \in held[t] /\ NextLock(s, b)
    BY <2>1
  <2>6. PICK c \in Wanted : NextLock(t, c)
    BY <2>1
  <2>7. Rank[b] < Rank[c]
    BY <2>1, <2>5, <2>6 DEF IInv, LockInv, LockAt, NextLock
  <2>8. Rank[a] <= Rank[b] /\ Rank[c] <= Rank[a]
    BY <2>3, <2>4, <2>5 DEF NextLock
  <2>9. Rank[a] \in Nat /\ Rank[b] \in Nat /\ Rank[c] \in Nat
    BY RankFacts
  <2> QED BY <2>7, <2>8, <2>9
<1> QED BY <1>1, Invariance, PTL
-----------------------------------------------------------------------------
(* Balances and entries.  They agree in every behaviour where no call       *)
(* commits with a stale row, and always where one session works at a time.  *)

Fresh(s) == \A a \in Loaded(s) : seen[s][a] = balance[a]
FreshCommits == \A s \in Sessions : pc[s] = "commit" => Fresh(s)
OneSession == \A s, t \in Sessions : s = t

\* What the entries of request q, committed by a session that sees book b, do to account a.
Moved(q, b, a) ==
  LET m == AfterTransfer(q, b)
      r == IF HasCreator(q) THEN RoyaltyOf(q, m) ELSE 0 IN
  (IF a = To[q] THEN Net(q) - r ELSE 0) + (IF a = Platform THEN FeeOf(q) ELSE 0)
  + (IF HasCreator(q) /\ a = CreatorOf[To[q]] THEN r ELSE 0)
  - (IF a = From[q] THEN Amount[q] ELSE 0)

\* The assignments of the transfer, account by account.
LEMMA TransferMoves ==
  ASSUME NEW q \in Requests, NEW b \in Book, \A x \in Rows(q) : b[x] \in Nat,
         \A x \in {From[q]} \ {None} : b[x] >= Amount[q], NEW a \in Accounts
  PROVE  LET m == AfterTransfer(q, b) IN
         /\ b[a] \notin Nat => m[a] = b[a]
         /\ b[a] \in Nat => m[a] = b[a] + (IF a = To[q] THEN Net(q) ELSE 0)
                                   + (IF a = Platform THEN FeeOf(q) ELSE 0)
                                   - (IF a = From[q] THEN Amount[q] ELSE 0)
<1>1. /\ Amount[q] \in Nat /\ FeeOf(q) \in Nat /\ Net(q) \in Nat /\ DOMAIN b = Accounts
      /\ Net(q) = Amount[q] - FeeOf(q) /\ (From[q] = None \/ To[q] = None => FeeOf(q) = 0)
      /\ From[q] # None \/ To[q] # None
      /\ a # None
  BY RowsFacts, RequestsAssumption, NoneFacts DEF Book, Net
<1>2. CASE From[q] = None
  <2>1. To[q] # None /\ b[To[q]] \in Nat /\ AfterTransfer(q, b) = [b EXCEPT ![To[q]] = @ + Amount[q]]
    BY <1>1, <1>2, RowsFacts DEF AfterTransfer, Add
  <2>2. Net(q) = Amount[q] /\ FeeOf(q) = 0 /\ a # From[q]
    BY <1>1, <1>2
  <2> QED BY <1>1, <2>1, <2>2
<1>3. CASE From[q] # None /\ To[q] = None
  <2>1. b[From[q]] \in Nat /\ AfterTransfer(q, b) = [b EXCEPT ![From[q]] = @ + (-Amount[q])]
    BY <1>1, <1>3, RowsFacts DEF AfterTransfer, Add
  <2>2. FeeOf(q) = 0 /\ a # To[q]
    BY <1>1, <1>3
  <2> QED BY <1>1, <2>1, <2>2
<1>4. CASE From[q] # None /\ To[q] # None
  <2> DEFINE m1 == Add(b, From[q], -Amount[q])
             m2 == Add(m1, To[q], Net(q))
             m3 == Add(m2, Platform, FeeOf(q))
  <2>0. {From[q], To[q], Platform} \subseteq Rows(q) /\ Rows(q) \subseteq Accounts
    BY <1>4, RowsFacts
  <2>1. AfterTransfer(q, b) = m3
    BY <1>4 DEF AfterTransfer
  <2>2. DOMAIN m1 = Accounts /\ m1[a] = IF a = From[q] THEN b[a] + (-Amount[q]) ELSE b[a]
    BY <1>1 DEF Add
  <2>3. DOMAIN m2 = Accounts /\ m2[a] = IF a = To[q] THEN m1[a] + Net(q) ELSE m1[a]
    <3> HIDE DEF m1
    <3> QED BY <1>1, <2>2 DEF Add
  <2>4. m3[a] = IF a = Platform THEN m2[a] + FeeOf(q) ELSE m2[a]
    <3> HIDE DEF m2
    <3> QED BY <1>1, <2>3 DEF Add
  <2>5. a \in {From[q], To[q], Platform} => b[a] \in Nat
    BY <2>0
  <2> HIDE DEF m1, m2, m3
  <2>6. b[a] \notin Nat => m3[a] = b[a]
    BY <2>2, <2>3, <2>4, <2>5
  <2>7. b[a] \in Nat => m3[a] = b[a] + (IF a = To[q] THEN Net(q) ELSE 0)
                                   + (IF a = Platform THEN FeeOf(q) ELSE 0)
                                   - (IF a = From[q] THEN Amount[q] ELSE 0)
    BY <1>1, <2>2, <2>3, <2>4
  <2> QED BY <2>1, <2>6, <2>7
<1> QED BY <1>2, <1>3, <1>4

\* And with the royalty's.
LEMMA CommitMoves ==
  ASSUME NEW q \in Requests, NEW b \in Book, \A x \in Rows(q) : b[x] \in Nat,
         HasCreator(q) => b[CreatorOf[To[q]]] \in Nat,
         \A x \in {From[q]} \ {None} : b[x] >= Amount[q], NEW a \in Accounts
  PROVE  LET n == AfterRoyalty(q, AfterTransfer(q, b)) IN
         /\ b[a] \notin Nat => n[a] = b[a]
         /\ b[a] \in Nat => n[a] = b[a] + Moved(q, b, a)
         /\ Moved(q, b, a) \in Int
<1> DEFINE m == AfterTransfer(q, b)
           n == AfterRoyalty(q, m)
           r == IF HasCreator(q) THEN RoyaltyOf(q, m) ELSE 0
           c == CreatorOf[To[q]]
<1>1. /\ b[a] \notin Nat => m[a] = b[a]
      /\ b[a] \in Nat => m[a] = b[a] + (IF a = To[q] THEN Net(q) ELSE 0)
                                + (IF a = Platform THEN FeeOf(q) ELSE 0)
                                - (IF a = From[q] THEN Amount[q] ELSE 0)
  BY TransferMoves
<1>2. m \in Book /\ Net(q) \in Nat /\ FeeOf(q) \in Nat /\ Amount[q] \in Nat
  <2>1. m \in Book
    BY TransferBook
  <2> HIDE DEF m
  <2> QED BY <2>1, RowsFacts
<1>3. r \in Nat
  BY ReceiverBook
<1>4. Moved(q, b, a) = (IF a = To[q] THEN Net(q) - r ELSE 0)
                       + (IF a = Platform THEN FeeOf(q) ELSE 0)
                       + (IF HasCreator(q) /\ a = c THEN r ELSE 0)
                       - (IF a = From[q] THEN Amount[q] ELSE 0)
  BY DEF Moved
<1> HIDE DEF m, r
<1>5. Moved(q, b, a) \in Int
  BY <1>2, <1>3, <1>4
<1>6. CASE ~HasCreator(q)
  <2>1. n[a] = m[a] /\ r = 0
    BY <1>6 DEF AfterRoyalty, r
  <2> HIDE DEF n
  <2> QED BY <1>1, <1>2, <1>4, <1>5, <1>6, <2>1 DEF m, n
<1>7. CASE HasCreator(q)
  <2>1. c \in Accounts /\ c # To[q] /\ c \notin Rows(q) /\ To[q] \in Accounts
    BY <1>7, CreatorFacts, RowsFacts
  <2>2. n = Add(Add(m, To[q], -r), c, r)
    BY <1>7 DEF AfterRoyalty, r
  <2>3. n[a] = IF a = To[q] THEN m[a] + (-r) ELSE IF a = c THEN m[a] + r ELSE m[a]
    BY <1>2, <2>1, <2>2 DEF Add, Book
  <2>4. a \in {To[q], c} => b[a] \in Nat
    BY <1>7, RowsFacts
  <2> HIDE DEF n, c
  <2>5. b[a] \notin Nat => n[a] = b[a]
    BY <1>1, <2>3, <2>4
  <2>6. b[a] \in Nat => n[a] = b[a] + Moved(q, b, a)
    BY <1>1, <1>2, <1>3, <1>4, <1>7, <2>1, <2>3
  <2> QED BY <1>5, <2>5, <2>6 DEF m, n
<1> QED BY <1>6, <1>7

\* A commit on fresh rows changes every committed balance by what the call moves.
LEMMA FreshCommit ==
  ASSUME IInv, NEW s \in Sessions, Commit(s), Fresh(s), NEW a \in Accounts
  PROVE  /\ Moved(req[s], seen[s], a) \in Int
         /\ balance'[a] = balance[a] + Moved(req[s], seen[s], a)
<1> DEFINE q == req[s]
           b == seen[s]
           m == AfterTransfer(q, b)
           n == AfterRoyalty(q, m)
<1>1. /\ q \in Requests /\ b \in Book /\ balance[a] \in Nat
      /\ \A x \in Rows(q) : b[x] \in Nat
      /\ HasCreator(q) => b[CreatorOf[To[q]]] \in Nat
      /\ \A x \in {From[q]} \ {None} : b[x] >= Amount[q]
      /\ a \in Loaded(s) <=> b[a] \in Nat
  BY AtDraft DEF Commit, Drafting
<1>2. balance'[a] = IF m[a] # b[a] \/ n[a] # m[a] THEN n[a] ELSE balance[a]
  BY DEF Commit, Dirty
<1>3. b[a] \in Nat => b[a] = balance[a]
  BY <1>1 DEF Fresh
<1> HIDE DEF q, b
<1>4. /\ b[a] \notin Nat => m[a] = b[a] /\ n[a] = b[a]
      /\ b[a] \in Nat => n[a] = b[a] + Moved(q, b, a)
      /\ Moved(q, b, a) \in Int
  BY <1>1, TransferMoves, CommitMoves
<1>5. b[a] \notin Nat => Moved(q, b, a) = 0
  <2> SUFFICES ASSUME b[a] \notin Nat PROVE Moved(q, b, a) = 0
    OBVIOUS
  <2>1. a \notin Rows(q) /\ ~(HasCreator(q) /\ a = CreatorOf[To[q]]) /\ a # None
    BY <1>1, NoneFacts
  <2>2. a # To[q] /\ a # From[q] /\ (a = Platform => FeeOf(q) = 0)
    BY <1>1, <2>1, RowsFacts
  <2> QED BY <2>1, <2>2 DEF Moved
<1> HIDE DEF m, n
<1>6. CASE b[a] \in Nat
  BY <1>1, <1>2, <1>3, <1>4, <1>6 DEF q, b
<1>7. CASE b[a] \notin Nat
  BY <1>1, <1>2, <1>4, <1>5, <1>7 DEF q, b
<1> QED BY <1>6, <1>7

\* What was entered is a number.
LEMMA EffectInt ==
  ASSUME NEW e \in Entry, NEW a \in Accounts PROVE Effect(e, a) \in Int
<1>1. e.amount \in Nat /\ e.fee \in Nat
  BY DEF Entry
<1> QED BY <1>1 DEF Effect

LEMMA EnteredInt ==
  ASSUME TypeOK, NEW a \in Accounts PROVE Entered(a) \in Int
<1>1. \A i \in DOMAIN ledger : Effect(ledger[i], a) \in Int
  BY EffectInt DEF TypeOK
<1>2. IsFiniteSet(DOMAIN ledger)
  <2>1. DOMAIN ledger = 1 .. Len(ledger) /\ Len(ledger) \in Nat
    BY DEF TypeOK
  <2> QED BY <2>1, FS_Interval
<1> QED BY <1>1, <1>2, SumFunctionInt DEF Entered

\* The entries of a call say what it moves.
LEMMA RowsEffect ==
  ASSUME IInv, NEW s \in Sessions, pc[s] = "commit", NEW a \in Accounts
  PROVE  LET rows == draft[s]
             v == Moved(req[s], seen[s], a) IN
         /\ Len(rows) = 1 => Effect(rows[1], a) = v
         /\ Len(rows) = 2 => Effect(rows[1], a) + Effect(rows[2], a) = v
<1> DEFINE q == req[s]
           b == seen[s]
           m == AfterTransfer(q, b)
           r == IF HasCreator(q) THEN RoyaltyOf(q, m) ELSE 0
           c == CreatorOf[To[q]]
           rows == draft[s]
           v == Moved(q, b, a)
<1>1. /\ q \in Requests /\ b \in Book /\ \A x \in Rows(q) : b[x] \in Nat
      /\ \A x \in {From[q]} \ {None} : b[x] >= Amount[q]
  BY AtDraft DEF Drafting
<1>2. /\ rows[1] = Row(q, rows[1].prev, rows[1].at) /\ Len(rows) \in {1, 2}
      /\ Len(rows) = 2 <=> HasCreator(q) /\ RoyaltyOf(q, m) > 0
      /\ Len(rows) = 2 => rows[2] = RoyaltyRow(q, m, rows[2].prev, rows[2].at)
  BY DraftFacts
<1> HIDE DEF q, b, rows
<1>3. r \in Nat /\ Net(q) \in Nat /\ FeeOf(q) \in Nat /\ Amount[q] \in Nat /\ Net(q) = Amount[q] - FeeOf(q)
  BY <1>1, RowsFacts, ReceiverBook DEF Net
<1>4. v = (IF a = To[q] THEN Net(q) - r ELSE 0) + (IF a = Platform THEN FeeOf(q) ELSE 0)
          + (IF HasCreator(q) /\ a = c THEN r ELSE 0)
          - (IF a = From[q] THEN Amount[q] ELSE 0)
  BY DEF Moved
<1> DEFINE e1 == Effect(rows[1], a)
           e2 == Effect(rows[2], a)
<1>5. e1 = (IF a = To[q] THEN Net(q) ELSE 0) + (IF a = Platform THEN FeeOf(q) ELSE 0)
           - (IF a = From[q] THEN Amount[q] ELSE 0)
  <2>1. /\ rows[1].from = From[q] /\ rows[1].to = To[q]
        /\ rows[1].amount = Amount[q] /\ rows[1].fee = FeeOf(q)
    BY <1>2 DEF Row
  <2> QED BY <1>3, <2>1 DEF Effect
<1>6. CASE Len(rows) = 2
  <2>1. HasCreator(q) /\ r = RoyaltyOf(q, m)
    BY <1>2, <1>6
  <2>2. /\ rows[2].from = To[q] /\ rows[2].to = c /\ rows[2].amount = r /\ rows[2].fee = 0
    BY <1>2, <1>6, <2>1 DEF RoyaltyRow
  <2> HIDE DEF r, c, e1, v
  <2>3. e2 = (IF a = c THEN r ELSE 0) - (IF a = To[q] THEN r ELSE 0)
    BY <1>3, <2>2 DEF Effect
  <2> HIDE DEF e2
  <2>4. e1 + e2 = v
    BY <1>3, <1>4, <1>5, <2>1, <2>3
  <2> QED BY <1>6, <2>4 DEF e1, e2, v, q, b, rows
<1>7. CASE Len(rows) # 2
  <2>1. r = 0
    <3>1. ~(HasCreator(q) /\ RoyaltyOf(q, m) > 0)
      BY <1>2, <1>7
    <3> QED BY <1>3, <3>1
  <2> HIDE DEF r, c, e1, v
  <2>2. e1 = v
    BY <1>3, <1>4, <1>5, <2>1
  <2> QED BY <1>7, <2>2 DEF e1, v, q, b, rows
<1> QED BY <1>6, <1>7

\* The entries of a commit add what it moves.
LEMMA EnteredGrows ==
  ASSUME IInv, NEW s \in Sessions, Commit(s), NEW a \in Accounts
  PROVE  Entered(a)' = Entered(a) + Moved(req[s], seen[s], a)
<1> DEFINE q == req[s]
           b == seen[s]
           rows == draft[s]
           k == Len(ledger)
           f == [i \in 1 .. k |-> Effect(ledger[i], a)]
           g == [i \in 1 .. k + 1 |-> Effect(ledger'[i], a)]
           h == [i \in 1 .. (k + 1) + 1 |-> Effect(ledger'[i], a)]
<1>1. k \in Nat /\ ledger \in Seq(Entry) /\ pc[s] = "commit"
  BY AtDraft DEF Commit, Drafting
<1>2. rows \in Seq(Entry) /\ Len(rows) \in {1, 2}
  BY <1>1, DraftFacts
<1>3. /\ Len(rows) = 1 => Effect(rows[1], a) = Moved(q, b, a)
      /\ Len(rows) = 2 => Effect(rows[1], a) + Effect(rows[2], a) = Moved(q, b, a)
  BY <1>1, RowsEffect
<1>4. ledger' = ledger \o rows
  BY DEF Commit
<1> HIDE DEF q, b, rows
<1>5. /\ ledger' \in Seq(Entry) /\ Len(ledger') = k + Len(rows) /\ DOMAIN ledger = 1 .. k
      /\ DOMAIN ledger' = 1 .. Len(ledger') /\ DOMAIN rows = 1 .. Len(rows)
      /\ \A i \in 1 .. k : ledger'[i] = ledger[i]
      /\ \A i \in DOMAIN rows : ledger'[k + i] = rows[i]
  BY <1>1, <1>2, <1>4
<1>6. /\ \A i \in 1 .. k : Effect(ledger[i], a) \in Int
      /\ \A i \in DOMAIN ledger' : Effect(ledger'[i], a) \in Int
  BY <1>1, <1>5, EffectInt
<1>7. f \in [1 .. k -> Int] /\ Entered(a) = SumFunction(f)
  BY <1>5, <1>6 DEF Entered
<1>8. /\ g \in [1 .. k + 1 -> Int] /\ (\A i \in 1 .. k : g[i] = f[i]) /\ g[k + 1] = Effect(rows[1], a)
      /\ 1 \in DOMAIN rows
  <2>1. 1 \in DOMAIN rows /\ k + 1 \in DOMAIN ledger' /\ 1 .. k + 1 \subseteq DOMAIN ledger'
    BY <1>1, <1>2, <1>5
  <2>2. ledger'[k + 1] = rows[1]
    BY <1>5, <2>1
  <2>3. \A i \in 1 .. k + 1 : Effect(ledger'[i], a) \in Int
    BY <1>6, <2>1
  <2>4. \A i \in 1 .. k : i \in 1 .. k + 1 /\ ledger'[i] = ledger[i]
    BY <1>1, <1>5
  <2>5. k + 1 \in 1 .. k + 1
    BY <1>1
  <2> HIDE DEF k
  <2> QED BY <2>1, <2>2, <2>3, <2>4, <2>5
<1>9. SumFunction(g) = SumFunction(f) + Effect(rows[1], a)
  <2> HIDE DEF f, g, k
  <2> QED BY <1>1, <1>7, <1>8, SumFunctionAppend
<1>10. SumFunction(f) \in Int
  BY <1>7, EnteredInt DEF IInv
<1>11. CASE Len(rows) = 1
  <2>1. Entered(a)' = SumFunction(g)
    BY <1>1, <1>5, <1>11 DEF Entered
  <2> HIDE DEF f, g, k
  <2> QED BY <1>3, <1>7, <1>9, <1>11, <2>1 DEF q, b
<1>12. CASE Len(rows) = 2
  <2>1. /\ h \in [1 .. (k + 1) + 1 -> Int] /\ (\A i \in 1 .. k + 1 : h[i] = g[i])
        /\ h[(k + 1) + 1] = Effect(rows[2], a) /\ 2 \in DOMAIN rows
    BY <1>1, <1>5, <1>6, <1>12
  <2>2. Entered(a)' = SumFunction(h)
    BY <1>1, <1>5, <1>12 DEF Entered
  <2>3. k + 1 \in Nat
    BY <1>1
  <2>4. Effect(rows[1], a) \in Int /\ Effect(rows[2], a) \in Int
    BY <1>3, <1>8, <2>1
  <2> DEFINE j == k + 1
  <2> HIDE DEF f, g, h, j
  <2>5. SumFunction(h) = SumFunction(g) + Effect(rows[2], a)
    BY <1>8, <2>1, <2>3, SumFunctionAppend DEF j
  <2>6. Effect(rows[1], a) + Effect(rows[2], a) = Moved(q, b, a)
    BY <1>3, <1>12
  <2> DEFINE e1 == Effect(rows[1], a)
             e2 == Effect(rows[2], a)
  <2>7. SumFunction(h) = SumFunction(f) + (e1 + e2)
    <3>1. SumFunction(h) = (SumFunction(f) + e1) + e2
      BY <1>9, <2>5
    <3>2. e1 \in Int /\ e2 \in Int
      BY <2>4
    <3> HIDE DEF e1, e2
    <3> QED BY <1>10, <3>1, <3>2
  <2> QED BY <1>7, <2>2, <2>6, <2>7 DEF q, b
<1> QED BY <1>2, <1>11, <1>12
-----------------------------------------------------------------------------
\* Only a commit writes balances and entries.
LEMMA OnlyCommitWrites ==
  ASSUME [Next]_vars, \A s \in Sessions : ~Commit(s) PROVE UNCHANGED <<balance, ledger>>
  BY DEF Next, Begin, Replay, Step, Resolve, Lock, Refuse, Apply, LockCreator, Flush, Conflict,
         Crash, Finished, vars

LEMMA MatchInit == Init => BalancesMatchLedger
<1> SUFFICES ASSUME Init, NEW a \in Accounts PROVE balance[a] = Opening[a] + Entered(a)
  BY DEF BalancesMatchLedger
<1> DEFINE f == [i \in DOMAIN ledger |-> Effect(ledger[i], a)]
<1>1. DOMAIN f = {}
  BY DEF Init
<1>2. SumFunction(f) = SumFunctionOnSet(f, {})
  BY <1>1 DEF SumFunction
<1>3. Entered(a) = 0
  <2> HIDE DEF f
  <2>1. SumFunction(f) = 0
    BY <1>2, SumEmpty
  <2> QED BY <2>1 DEF Entered, f
<1> QED BY <1>3, AccountsAssumption DEF Init

LEMMA MatchStep ==
  IInv /\ FreshCommits /\ BalancesMatchLedger /\ [Next]_vars => BalancesMatchLedger'
<1> SUFFICES ASSUME IInv, FreshCommits, BalancesMatchLedger, [Next]_vars, NEW a \in Accounts
             PROVE  balance'[a] = Opening[a] + Entered(a)'
  BY DEF BalancesMatchLedger
<1>1. ASSUME NEW s \in Sessions, Commit(s) PROVE balance'[a] = Opening[a] + Entered(a)'
  <2>1. Fresh(s)
    BY <1>1 DEF FreshCommits, Commit
  <2>2. /\ Moved(req[s], seen[s], a) \in Int
        /\ balance'[a] = balance[a] + Moved(req[s], seen[s], a)
        /\ Entered(a)' = Entered(a) + Moved(req[s], seen[s], a)
    BY <1>1, <2>1, FreshCommit, EnteredGrows
  <2>3. Entered(a) \in Int /\ Opening[a] \in Int /\ balance[a] = Opening[a] + Entered(a)
    BY EnteredInt, AccountsAssumption DEF IInv, BalancesMatchLedger
  <2> QED BY <2>2, <2>3
<1>2. CASE \A s \in Sessions : ~Commit(s)
  BY <1>2, OnlyCommitWrites DEF BalancesMatchLedger, Entered
<1> QED BY <1>1, <1>2

\* Where one session works at a time, what it has loaded is never stale.
LEMMA OneSessionFresh ==
  ASSUME OneSession PROVE IInv /\ [Next]_vars /\ (\A s \in Sessions : Fresh(s)) => (\A s \in Sessions : Fresh(s))'
<1> SUFFICES ASSUME IInv, [Next]_vars, \A s \in Sessions : Fresh(s), NEW s \in Sessions PROVE Fresh(s)'
  OBVIOUS
<1>0. seen \in [Sessions -> Book] /\ balance \in [Accounts -> Nat]
  BY DEF IInv, TypeOK, Book
<1>1. CASE Leave(s)
  BY <1>0, <1>1 DEF Leave, Fresh, Loaded, NothingLoaded
<1>2. CASE seen' = seen /\ balance' = balance
  BY <1>2 DEF Fresh, Loaded
<1>3. ASSUME NEW x \in Accounts, seen' = [seen EXCEPT ![s][x] = balance[x]], balance' = balance
      PROVE  Fresh(s)'
  BY <1>0, <1>3 DEF Fresh, Loaded, Book
<1>4. CASE Resolve(s) \/ LockCreator(s) \/ Lock(s)
  <2>1. Resolve(s) => NextToLoad(s) \in Accounts
    BY RequestsAssumption, AccountsAssumption DEF Resolve, NextToLoad, IInv, LoadInv, LoadAt
  <2>2. LockCreator(s) => CreatorOf[To[req[s]]] \in Accounts
    BY CreatorFacts DEF LockCreator, IInv, LoadInv, LoadAt
  <2>3. CASE Lock(s)
    <3>1. PICK a \in Accounts :
            seen' = [seen EXCEPT ![s][a] = IF a \in Loaded(s) THEN @ ELSE balance[a]]
      BY <2>3 DEF Lock
    <3>2. balance' = balance
      BY <2>3 DEF Lock
    <3>3. CASE a \in Loaded(s)
      BY <1>0, <1>2, <3>1, <3>2, <3>3 DEF Book
    <3>4. CASE a \notin Loaded(s)
      BY <1>3, <3>1, <3>2, <3>4
    <3> QED BY <3>3, <3>4
  <2> QED BY <1>3, <1>4, <2>1, <2>2, <2>3 DEF Resolve, LockCreator
<1>5. CASE \E q \in Requests : Begin(s, q) \/ Replay(s, q)
  BY <1>2, <1>5 DEF Begin, Replay
<1>6. CASE Step(s) \/ Crash(s)
  BY <1>1, <1>2, <1>4, <1>6 DEF Step, Refuse, Apply, Flush, Commit, Conflict, Crash
<1>7. CASE UNCHANGED vars
  BY <1>2, <1>7 DEF vars
<1>8. \A t \in Sessions : t = s
  BY DEF OneSession
<1> QED BY <1>5, <1>6, <1>7, <1>8 DEF Next, Finished

LEMMA OneSessionCommits ==
  ASSUME OneSession PROVE Spec => []FreshCommits
<1>1. Init => \A s \in Sessions : Fresh(s)
  BY DEF Init, Fresh, Loaded, NothingLoaded
<1>2. (\A s \in Sessions : Fresh(s)) => FreshCommits
  BY DEF FreshCommits
<1> QED BY <1>1, <1>2, Invariance, OneSessionFresh, PTL DEF Spec

\* A refund serves a withdrawal that was posted; entries are never taken back.
Backed == \A s \in Sessions : pc[s] # "idle" /\ Kind[req[s]] = "refund" => Posted(Undoes[req[s]])

LEMMA RefundsBacked == Spec => []Backed
<1>1. Init => Backed
  BY DEF Init, Backed
<1>2. IInv /\ Backed /\ [Next]_vars => Backed'
  <2> SUFFICES ASSUME IInv, Backed, [Next]_vars PROVE Backed'
    OBVIOUS
  <2>1. \A q : Posted(q) => Posted(q)'
    <3>1. ASSUME NEW s \in Sessions, Commit(s), NEW q, Posted(q) PROVE Posted(q)'
      <4>1. pc[s] = "commit" /\ ledger' = ledger \o draft[s]
            /\ ledger \in Seq(Entry) /\ draft[s] \in Seq(Entry)
        BY <3>1 DEF Commit, IInv, TypeOK
      <4>2. \A i \in DOMAIN ledger : i \in DOMAIN ledger' /\ ledger'[i] = ledger[i]
        BY <4>1
      <4> QED BY <3>1, <4>2 DEF Posted
    <3>2. (\A s \in Sessions : ~Commit(s)) => UNCHANGED ledger
      BY OnlyCommitWrites
    <3> QED BY <3>1, <3>2 DEF Posted
  <2> DEFINE Same(s) == req'[s] = req[s] /\ (pc[s] = "idle" => pc'[s] = "idle")
             Due(s) == Kind[req'[s]] = "refund" => Posted(Undoes[req'[s]])
  <2>2. ASSUME NEW s \in Sessions PROVE Same(s) \/ pc'[s] = "idle" \/ Due(s)
    <3>1. ASSUME NEW t \in Sessions, NEW q \in Requests, Begin(t, q) PROVE Same(s) \/ Due(s)
      BY <3>1 DEF Begin, IInv, TypeOK
    <3>2. ASSUME NEW t \in Sessions, Leave(t) PROVE Same(s) \/ pc'[s] = "idle"
      BY <3>2 DEF Leave, IInv, TypeOK
    <3>3. ASSUME NEW t \in Sessions, Refuse(t) \/ Commit(t) \/ Conflict(t) \/ Crash(t)
          PROVE  Same(s) \/ pc'[s] = "idle"
      <4>1. Leave(t)
        BY <3>3 DEF Refuse, Commit, Conflict, Crash
      <4> QED BY <3>2, <4>1
    <3>4. ASSUME NEW t \in Sessions, Resolve(t) \/ Lock(t) \/ Apply(t) \/ LockCreator(t) \/ Flush(t)
          PROVE  Same(s)
      BY <3>4 DEF Resolve, Lock, Apply, LockCreator, Flush, IInv, TypeOK
    <3>5. ASSUME NEW t \in Sessions, NEW q \in Requests, Replay(t, q) PROVE Same(s)
      BY <3>5 DEF Replay
    <3>6. CASE UNCHANGED vars
      BY <3>6 DEF vars
    <3> HIDE DEF Same, Due
    <3> QED BY <3>1, <3>3, <3>4, <3>5, <3>6 DEF Next, Step, Finished
  <2> QED BY <2>1, <2>2 DEF Backed
<1> QED BY <1>1, <1>2, Invariance, PTL DEF Spec

\* A commit on fresh rows is the abstract ledger's Post.
LEMMA CommitPosts ==
  ASSUME IInv, Backed, NEW s \in Sessions, Commit(s), Fresh(s) PROVE Bank!Next
<1> DEFINE q == req[s]
           b == seen[s]
           m == AfterTransfer(q, b)
           posted == {ledger[i].req : i \in DOMAIN ledger}
<1>1. /\ q \in Requests /\ b \in Book /\ Len(ledger) \in Nat /\ pc[s] = "commit"
      /\ ledger \in Seq(Entry)
      /\ \A x \in Rows(q) : b[x] \in Nat
      /\ HasCreator(q) => b[CreatorOf[To[q]]] \in Nat
      /\ \A x \in {From[q]} \ {None} : b[x] >= Amount[q]
      /\ \A a \in Accounts : a \in Loaded(s) <=> b[a] \in Nat
  BY AtDraft DEF Commit, Drafting
<1>2. q \in Keyed => q \notin posted
  BY DEF Commit, Unique, Posted
<1>3. From[q] # None => balance[From[q]] >= Amount[q]
  <2> SUFFICES ASSUME From[q] # None PROVE balance[From[q]] >= Amount[q]
    OBVIOUS
  <2>1. From[q] \in Rows(q) /\ From[q] \in Accounts /\ b[From[q]] >= Amount[q]
    BY <1>1, RowsFacts
  <2> QED BY <1>1, <2>1 DEF Fresh
<1>4. Kind[q] = "refund" => Undoes[q] \in posted
  BY <1>1 DEF Backed, Posted
<1>5. HasCreator(q) => RoyaltyOf(q, m) = Royalty(Net(q))
  \* The receiver has at least what it has just received.
  <2> SUFFICES ASSUME HasCreator(q) PROVE RoyaltyOf(q, m) = Royalty(Net(q))
    OBVIOUS
  <2> DEFINE to == To[q]
  <2> HIDE DEF b, q
  <2>1. /\ to \in Accounts /\ to # Platform /\ b[to] \in Nat /\ Net(q) \in Nat /\ Amount[q] \in Nat
        /\ Royalty(Net(q)) \in 0 .. Net(q) /\ (to = From[q] => b[to] >= Amount[q])
    BY <1>1, RowsFacts, NoneFacts
  <2>2. m[to] = b[to] + (IF to = To[q] THEN Net(q) ELSE 0)
                     + (IF to = Platform THEN FeeOf(q) ELSE 0)
                     - (IF to = From[q] THEN Amount[q] ELSE 0)
    BY <1>1, <2>1, TransferMoves
  <2> HIDE DEF m
  <2>3. m[to] = b[to] + Net(q) - (IF to = From[q] THEN Amount[q] ELSE 0)
    BY <2>1, <2>2
  <2>4. ~(m[to] < Royalty(Net(q)))
    BY <2>1, <2>3
  <2> QED BY <2>4 DEF RoyaltyOf
<1>6. ASSUME NEW a \in Accounts PROVE Moved(q, b, a) = Bank!Movement(q, a)
  <2> DEFINE r == Royalty(Net(q))
  <2>1. /\ Bank!Charge(q) = FeeOf(q) /\ Bank!Received(q) = Net(q)
        /\ Bank!Upstream(q) = IF HasCreator(q) THEN r ELSE 0
    BY DEF Bank!Charge, Bank!Received, Bank!Upstream, Bank!ToCreator, FeeOf, Net, HasCreator
  <2>2. Moved(q, b, a) = (IF a = To[q] THEN Net(q) - (IF HasCreator(q) THEN r ELSE 0) ELSE 0)
                         + (IF a = Platform THEN FeeOf(q) ELSE 0)
                         + (IF HasCreator(q) /\ a = CreatorOf[To[q]] THEN r ELSE 0)
                         - (IF a = From[q] THEN Amount[q] ELSE 0)
    <3> HIDE DEF q, b, m
    <3> QED BY <1>5 DEF Moved, m
  <2>3. r \in Int /\ Net(q) \in Int /\ FeeOf(q) \in Int /\ Amount[q] \in Int
    BY <1>1, RowsFacts
  <2>4. Bank!ToCreator(q, a) <=> HasCreator(q) /\ a = CreatorOf[To[q]]
    BY NoneFacts DEF Bank!ToCreator, HasCreator
  <2> HIDE DEF q, b, r, m
  <2> QED BY <2>1, <2>2, <2>3, <2>4 DEF Bank!Movement
<1>7. balance' = [a \in Accounts |-> balance[a] + Bank!Movement(q, a)]
  <2>1. balance' = [a \in Accounts |-> balance'[a]]
    BY DEF Commit
  <2>2. \A a \in Accounts : balance'[a] = balance[a] + Bank!Movement(q, a)
    BY <1>6, FreshCommit
  <2> QED BY <2>1, <2>2
<1>8. {ledger'[i].req : i \in DOMAIN ledger'} = posted \cup {q}
  <2> DEFINE rows == draft[s]
  <2>1. /\ rows \in Seq(Entry) /\ Len(rows) >= 1 /\ \A i \in DOMAIN rows : rows[i].req = q
    <3>1. /\ rows \in Seq(Entry) /\ Len(rows) \in {1, 2}
          /\ \A i \in DOMAIN rows : rows[i].req = q
      BY <1>1, DraftFacts
    <3>2. \A k \in {1, 2} : k >= 1
      OBVIOUS
    <3> HIDE DEF rows
    <3> QED BY <3>1, <3>2
  <2>2. ledger' = ledger \o rows
    BY DEF Commit
  <2> HIDE DEF rows, q
  <2>3. /\ DOMAIN ledger \subseteq DOMAIN ledger'
        /\ Len(ledger) + 1 \in DOMAIN ledger' \ DOMAIN ledger
        /\ \A i \in DOMAIN ledger : ledger'[i] = ledger[i]
        /\ \A i \in DOMAIN ledger' \ DOMAIN ledger :
             i - Len(ledger) \in DOMAIN rows /\ ledger'[i] = rows[i - Len(ledger)]
    BY <1>1, <2>1, <2>2, AppendFacts
  <2>4. \A i \in DOMAIN ledger' \ DOMAIN ledger : ledger'[i].req = q
    BY <2>1, <2>3
  <2> QED BY <2>3, <2>4
<1> QED BY <1>1, <1>2, <1>3, <1>4, <1>7, <1>8 DEF Bank!Next, Bank!Post

LEMMA BankStep == IInv /\ Backed /\ FreshCommits /\ [Next]_vars => [Bank!Next]_(Bank!vars)
<1> SUFFICES ASSUME IInv, Backed, FreshCommits, [Next]_vars PROVE [Bank!Next]_(Bank!vars)
  OBVIOUS
<1>1. ASSUME NEW s \in Sessions, Commit(s) PROVE Bank!Next
  <2>1. Fresh(s)
    BY <1>1 DEF FreshCommits, Commit
  <2> QED BY <1>1, <2>1, CommitPosts
<1>2. CASE \A s \in Sessions : ~Commit(s)
  BY <1>2, OnlyCommitWrites DEF Bank!vars
<1> QED BY <1>1, <1>2

\* Double entry, for any number of sessions: a balance departs from its entries only through a
\* commit on a row that was read before its lock was held.
THEOREM FreshCommitsMatch == Spec /\ []FreshCommits => []BalancesMatchLedger
  BY Invariance, MatchInit, MatchStep, PTL DEF Spec

\* The implementation of the abstract ledger, under the same condition.
THEOREM FreshCommitsImplementBank == Spec /\ []FreshCommits => BankSpec
<1>1. Init => Bank!Init
  BY DEF Init, Bank!Init
<1> QED BY <1>1, Invariance, RefundsBacked, BankStep, PTL DEF Spec, BankSpec, Bank!Spec

\* Where one call runs at a time no commit is stale, whatever the accounts, rates and retries.
THEOREM SerialCallsMatch == OneSession => (Spec => []BalancesMatchLedger)
  BY OneSessionCommits, FreshCommitsMatch

THEOREM SerialCallsImplementBank == OneSession => (Spec => BankSpec)
  BY OneSessionCommits, FreshCommitsImplementBank
=============================================================================
