-------------------------------- MODULE Bank --------------------------------
(***************************************************************************)
(* What the writers of the ledger promise their callers: a request is      *)
(* posted in one step, in full or not at all, it moves exactly the stated  *)
(* amounts, a request with an idempotency key is posted at most once, only *)
(* a withdrawal that was posted is given back, and no account is           *)
(* overdrawn.  There are no sessions, locks, snapshots or retries here;    *)
(* Ledger is shown to implement this module where one session works at a   *)
(* time.                                                                   *)
(***************************************************************************)
EXTENDS Integers

CONSTANTS Requests, Accounts, Platform, None, Kind, From, To, Undoes, Amount, Keyed,
          CreatorOf, Fee(_), Royalty(_), Opening

VARIABLES
  funds,    \* the balance of each account
  posted    \* the requests that were posted

vars == <<funds, posted>>

Charge(q) == IF Kind[q] \in {"purchase", "transfer"} THEN Fee(Amount[q]) ELSE 0
Received(q) == Amount[q] - Charge(q)

\* What the receiver passes on to its creator.
ToCreator(q, a) == Kind[q] = "purchase" /\ CreatorOf[To[q]] = a
Upstream(q) == IF Kind[q] = "purchase" /\ ~ToCreator(q, None) THEN Royalty(Received(q)) ELSE 0

\* What a request moves into (or out of) an account.
Movement(q, a) ==
  (IF a = To[q] THEN Received(q) - Upstream(q) ELSE 0)
  + (IF a = Platform THEN Charge(q) ELSE 0)
  + (IF ToCreator(q, a) THEN Upstream(q) ELSE 0)
  - (IF a = From[q] THEN Amount[q] ELSE 0)

Init == funds = Opening /\ posted = {}

Post(q) ==
  /\ q \in Keyed => q \notin posted
  /\ Kind[q] = "refund" => Undoes[q] \in posted
  /\ From[q] # None => funds[From[q]] >= Amount[q]
  /\ funds' = [a \in Accounts |-> funds[a] + Movement(q, a)]
  /\ posted' = posted \cup {q}

Next == \E q \in Requests : Post(q)

Spec == Init /\ [][Next]_vars
=============================================================================
