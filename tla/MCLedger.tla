------------------------------ MODULE MCLedger ------------------------------
(***************************************************************************)
(* A small marketplace for Ledger: two agents that buy from each other, a  *)
(* creator who owns one of them and takes all it earns (creator_royalty_pct*)
(* is 1.0) and withdraws, the treasury, a fee that rounds half up.  Ids    *)
(* sort as alice < treasury < bob < carol, so that one of the two opposite *)
(* purchases asks for its rows against the sorted order.                   *)
(***************************************************************************)
EXTENDS Ledger, TLC

CONSTANTS s1, s2, s3, alice, bob, carol, treasury, buy, sell, top, cash, back, FeePct, RoyaltyPct

MCAccounts == {alice, bob, carol, treasury}
MCRank == (alice :> 1) @@ (treasury :> 2) @@ (bob :> 3) @@ (carol :> 4)
MCKind == (buy :> "purchase") @@ (sell :> "purchase") @@ (top :> "deposit")
          @@ (cash :> "withdrawal") @@ (back :> "refund")
MCFrom == (buy :> alice) @@ (sell :> bob) @@ (top :> None) @@ (cash :> carol) @@ (back :> None)
MCTo == (buy :> bob) @@ (sell :> alice) @@ (top :> alice) @@ (cash :> None) @@ (back :> carol)
MCUndoes == (buy :> None) @@ (sell :> None) @@ (top :> None) @@ (cash :> None) @@ (back :> cash)
MCAmount == (buy :> 10) @@ (sell :> 7) @@ (top :> 5) @@ (cash :> 4) @@ (back :> 4)
MCCreatorOf == [a \in MCAccounts |-> IF a = bob THEN carol ELSE None]
MCOpening == (alice :> 9) @@ (bob :> 8) @@ (carol :> 6) @@ (treasury :> 0)

\* How often each call is sent.
Sends(calls, n) == [q \in Requests |-> IF q \in calls THEN n ELSE 0]
EachOnce == Sends(Requests, 1)
KeyedTwice == Sends({buy, top}, 2)
SameAccounts == {Sends({buy, sell, top}, 1)}
Overlapping == {EachOnce, KeyedTwice}
OneByOne == {[EachOnce EXCEPT ![buy] = 2, ![top] = 2]}

HalfUp(pct, n) == (pct * n + 50) \div 100
MCFee(n) == HalfUp(FeePct, n)
MCRoyalty(n) == HalfUp(RoyaltyPct, n)
=============================================================================
