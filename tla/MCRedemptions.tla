--------------------------- MODULE MCRedemptions ---------------------------
\* Instances of Redemptions for TLC: two redemptions of API credits and one of
\* cash, or all of cash.
EXTENDS Redemptions, TLC

CONSTANTS c1, c2, m1

MCKind == c1 :> "api_credits" @@ c2 :> "api_credits" @@ m1 :> "cash"
MCCash == c1 :> "cash" @@ c2 :> "cash" @@ m1 :> "cash"
=============================================================================
