------------------------------- MODULE OAuth2 -------------------------------
(***************************************************************************)
(* The authorization server of oauth2/server.py: a code is exchanged for   *)
(* an access token and a refresh token, a refresh token for another pair,  *)
(* and one token at a time can be revoked.  An exchange reads the code or  *)
(* the refresh token without a lock and writes what it decided on that     *)
(* read: two exchanges of one code, or an exchange and a revocation, can   *)
(* pass each other.                                                        *)
(* Secrets, PKCE, redirect URIs and clients are guards that only refuse.   *)
(***************************************************************************)
EXTENDS Integers, FiniteSets

CONSTANTS
  Codes,      \* authorization codes
  Pairs,      \* an access token and the refresh token that names it
  Exchanges,  \* requests to the token endpoint that can be under way at once
  Nothing     \* no code, no pair

VARIABLES
  codes,      \* authorization_codes: "none", "unused", "used"
  access,     \* access tokens: "none", "live", "revoked"
  refresh,    \* refresh tokens: "none", "live", "revoked"
  family,     \* the code that each pair comes from, through the rows it was copied from
  exchanges,  \* what each exchange has read: a code or a pair
  raced       \* codes in whose family two exchanges read one and the same token

vars == <<codes, access, refresh, family, exchanges, raced>>

TokenStates == {"none", "live", "revoked"}

Init ==
  /\ codes = [c \in Codes |-> "none"]
  /\ access = [p \in Pairs |-> "none"] /\ refresh = [p \in Pairs |-> "none"]
  /\ family = [p \in Pairs |-> Nothing]
  /\ exchanges = [x \in Exchanges |-> [code |-> Nothing, pair |-> Nothing]]
  /\ raced = {}

Free(x) == exchanges[x] = [code |-> Nothing, pair |-> Nothing]
New(p) == access[p] = "none"
Finish(x) == exchanges' = [exchanges EXCEPT ![x] = [code |-> Nothing, pair |-> Nothing]]
Also(c, token) == raced' = IF \E x \in Exchanges : exchanges[x] = token THEN raced \cup {c} ELSE raced

\* The code that an exchange's tokens come from.
Origin(x) == IF exchanges[x].code # Nothing THEN exchanges[x].code ELSE family[exchanges[x].pair]

KeepAccess(p, c, old) ==                                               \* mutant
  /\ access' = [access EXCEPT ![p] = "live"]
  /\ refresh' = [q \in Pairs |-> CASE q = p -> "live" [] q = old -> "revoked" [] OTHER -> refresh[q]]
  /\ family' = [family EXCEPT ![p] = c]
\* The rows of a new pair.
Issue(p, c, old) ==
  /\ access' = [q \in Pairs |-> CASE q = p -> "live" [] q = old -> "revoked" [] OTHER -> access[q]]
  /\ refresh' = [q \in Pairs |-> CASE q = p -> "live" [] q = old -> "revoked" [] OTHER -> refresh[q]]
  /\ family' = [family EXCEPT ![p] = c]
-----------------------------------------------------------------------------
Authorize(c) ==
  /\ codes[c] = "none"
  /\ codes' = [codes EXCEPT ![c] = "unused"]
  /\ UNCHANGED <<access, refresh, family, exchanges, raced>>

\* _exchange_authorization_code and _exchange_refresh_token, up to the checks.
ReadCode(x, c) ==
  LET token == [code |-> c, pair |-> Nothing] IN
  /\ Free(x) /\ codes[c] = "unused"
  /\ Also(c, token)
  /\ exchanges' = [exchanges EXCEPT ![x] = token]
  /\ UNCHANGED <<codes, access, refresh, family>>

ReadRefresh(x, p) ==
  LET token == [code |-> Nothing, pair |-> p] IN
  /\ Free(x) /\ refresh[p] = "live"
  /\ Also(family[p], token)
  /\ exchanges' = [exchanges EXCEPT ![x] = token]
  /\ UNCHANGED <<codes, access, refresh, family>>

\* What was read is marked as used or revoked, and the new pair is inserted: one commit.
Unmarked(x) == UNCHANGED codes                                         \* mutant
Mark(x) == codes' = IF exchanges[x].code = Nothing THEN codes
                                                   ELSE [codes EXCEPT ![exchanges[x].code] = "used"]
Exchange(x, p) ==
  /\ ~Free(x) /\ New(p)
  /\ Mark(x)
  /\ Issue(p, Origin(x), exchanges[x].pair)
  /\ Finish(x)
  /\ UNCHANGED raced

\* The exchange dies, or its flush fails: the refresh token's row was sent before the row
\* of the access token that it references.
Abort(x) ==
  /\ ~Free(x)
  /\ Finish(x)
  /\ UNCHANGED <<codes, access, refresh, family, raced>>

\* The expiry of a code or a token is for later readers what marking it is; the same holds
\* for revoke_token, which revokes the one token it is given.
CodeExpires(c) ==
  /\ codes[c] = "unused"
  /\ codes' = [codes EXCEPT ![c] = "used"]
  /\ UNCHANGED <<access, refresh, family, exchanges, raced>>

RevokeAccess(p) ==
  /\ access[p] = "live"
  /\ access' = [access EXCEPT ![p] = "revoked"]
  /\ UNCHANGED <<codes, refresh, family, exchanges, raced>>

RevokeRefresh(p) ==
  /\ refresh[p] = "live"
  /\ refresh' = [refresh EXCEPT ![p] = "revoked"]
  /\ UNCHANGED <<codes, access, family, exchanges, raced>>

Next ==
  \/ \E c \in Codes : Authorize(c) \/ CodeExpires(c)
  \/ \E x \in Exchanges, c \in Codes : ReadCode(x, c)
  \/ \E x \in Exchanges, p \in Pairs : ReadRefresh(x, p) \/ Exchange(x, p)
  \/ \E x \in Exchanges : Abort(x)
  \/ \E p \in Pairs : RevokeAccess(p) \/ RevokeRefresh(p)

Spec == Init /\ [][Next]_vars
-----------------------------------------------------------------------------
TypeOK ==
  /\ codes \in [Codes -> {"none", "unused", "used"}]
  /\ access \in [Pairs -> TokenStates] /\ refresh \in [Pairs -> TokenStates]
  /\ family \in [Pairs -> Codes \cup {Nothing}]
  /\ exchanges \in [Exchanges -> [code : Codes \cup {Nothing}, pair : Pairs \cup {Nothing}]]
  /\ raced \subseteq Codes

\* A grant gives its client one access token and one way to get the next, as long as no
\* two exchanges read the same code or refresh token at once.
Live(tokens, c) == {p \in Pairs : family[p] = c /\ tokens[p] = "live"}
OnePairAtATime ==
  \A c \in Codes \ raced :
    Cardinality(Live(access, c)) <= 1 /\ Cardinality(Live(refresh, c)) <= 1

\* A grant that has ended stays ended: its code cannot be exchanged, no refresh token is
\* live, no exchange is under way, and none will be.
Ended(c) ==
  /\ codes[c] = "used" /\ Live(refresh, c) = {}
  /\ \A x \in Exchanges : ~Free(x) => Origin(x) # c
EndedStaysEnded == [][\A c \in Codes : Ended(c) => Ended(c)']_vars
=============================================================================
