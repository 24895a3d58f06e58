----------------------------- MODULE Revocation -----------------------------
(***************************************************************************)
(* Revoked access tokens of one actor (core/token_revocation.py, the check *)
(* in core/auth_unified.py, the endpoints revoke, revoke-all and           *)
(* change-password of api/v2_auth.py).                                     *)
(*                                                                         *)
(* A request is authenticated first and then does what its endpoint does.  *)
(* Between any two of its calls another process may run.  Redis may be     *)
(* down at any call, may forget a key (its time to live, a restart), and   *)
(* each process has a blacklist of its own that a restart empties: the     *)
(* table revoked_tokens is what lasts.  The clock is finer than a second;  *)
(* the issue time in a token (iat) is in whole seconds.                    *)
(*                                                                         *)
(* Only requests that _decode_jwt authenticates are here: core/auth.py     *)
(* (get_current_agent_id) and the decoders of creators and users never     *)
(* look at revocations, so a revoked token still passes them.  Rows stay:  *)
(* nothing calls cleanup_expired, and the row of one token, which expires  *)
(* an hour after the revocation, outlasts it as long as jwt_expire_hours   *)
(* is 1.                                                                   *)
(***************************************************************************)
EXTENDS Integers

CONSTANTS
  Tokens, Processes, NoToken,
  Second,        \* ticks of the clock in a second
  MaxClock,      \* bound: the last tick
  MaxRequests    \* bound: requests begun

VARIABLES
  clock,
  issued,        \* when a token was issued, -1 before
  rows,          \* revoked_tokens: the rows of single tokens
  sentinels,     \* revoked_tokens: revoked_at of the "all:" rows
  redis,         \* the keys revoked:<jti>, and the second in revoke_all:<actor>, or -1
  blacklist,     \* _LOCAL_BLACKLIST of each process
  request,       \* the request each process is at
  asked,         \* history: tokens whose own revocation was begun
  begun          \* requests begun

vars == <<clock, issued, rows, sentinels, redis, blacklist, request, asked, begun>>

NoRequest == [pc |-> "idle", token |-> NoToken, at |-> -1, known |-> FALSE]

Init ==
  /\ clock = 0
  /\ issued = [t \in Tokens |-> -1]
  /\ rows = {} /\ sentinels = {}
  /\ redis = [keys |-> {}, all |-> -1]
  /\ blacklist = [p \in Processes |-> {}]
  /\ request = [p \in Processes |-> NoRequest]
  /\ asked = {} /\ begun = 0

At(p, pc) == request[p].pc = pc
Go(p, pc) == request' = [request EXCEPT ![p].pc = pc]
Seconds(tick) == tick \div Second

\* The whole second in a token, compared with a revocation of all tokens: in seconds
\* in Redis, in full precision in the table.
RedisRevokesAll(t) == redis.all > Seconds(issued[t])
TableRevokesAll(t) == \E s \in sentinels : s > Second * Seconds(issued[t])

\* The key all:<actor>:<second>: a second one in the same second is a duplicate.
IsNewKey(now) == \A s \in sentinels : Seconds(s) # Seconds(now)
-----------------------------------------------------------------------------
Tick ==
  /\ clock < MaxClock /\ clock' = clock + 1
  /\ UNCHANGED <<issued, rows, sentinels, redis, blacklist, request, asked, begun>>

\* create_access_token, at a login or a refresh.
Issue(t) ==
  /\ issued[t] = -1
  /\ issued' = [issued EXCEPT ![t] = clock]
  /\ UNCHANGED <<clock, rows, sentinels, redis, blacklist, request, asked, begun>>

\* _decode_jwt.  known: the table revokes the token before the request begins.
Begin(p, t) ==
  /\ At(p, "idle") /\ issued[t] # -1 /\ begun < MaxRequests /\ begun' = begun + 1
  /\ request' = [request EXCEPT ![p] =
       [pc |-> "redis", token |-> t, at |-> -1,
        known |-> t \in rows \/ \E s \in sentinels : issued[t] < s]]
  /\ UNCHANGED <<clock, issued, rows, sentinels, redis, blacklist, asked>>

Refused(b, p, pc) == Go(p, IF b THEN "refused" ELSE pc)

\* is_token_revoked: Redis if it answers, then the local set and the table.
RedisDecides(p, up) ==                                                 \* mutant
  /\ At(p, "redis")
  /\ Refused(up /\ request[p].token \in redis.keys, p, IF up THEN "allredis" ELSE "table")
  /\ UNCHANGED <<clock, issued, rows, sentinels, redis, blacklist, asked, begun>>
CheckRedis(p, up) ==
  /\ At(p, "redis")
  /\ Refused(up /\ request[p].token \in redis.keys, p, "table")
  /\ UNCHANGED <<clock, issued, rows, sentinels, redis, blacklist, asked, begun>>

CheckTable(p) ==
  /\ At(p, "table")
  /\ Refused(request[p].token \in blacklist[p] \cup rows, p, "allredis")
  /\ UNCHANGED <<clock, issued, rows, sentinels, redis, blacklist, asked, begun>>

\* is_actor_tokens_revoked_after: Redis if it answers, then the table.
CheckAllRedis(p, up) ==
  /\ At(p, "allredis")
  /\ Refused(up /\ RedisRevokesAll(request[p].token), p, "alltable")
  /\ UNCHANGED <<clock, issued, rows, sentinels, redis, blacklist, asked, begun>>

CheckAllTable(p) ==
  /\ At(p, "alltable")
  /\ Refused(TableRevokesAll(request[p].token), p, "accepted")
  /\ UNCHANGED <<clock, issued, rows, sentinels, redis, blacklist, asked, begun>>
-----------------------------------------------------------------------------
\* revoke_token: Redis, the local set, then the row.
Revoke(p, up) ==
  LET t == request[p].token IN
  /\ At(p, "accepted")
  /\ request' = [request EXCEPT ![p] = [pc |-> "row", token |-> t, at |-> -1, known |-> FALSE]]
  /\ redis' = IF up THEN [redis EXCEPT !.keys = @ \cup {t}] ELSE redis
  /\ blacklist' = [blacklist EXCEPT ![p] = @ \cup {t}]
  /\ asked' = asked \cup {t}
  /\ UNCHANGED <<clock, issued, rows, sentinels, begun>>

\* A duplicate row raises, and the row is there.
InsertRow(p) ==
  /\ At(p, "row")
  /\ rows' = rows \cup {request[p].token}
  /\ request' = [request EXCEPT ![p] = NoRequest]
  /\ UNCHANGED <<clock, issued, sentinels, redis, blacklist, asked, begun>>

\* revoke_all_for_actor: the sentinel row first, for revoke-all and for a password
\* change, which has committed the new password.  A duplicate key raises, and on
\* PostgreSQL every key does: it is longer than the column's 36 characters.
RevokeAll(p, inserted) ==
  /\ At(p, "accepted")
  /\ inserted => IsNewKey(clock)
  /\ IF inserted
     THEN /\ sentinels' = sentinels \cup {clock}
          /\ request' = [request EXCEPT ![p] = [pc |-> "setall", token |-> NoToken, at |-> clock, known |-> FALSE]]
     ELSE request' = [request EXCEPT ![p] = NoRequest] /\ UNCHANGED sentinels
  /\ UNCHANGED <<clock, issued, rows, redis, blacklist, asked, begun>>

SetAll(p, up) ==
  /\ At(p, "setall")
  /\ redis' = IF up THEN [redis EXCEPT !.all = Seconds(request[p].at)] ELSE redis
  /\ request' = [request EXCEPT ![p] = NoRequest]
  /\ UNCHANGED <<clock, issued, rows, sentinels, blacklist, asked, begun>>

\* Any other endpoint, and the answer 401.
End(p) ==
  /\ At(p, "accepted") \/ At(p, "refused")
  /\ request' = [request EXCEPT ![p] = NoRequest]
  /\ UNCHANGED <<clock, issued, rows, sentinels, redis, blacklist, asked, begun>>

\* A process restarts; Redis forgets.
Restart(p) ==
  /\ request' = [request EXCEPT ![p] = NoRequest]
  /\ blacklist' = [blacklist EXCEPT ![p] = {}]
  /\ UNCHANGED <<clock, issued, rows, sentinels, redis, asked, begun>>

Forget ==
  /\ redis' = [keys |-> {}, all |-> -1]
  /\ UNCHANGED <<clock, issued, rows, sentinels, blacklist, request, asked, begun>>
-----------------------------------------------------------------------------
Next ==
  \/ Tick \/ Forget
  \/ \E t \in Tokens : Issue(t)
  \/ \E p \in Processes, t \in Tokens : Begin(p, t)
  \/ \E p \in Processes, up \in BOOLEAN :
       CheckRedis(p, up) \/ CheckAllRedis(p, up) \/ Revoke(p, up)
       \/ RevokeAll(p, up) \/ SetAll(p, up)
  \/ \E p \in Processes :
       CheckTable(p) \/ CheckAllTable(p) \/ InsertRow(p) \/ End(p) \/ Restart(p)

Spec == Init /\ [][Next]_vars
-----------------------------------------------------------------------------
(* Properties *)

\* The shape of the table, of Redis and of the requests.
TypeOK ==
  /\ clock \in 0 .. MaxClock
  /\ issued \in [Tokens -> -1 .. MaxClock]
  /\ rows \subseteq asked /\ asked \subseteq Tokens /\ sentinels \subseteq 0 .. MaxClock
  /\ redis \in [keys : SUBSET Tokens, all : -1 .. MaxClock]
  /\ blacklist \in [Processes -> SUBSET Tokens]
  /\ begun \in 0 .. MaxRequests
  /\ request \in [Processes ->
       [pc : {"idle", "redis", "table", "allredis", "alltable", "accepted", "refused",
              "row", "setall"},
        token : Tokens \cup {NoToken}, at : -1 .. MaxClock, known : BOOLEAN]]

\* The verdict of a request is right in every process, whether Redis answers, is down
\* or has forgotten: a token that was revoked, or issued before all were, when the
\* request began is refused; and a token is refused only if its own revocation was
\* asked for, or if it was issued before the end of the second of a revocation of all.
VerdictsAreRight ==
  \A p \in Processes : LET t == request[p].token IN
    /\ At(p, "accepted") => ~request[p].known
    /\ At(p, "refused") => \/ t \in asked
                           \/ \E s \in sentinels : Seconds(issued[t]) <= Seconds(s)
=============================================================================
