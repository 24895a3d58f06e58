----------------------------- MODULE RateLimits -----------------------------
(***************************************************************************)
(* The limiter of requests per key (core/rate_limiter.py), which the       *)
(* middleware asks before each request.  It is called a sliding window;    *)
(* its windows begin with a request and do not slide.                      *)
(***************************************************************************)
EXTENDS Integers, FiniteSets, Functions

CONSTANTS
  Keys,                       \* agents and addresses
  Limit, Window,              \* requests per window, 60 seconds
  CleanupEvery, StaleAfter,   \* 300 and 600 seconds: no less than a window
  MaxNow, MaxCount            \* bounds: time, requests counted in one bucket

VARIABLES
  now,
  buckets,  \* by key that has one: count and window_start
  cleaned,  \* _last_cleanup
  recent    \* requests of a key that were let through, by how long ago, within a window

vars == <<now, buckets, cleaned, recent>>

Init ==
  /\ now = 0 /\ cleaned = 0
  /\ buckets = <<>>
  /\ recent = [k \in Keys |-> [age \in 0..Window-1 |-> 0]]

New == [count |-> 0, start |-> now]
Expired(bucket) == now - bucket.start >= Window
CountOnly(bucket) == [bucket EXCEPT !.count = 0]                        \* mutant
Renewed(bucket) == New

CleansUp == now - cleaned >= CleanupEvery
Swept == [k \in {k \in DOMAIN buckets : ~CleansUp \/ now - buckets[k].start <= StaleAfter} |-> buckets[k]]

\* check: clean up, renew the bucket if its window has passed, count, compare.
Check(k) ==
  LET found == IF k \in DOMAIN Swept THEN Swept[k] ELSE New
      b     == IF Expired(found) THEN Renewed(found) ELSE found
      count == b.count + 1
  IN /\ b.count < MaxCount
     /\ cleaned' = IF CleansUp THEN now ELSE cleaned
     /\ buckets' = [j \in DOMAIN Swept \cup {k} |->
                      IF j = k THEN [b EXCEPT !.count = count] ELSE Swept[j]]
     /\ recent' = [recent EXCEPT ![k][0] = IF count <= Limit THEN @ + 1 ELSE @]
     /\ UNCHANGED now

Tick ==
  /\ now < MaxNow
  /\ now' = now + 1
  /\ recent' = [k \in Keys |-> [age \in 0..Window-1 |-> IF age = 0 THEN 0 ELSE recent[k][age - 1]]]
  /\ UNCHANGED <<buckets, cleaned>>

Next == Tick \/ \E k \in Keys : Check(k)

Spec == Init /\ [][Next]_vars
-----------------------------------------------------------------------------
TypeOK ==
  /\ now \in 0..MaxNow /\ cleaned \in 0..now
  /\ DOMAIN buckets \subseteq Keys
  /\ \A k \in DOMAIN buckets : buckets[k].count \in 1..MaxCount /\ buckets[k].start \in 0..now

\* Over any stretch as long as a window a key gets through less than twice the limit, on
\* both sides of the edge of two windows together; and one that is refused has had the
\* whole limit in its window, whatever the clean-up removed (check, _maybe_cleanup).
LessThanTwice ==
  \A k \in Keys :
    LET Sum(ages) == SumFunctionOnSet(recent[k], ages) IN
    /\ Sum(0..Window-1) < 2 * Limit
    /\ k \in DOMAIN buckets /\ ~Expired(buckets[k]) /\ buckets[k].count >= Limit
         => Sum(0..(now - buckets[k].start)) = Limit
=============================================================================
