----------------------------- MODULE MCServices -----------------------------
(***************************************************************************)
(* Services that share no state, side by side in one model.  The     *)
(* initial states choose which of them moves; the others stay as they      *)
(* start, so the states are the union of theirs and not the product.       *)
(***************************************************************************)
EXTENDS Integers, Sequences, FiniteSets

CONSTANTS
  None,
  Subs, Urls, Dispatchers, Registrars, MaxRetries, MaxFailedDeliveries, MaxEvents,
  Events, Workers, MaxBatch, MaxAttempts, MaxDeliveries, MaxMessages,
  Tokens, Processes, Second, MaxClock, MaxRequests,
  Requests, Execs, Nodes, Priced, Settlers,
  Tasks,
  Executions, Cancellers,
  Servers, Jobs, MaxFailedCalls,
  Callers, FailureThreshold, HalfOpenMaxCalls, MaxRecordedFailures,
  Readers, Values,
  Codes, Pairs, Exchanges,
  Sessions, MaxClaims,
  Inputs,
  Contents, Small, MaxBytes, WarmSize, PromoteAfter, Publishers, Getters, MaxGets,
  Verifiers, Chunks, MaxChunks, MaxFaults, MaxVerifies,
  Verifications, MaxJobs,
  Projects, Publishes, MaxPublishes,
  Hooks, Fans, Registrations, MaxHookFailures, MaxFans, MaxRegisters,
  Feed, Scoped, Broadcasts, MaxViewers,
  MaxReconnects, MaxSockets,
  Keys, Limit, Window, CleanupEvery, StaleAfter, MaxNow, MaxCount

VARIABLES
  part,  \* the service that moves
  subs, deliveries, fan, reg, events,
  queue, attempts, entries, retried, workers, requeue, dropped,
  clock, issued, rows, sentinels, redis, blacklist, request, asked, begun,
  requests, chains, runs, settlements, transfers,
  stored, tasks, calls,
  actions, executors, cancels,
  servers, jobs, monitor, failures,
  breaker, recovered, callers, recorded, broken,
  row, objects, cache, handlers, held,
  codes, access, refresh, family, exchanges, raced,
  profile, sessions, claims, last,
  session, pending, futures, waits, acked,
  files, publishers, listed, doubtful, hot, warm, getters, gets,
  import, snapshot, chunkrows, verifiers, judged, faults, verifies,
  listing, receipt, fresh, verifying, loads, overtaken,
  agents, offers, projects, publishes, published, stranded, final,
  hooks, fans, registers, failed, fanned, registered,
  sockets, viewers, broadcasts,
  conns, current, retries, timers, beating, cut, wanted, late,
  now, buckets, cleaned, recent

\* The bounds are counts, and None is not one of the values it stands beside.
ASSUME ServicesAssumption ==
  /\ {MaxAttempts, MaxDeliveries, MaxRetries, Second, HalfOpenMaxCalls, MaxHookFailures,
      Limit, Window} \subseteq Nat \ {0}
  /\ {MaxFailedDeliveries, MaxEvents, MaxFailedCalls, MaxRecordedFailures, FailureThreshold, MaxFans,
      MaxRegisters, MaxReconnects, MaxSockets, MaxBytes, WarmSize, PromoteAfter, MaxGets, MaxViewers,
      MaxClock, MaxRequests, MaxJobs, StaleAfter, CleanupEvery, MaxNow, MaxCount,
      MaxMessages, MaxClaims, MaxFaults, MaxVerifies, MaxPublishes} \subseteq Nat
  /\ StaleAfter >= Window /\ Values # {} /\ Feed \cap Scoped = {}
  /\ IsFiniteSet(Contents) /\ IsFiniteSet(Feed) /\ IsFiniteSet(Scoped)
  /\ None \notin Nat \cup Readers \cup Tokens \cup Codes \cup Pairs \cup Projects

\* Bytes of a content, in the units of the hot cache's limit.
Sizes == [k \in Contents |-> IF k \in Small THEN 1 ELSE 2]

E == INSTANCE EventDelivery WITH MaxFailures <- MaxFailedDeliveries
Q == INSTANCE QueuedWebhooks
R == INSTANCE Revocation WITH NoToken <- None
C == INSTANCE Chains WITH NoExec <- None, NoNode <- None
A == INSTANCE A2ATasks
X == INSTANCE ActionExecution WITH NoExecution <- None
F == INSTANCE Federation WITH NoServer <- None, MaxFailures <- MaxFailedCalls
B == INSTANCE CircuitBreaker WITH MaxFailures <- MaxRecordedFailures
L == INSTANCE CachedRows WITH Requests <- Readers, NoRequest <- None
O == INSTANCE OAuth2 WITH Nothing <- None
T == INSTANCE AgentTrust
U == INSTANCE A2UISessions
D == INSTANCE ContentCache WITH Nothing <- None, Size <- Sizes
S == INSTANCE Snapshots WITH rows <- chunkrows, Nothing <- None
V == INSTANCE ListingTrust WITH begun <- loads
P == INSTANCE Publishing WITH Nothing <- None
H == INSTANCE OpenClaw WITH Nothing <- None
W == INSTANCE LiveFeed WITH Nothing <- None
Y == INSTANCE A2UIClient
G == INSTANCE RateLimits

evars == <<subs, deliveries, fan, reg, events>>
qvars == <<queue, attempts, entries, retried, workers, requeue, dropped>>
rvars == <<clock, issued, rows, sentinels, redis, blacklist, request, asked, begun>>
cvars == <<requests, chains, runs, settlements, transfers>>
avars == <<stored, tasks, calls>>
xvars == <<actions, executors, cancels>>
fvars == <<servers, jobs, monitor, failures>>
bvars == <<breaker, recovered, callers, recorded, broken>>
lvars == <<row, objects, cache, handlers, held>>
ovars == <<codes, access, refresh, family, exchanges, raced>>
tvars == <<profile, sessions, claims, last>>
uvars == <<session, pending, futures, waits, acked>>
dvars == <<files, publishers, listed, doubtful, hot, warm, getters, gets>>
svars == <<import, snapshot, chunkrows, verifiers, judged, faults, verifies>>
vvars == <<listing, receipt, fresh, verifying, loads, overtaken>>
pvars == <<agents, offers, projects, publishes, published, stranded, final>>
hvars == <<hooks, fans, registers, failed, fanned, registered>>
wvars == <<sockets, viewers, broadcasts>>
yvars == <<conns, current, retries, timers, beating, cut, wanted, late>>
gvars == <<now, buckets, cleaned, recent>>
vars == <<part, evars, qvars, rvars, cvars, avars, xvars, fvars, bvars, lvars, ovars, tvars, uvars, dvars, svars, vvars, pvars, hvars, wvars, yvars, gvars>>

Init ==
  /\ part \in {"events", "queue", "tokens", "chains", "tasks", "actions", "servers", "breaker",
              "rows", "grants", "trust", "inputs", "contents", "snapshots", "verdicts", "shop", "hooks", "feeds",
              "clients", "limits"}
  /\ E!Init /\ Q!Init /\ R!Init /\ C!Init /\ A!Init /\ X!Init /\ F!Init /\ B!Init
  /\ L!Init /\ O!Init /\ T!Init /\ U!Init /\ D!Init /\ S!Init /\ V!Init /\ P!Init /\ H!Init /\ W!Init /\ Y!Init /\ G!Init

Next ==
  \/ /\ part = "events" /\ E!Next
     /\ UNCHANGED <<part, qvars, rvars, cvars, avars, xvars, fvars, bvars, lvars, ovars, tvars, uvars, dvars, svars, vvars, pvars, hvars, wvars, yvars, gvars>>
  \/ /\ part = "queue" /\ Q!Next
     /\ UNCHANGED <<part, evars, rvars, cvars, avars, xvars, fvars, bvars, lvars, ovars, tvars, uvars, dvars, svars, vvars, pvars, hvars, wvars, yvars, gvars>>
  \/ /\ part = "tokens" /\ R!Next
     /\ UNCHANGED <<part, evars, qvars, cvars, avars, xvars, fvars, bvars, lvars, ovars, tvars, uvars, dvars, svars, vvars, pvars, hvars, wvars, yvars, gvars>>
  \/ /\ part = "chains" /\ C!Next
     /\ UNCHANGED <<part, evars, qvars, rvars, avars, xvars, fvars, bvars, lvars, ovars, tvars, uvars, dvars, svars, vvars, pvars, hvars, wvars, yvars, gvars>>
  \/ /\ part = "tasks" /\ A!Next
     /\ UNCHANGED <<part, evars, qvars, rvars, cvars, xvars, fvars, bvars, lvars, ovars, tvars, uvars, dvars, svars, vvars, pvars, hvars, wvars, yvars, gvars>>
  \/ /\ part = "actions" /\ X!Next
     /\ UNCHANGED <<part, evars, qvars, rvars, cvars, avars, fvars, bvars, lvars, ovars, tvars, uvars, dvars, svars, vvars, pvars, hvars, wvars, yvars, gvars>>
  \/ /\ part = "servers" /\ F!Next
     /\ UNCHANGED <<part, evars, qvars, rvars, cvars, avars, xvars, bvars, lvars, ovars, tvars, uvars, dvars, svars, vvars, pvars, hvars, wvars, yvars, gvars>>
  \/ /\ part = "breaker" /\ B!Next
     /\ UNCHANGED <<part, evars, qvars, rvars, cvars, avars, xvars, fvars, lvars, ovars, tvars, uvars, dvars, svars, vvars, pvars, hvars, wvars, yvars, gvars>>
  \/ /\ part = "rows" /\ L!Next
     /\ UNCHANGED <<part, evars, qvars, rvars, cvars, avars, xvars, fvars, bvars, ovars, tvars, uvars, dvars, svars, vvars, pvars, hvars, wvars, yvars, gvars>>
  \/ /\ part = "grants" /\ O!Next
     /\ UNCHANGED <<part, evars, qvars, rvars, cvars, avars, xvars, fvars, bvars, lvars, tvars, uvars, dvars, svars, vvars, pvars, hvars, wvars, yvars, gvars>>
  \/ /\ part = "trust" /\ T!Next
     /\ UNCHANGED <<part, evars, qvars, rvars, cvars, avars, xvars, fvars, bvars, lvars, ovars, uvars, dvars, svars, vvars, pvars, hvars, wvars, yvars, gvars>>
  \/ /\ part = "inputs" /\ U!Next
     /\ UNCHANGED <<part, evars, qvars, rvars, cvars, avars, xvars, fvars, bvars, lvars, ovars, tvars, dvars, svars, vvars, pvars, hvars, wvars, yvars, gvars>>
  \/ /\ part = "contents" /\ D!Next
     /\ UNCHANGED <<part, evars, qvars, rvars, cvars, avars, xvars, fvars, bvars, lvars, ovars, tvars, uvars, svars, vvars, pvars, hvars, wvars, yvars, gvars>>
  \/ /\ part = "snapshots" /\ S!Next
     /\ UNCHANGED <<part, evars, qvars, rvars, cvars, avars, xvars, fvars, bvars, lvars, ovars, tvars, uvars, dvars, vvars, pvars, hvars, wvars, yvars, gvars>>
  \/ /\ part = "verdicts" /\ V!Next
     /\ UNCHANGED <<part, evars, qvars, rvars, cvars, avars, xvars, fvars, bvars, lvars, ovars, tvars, uvars, dvars, svars, pvars, hvars, wvars, yvars, gvars>>
  \/ /\ part = "shop" /\ P!Next
     /\ UNCHANGED <<part, evars, qvars, rvars, cvars, avars, xvars, fvars, bvars, lvars, ovars, tvars, uvars, dvars, svars, vvars, hvars, wvars, yvars, gvars>>
  \/ /\ part = "hooks" /\ H!Next
     /\ UNCHANGED <<part, evars, qvars, rvars, cvars, avars, xvars, fvars, bvars, lvars, ovars, tvars, uvars, dvars, svars, vvars, pvars, wvars, yvars, gvars>>
  \/ /\ part = "feeds" /\ W!Next
     /\ UNCHANGED <<part, evars, qvars, rvars, cvars, avars, xvars, fvars, bvars, lvars, ovars, tvars, uvars, dvars, svars, vvars, pvars, hvars, yvars, gvars>>
  \/ /\ part = "clients" /\ Y!Next
     /\ UNCHANGED <<part, evars, qvars, rvars, cvars, avars, xvars, fvars, bvars, lvars, ovars, tvars, uvars, dvars, svars, vvars, pvars, hvars, wvars, gvars>>
  \/ /\ part = "limits" /\ G!Next
     /\ UNCHANGED <<part, evars, qvars, rvars, cvars, avars, xvars, fvars, bvars, lvars, ovars, tvars, uvars, dvars, svars, vvars, pvars, hvars, wvars, yvars>>

\* The fairness of the services that promise something, while they are the ones to move.
Fairness ==
  /\ \A d \in Dispatchers : WF_evars(part = "events" /\ E!Deliver(d))
  /\ WF_bvars(part = "breaker" /\ B!Elapse)
  /\ \A c \in Callers : WF_bvars(part = "breaker" /\ B!Call(c))

Spec == Init /\ [][Next]_vars /\ Fairness
-----------------------------------------------------------------------------
(* Properties *)

\* The type invariant of the service that moves; the others are in their initial states.
TypeOK ==
  /\ part = "events" => E!TypeOK
  /\ part = "queue" => Q!TypeOK
  /\ part = "tokens" => R!TypeOK
  /\ part = "chains" => C!TypeOK
  /\ part = "tasks" => A!TypeOK
  /\ part = "actions" => X!TypeOK
  /\ part = "servers" => F!TypeOK
  /\ part = "breaker" => B!TypeOK
  /\ part = "rows" => L!TypeOK
  /\ part = "grants" => O!TypeOK
  /\ part = "trust" => T!TypeOK
  /\ part = "inputs" => U!TypeOK
  /\ part = "contents" => D!TypeOK
  /\ part = "snapshots" => S!TypeOK
  /\ part = "verdicts" => V!TypeOK
  /\ part = "shop" => P!TypeOK
  /\ part = "hooks" => H!TypeOK
  /\ part = "feeds" => W!TypeOK
  /\ part = "clients" => Y!TypeOK
  /\ part = "limits" => G!TypeOK

\* The failures that pause a subscription or a webhook have happened
\* (_deliver_to_subscription, _send_webhook).
PausedHadFailures ==
  /\ part = "events" => E!PausedHadFailures
  /\ part = "hooks" => H!PausedHadFailures

\* A queued webhook is delivered, refused or kept (process_webhook_queue), an update that
\* was answered as done was stored (update_listing, update_agent), an answer to an agent's
\* question reaches the call that asked it (handle_response), a stored content is whole
\* unless the process ended while it was written (HashFS.put), a project that was
\* published once is not taken off again (publish_project), an event reaches who is
\* connected, and the webhooks, unless others came or went meanwhile (broadcast_event), and
\* no stream waits for the end of a task that nobody will send (stream_updates).
NothingLost ==
  /\ part = "queue" => Q!NothingLost
  /\ part = "rows" => L!DoneIsStored
  /\ part = "inputs" => U!AnswersReachTheCall
  /\ part = "contents" => D!WholeUnlessCut
  /\ part = "shop" => P!ListedForGood
  /\ part = "feeds" => W!BroadcastsReach
  /\ part = "tasks" => A!StreamsAreOver

\* A token is refused exactly when it was revoked (_decode_jwt), and a grant has one pair
\* of live tokens at a time (_exchange_authorization_code, _exchange_refresh_token).
\* What a row of trust says follows from its stages again after the next attestation
\* (_recompute_profile), and a listing shows the verdict of one job
\* (run_strict_verification).  A snapshot that was found to be verified is the one that
\* was imported (verify_snapshot).
VerdictsAreRight ==
  /\ part = "tokens" => R!VerdictsAreRight
  /\ part = "grants" => O!OnePairAtATime
  /\ part = "trust" => T!NextOneRepairs
  /\ part = "verdicts" => V!OneJobShows
  /\ part = "snapshots" => S!VerifiedIsImported

\* What a settlement says is what the ledger has (settle_chain_execution).
SettledMeansPaid == part = "chains" => C!SettledMeansPaid

\* The funds of an action go with its outcome (execute_action, cancel_execution).
OutcomeMatchesPayment == part = "actions" => X!OutcomeMatchesPayment

\* Servers and agents are cut off only for failures they had (update_health_score,
\* record_failure, record_success), contents leave the hot cache before it grows
\* beyond its limit (HotCache.put), an A2UI client keeps one connection and its retries
\* (connect, disconnect, reconnect), and a key gets through less than twice its limit in
\* as long as a window (SlidingWindowRateLimiter.check).
LimitsHold ==
  /\ part = "servers" => F!OutOnlyAfterFailures
  /\ part = "breaker" => B!CountsInARow
  /\ part = "contents" => D!WithinBudget
  /\ part = "clients" => Y!OneConnection
  /\ part = "limits" => G!LessThanTwice

\* Fan-outs end and open circuits close: none waits for ever on another that holds a row
\* or used up the probes.  A grant that has ended stays so.
WorkEnds == E!FanOutsEnd /\ B!Recovers /\ O!EndedStaysEnded
=============================================================================
