----------------------------- MODULE AgentTrust -----------------------------
(***************************************************************************)
(* The trust profile of an agent (services/agent_trust_service.py), which  *)
(* attestations, challenges, memory snapshots and the bootstrap write.     *)
(*                                                                         *)
(* Each loads the profile, sets its own stages, and derives score, status  *)
(* and tier from the stages as it loaded them; a column is written only if *)
(* it differs from what was loaded.  Attestations that overlap can leave a *)
(* row that none of them computed.  The scores are the extremes.           *)
(***************************************************************************)
EXTENDS Integers

CONSTANTS
  Sessions,
  MaxClaims   \* bound: requests that set a stage

VARIABLES
  profile,   \* the row of agent_trust_profiles
  sessions,  \* where each request is: what it will set, and the row as it loaded it
  claims,    \* how many requests have begun
  last       \* of the last commit: whether another had committed since it loaded the
             \* row, and whether it had found a severe failure

vars == <<profile, sessions, claims, last>>

Stages == {"identity", "runtime", "knowledge", "memory", "abuse"}
Scores == {0, 8, 15, 20, 30}

\* Before the row is inserted, ensure_trust_profile has a new object with its defaults.
NoProfile ==
  [exists |-> FALSE, status |-> "unverified", tier |-> "T0", score |-> 0,
   stage |-> [g \in Stages |-> IF g = "abuse" THEN 8 ELSE 0]]

NoClaim == [stage |-> <<>>, severe |-> FALSE]
Idle == [pc |-> "idle", claim |-> NoClaim, loaded |-> NoProfile, overtaken |-> FALSE]

Init ==
  /\ profile = NoProfile
  /\ sessions = [s \in Sessions |-> Idle]
  /\ claims = 0
  /\ last = [overtaken |-> FALSE, severe |-> FALSE]

Total(stage) ==
  stage["identity"] + stage["runtime"] + stage["knowledge"] + stage["memory"] + stage["abuse"]

\* _compute_tier: the status and the tier.
Tier(score, severe) ==
  CASE severe -> <<"restricted", "T0">>
    [] ~severe /\ score < 40 -> <<"unverified", "T0">>
    [] ~severe /\ score \in 40..69 -> <<"provisional", "T1">>
    [] ~severe /\ score \in 70..84 -> <<"verified", "T2">>
    [] ~severe /\ score >= 85 -> <<"verified", "T3">>

\* What a request can set: run_identity_attestation, run_runtime_attestation,
\* run_knowledge_challenge, update_memory_stage (verified, quarantined), bootstrap_trust.
Sets(g, n, severe) == [stage |-> [h \in {g} |-> n], severe |-> severe]
Claims ==
  { Sets("identity", 0, FALSE), Sets("identity", 20, FALSE), Sets("runtime", 20, FALSE),
    Sets("knowledge", 0, FALSE), Sets("knowledge", 30, FALSE), Sets("knowledge", 30, TRUE),
    Sets("memory", 20, FALSE), Sets("memory", 0, TRUE),
    [stage |-> [identity |-> 20, runtime |-> 15, abuse |-> 8], severe |-> FALSE] }

\* _recompute_profile on the loaded row.
AddsUp(row, claim) ==                                                  \* mutant
  LET stage == [g \in Stages |-> IF g \in DOMAIN claim.stage THEN claim.stage[g] ELSE row.stage[g]]
      score == row.score + Total(stage) - Total(row.stage)
      tier  == Tier(score, claim.severe)
  IN  [exists |-> row.exists, status |-> tier[1], tier |-> tier[2], score |-> score, stage |-> stage]
Recomputed(row, claim) ==
  LET stage == [g \in Stages |-> IF g \in DOMAIN claim.stage THEN claim.stage[g] ELSE row.stage[g]]
      score == Total(stage)
      tier  == Tier(score, claim.severe)
  IN  [exists |-> row.exists, status |-> tier[1], tier |-> tier[2], score |-> score, stage |-> stage]

\* An INSERT writes every column, an UPDATE those that differ from what was loaded.
Changed(now, was, new) == IF new = was THEN now ELSE new
Written(new, loaded) ==
  IF ~loaded.exists
    THEN [new EXCEPT !.exists = TRUE]
    ELSE [exists |-> TRUE,
          status |-> Changed(profile.status, loaded.status, new.status),
          tier |-> Changed(profile.tier, loaded.tier, new.tier),
          score |-> Changed(profile.score, loaded.score, new.score),
          stage |-> [g \in Stages |-> Changed(profile.stage[g], loaded.stage[g], new.stage[g])]]
-----------------------------------------------------------------------------
Load(s, claim) ==
  /\ sessions[s].pc = "idle" /\ claims < MaxClaims
  /\ claims' = claims + 1
  /\ sessions' = [sessions EXCEPT ![s] =
                    [pc |-> "loaded", claim |-> claim, loaded |-> profile, overtaken |-> FALSE]]
  /\ UNCHANGED <<profile, last>>

\* A session that ends tells the others that they work on an old row.
End(s, wrote) ==
  sessions' = [t \in Sessions |->
                 IF t = s THEN Idle
                 ELSE IF wrote /\ sessions[t].pc = "loaded" THEN [sessions[t] EXCEPT !.overtaken = TRUE]
                 ELSE sessions[t]]

\* The flush locks the row until the commit, so that they are one step to the others.
\* Only the first of two INSERTs meets the unique agent_id.
Commit(s) ==
  LET me == sessions[s] IN
  /\ me.pc = "loaded"
  /\ ~me.loaded.exists => ~profile.exists
  /\ profile' = Written(Recomputed(me.loaded, me.claim), me.loaded)
  /\ last' = [overtaken |-> me.overtaken, severe |-> me.claim.severe]
  /\ End(s, TRUE)
  /\ UNCHANGED claims

\* get_or_create_trust_profile: the row is inserted as it is, or was there.
Create(s) ==
  /\ sessions[s].pc = "idle" /\ ~profile.exists
  /\ profile' = [profile EXCEPT !.exists = TRUE]
  /\ UNCHANGED <<sessions, claims, last>>

\* IntegrityError, another error before the commit, or a crash.
Fail(s) ==
  /\ sessions[s].pc = "loaded"
  /\ End(s, FALSE)
  /\ UNCHANGED <<profile, claims, last>>

Next ==
  \E s \in Sessions :
    \/ \E claim \in Claims : Load(s, claim)
    \/ Commit(s) \/ Create(s) \/ Fail(s)

Spec == Init /\ [][Next]_vars
-----------------------------------------------------------------------------
TypeOK ==
  /\ profile \in [exists : BOOLEAN, score : 0..98, tier : {"T0", "T1", "T2", "T3"},
                  status : {"unverified", "provisional", "verified", "restricted"},
                  stage : [Stages -> Scores]]
  /\ \A s \in Sessions : sessions[s].pc \in {"idle", "loaded"} /\ sessions[s].claim \in Claims \cup {NoClaim}
  /\ claims \in 0..MaxClaims
  /\ last \in [overtaken : BOOLEAN, severe : BOOLEAN]

\* Whatever overlapping requests have left in the row, the next one that nobody overtakes
\* makes it right: the score is the sum of the stages, and status and tier follow from it.
NextOneRepairs ==
  profile.exists /\ ~last.overtaken
    => \/ /\ profile.score = Total(profile.stage)
          /\ <<profile.status, profile.tier>> = Tier(profile.score, last.severe)
       \/ profile = [NoProfile EXCEPT !.exists = TRUE]   \* score 0 beside stage_abuse 8
=============================================================================
