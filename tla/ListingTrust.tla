---------------------------- MODULE ListingTrust ----------------------------
(***************************************************************************)
(* The trust state of a listing (services/trust_verification_service.py):  *)
(* source receipts, verification jobs, and the columns of the listing that *)
(* each job writes from the row as its request loaded it, the unchanged    *)
(* ones not at all.  A receipt is committed before the job that follows.   *)
(***************************************************************************)
EXTENDS Integers, FiniteSets

CONSTANTS
  Verifications,  \* requests: run, add a receipt, the job of create_listing
  MaxJobs         \* bound: requests that begin

VARIABLES
  listing,   \* trust_status, trust_score and verification_summary_json
  receipt,   \* the latest source receipt
  fresh,     \* whether freshness_at + freshness_ttl_hours is still to come
  verifying, \* where each request is
  begun,
  overtaken  \* whether the last job to commit had loaded a row that changed before

vars == <<listing, receipt, fresh, verifying, begun, overtaken>>

\* What add_source_receipt can leave: the provider is an allowed one, the source query or
\* the signature may be blank.  The receipt of create_listing may name any provider.
Receipts == {"blank", "signed"}
Idle == [pc |-> "idle"]

\* A summary is the set of failed stages and "judged"; there is none yet.
Pending == [status |-> "pending_verification", score |-> 0, summary |-> {}]
Init ==
  /\ listing = Pending
  /\ receipt = "foreign"
  /\ fresh = TRUE
  /\ verifying = [v \in Verifications |-> Idle]
  /\ begun = 0
  /\ overtaken = FALSE

\* The stages that fail; those that depend on the content and its metadata alone pass.
Failing ==
  { stage \in {"provenance", "policy"} :
      IF stage = "provenance" THEN receipt # "signed" ELSE receipt = "foreign" \/ ~fresh }

\* _compute_trust_status, and what run_strict_verification sets.
Score(failing) == ((5 - Cardinality(failing)) * 100) \div 5
StaysVerified(failing) ==                                              \* mutant
  [status |-> IF failing = {} THEN "verified_secure_data" ELSE listing.status,
   score |-> Score(failing), summary |-> failing \cup {"judged"}]
Judged(failing) ==
  [status |-> IF failing = {} THEN "verified_secure_data" ELSE "verification_failed",
   score |-> Score(failing), summary |-> failing \cup {"judged"}]

\* The columns that differ from what was loaded; the summary names the job and always does.
Written(new, loaded) ==
  [c \in DOMAIN listing |-> IF c # "summary" /\ new[c] = loaded[c] THEN listing[c] ELSE new[c]]
-----------------------------------------------------------------------------
Load(v, adds) ==
  /\ verifying[v] = Idle /\ begun < MaxJobs
  /\ begun' = begun + 1
  /\ verifying' = [verifying EXCEPT ![v] =
                     [pc |-> IF adds THEN "receipt" ELSE "stages", loaded |-> listing, late |-> FALSE]]
  /\ UNCHANGED <<listing, receipt, fresh, overtaken>>

\* add_source_receipt commits; the listing stays in the session as it was loaded.
AddReceipt(v, r) ==
  /\ verifying[v].pc = "receipt"
  /\ receipt' = r
  /\ verifying' = [verifying EXCEPT ![v].pc = "stages"]
  /\ UNCHANGED <<listing, fresh, begun, overtaken>>

\* The latest receipt and manifest, the metadata as loaded, the clock.
Judge(v) ==
  /\ verifying[v].pc = "stages"
  /\ verifying' = [verifying EXCEPT ![v] =
                     [pc |-> "commit", loaded |-> @.loaded, late |-> @.late,
                      new |-> Judged(Failing)]]
  /\ UNCHANGED <<listing, receipt, fresh, begun, overtaken>>

\* Everybody else who has loaded the row works on an old one from now on.
Overtaking(v) ==
  [w \in Verifications |->
     IF w = v THEN Idle
     ELSE IF verifying[w] = Idle THEN Idle ELSE [verifying[w] EXCEPT !.late = TRUE]]

Commit(v) ==
  /\ verifying[v].pc = "commit"
  /\ listing' = Written(verifying[v].new, verifying[v].loaded)
  /\ overtaken' = verifying[v].late
  /\ verifying' = Overtaking(v)
  /\ UNCHANGED <<receipt, fresh, begun>>

\* An error or a crash: a receipt that was committed stays.
Fail(v) ==
  /\ verifying[v] # Idle
  /\ verifying' = [verifying EXCEPT ![v] = Idle]
  /\ UNCHANGED <<listing, receipt, fresh, begun, overtaken>>

Expire ==
  /\ fresh /\ fresh' = FALSE
  /\ UNCHANGED <<listing, receipt, verifying, begun, overtaken>>

Next ==
  \/ Expire
  \/ \E v \in Verifications :
       \/ \E adds \in BOOLEAN : Load(v, adds)
       \/ \E r \in Receipts : AddReceipt(v, r)
       \/ Judge(v) \/ Commit(v) \/ Fail(v)

Spec == Init /\ [][Next]_vars
-----------------------------------------------------------------------------
TypeOK ==
  /\ listing \in [status : {"pending_verification", "verified_secure_data", "verification_failed"},
                  score : {0, 60, 80, 100},
                  summary : SUBSET {"judged", "provenance", "policy"}]
  /\ receipt \in Receipts \cup {"foreign"}
  /\ fresh \in BOOLEAN /\ overtaken \in BOOLEAN
  /\ \A v \in Verifications : verifying[v].pc \in {"idle", "receipt", "stages", "commit"}

\* Unless the last job was overtaken, the listing's status, score and summary tell of one
\* and the same job, whatever rows overlapping jobs have left before.
OneJobShows ==
  listing.summary # {} /\ ~overtaken
    => LET failing == listing.summary \ {"judged"} IN
         /\ listing.status = "verified_secure_data" <=> failing = {}
         /\ listing.score = Score(failing)
=============================================================================
