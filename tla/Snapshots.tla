----------------------------- MODULE Snapshots ------------------------------
(***************************************************************************)
(* A memory snapshot of an agent, imported in chunks and verified later    *)
(* (services/memory_service.py), over rows that can get lost, repeated,    *)
(* exchanged or damaged meanwhile.                                         *)
(***************************************************************************)
EXTENDS Merkle, Functions

CONSTANTS
  Verifiers,
  Chunks,      \* what a chunk of records can be: such as "plain", "vague", "unsafe"
  MaxChunks,   \* bound: chunks of an import
  MaxFaults,   \* bound: what happens to the rows
  MaxVerifies, \* bound: calls of verify_snapshot
  Nothing

VARIABLES
  import,     \* the chunks as they were imported
  snapshot,   \* the row: root and status
  rows,       \* its memory_snapshot_chunks in the order of chunk_index
  verifiers,  \* what each verify_snapshot has read
  judged,     \* the rows that the verdict in the snapshot's row is about
  faults, verifies

vars == <<import, snapshot, rows, verifiers, judged, faults, verifies>>

Init ==
  /\ import = <<>>
  /\ snapshot = [root |-> Nothing, status |-> "none"]
  /\ rows = <<>>
  /\ verifiers = [v \in Verifiers |-> Nothing]
  /\ judged = Nothing
  /\ faults = 0 /\ verifies = 0

\* A row: its payload, encrypted or "garbled", and the hash stored beside it.
Row(chunk) == [payload |-> chunk, hash |-> Hash(Json(chunk))]
Hashes(stored) == [i \in DOMAIN stored |-> stored[i].hash]

\* import_snapshot: the snapshot, its chunks and the trust profile in one commit.
Import(chunks) ==
  /\ snapshot.status = "none"
  /\ import' = chunks
  /\ rows' = [i \in DOMAIN chunks |-> Row(chunks[i])]
  /\ snapshot' = [root |-> Root(Hashes(rows')), status |-> "imported"]
  /\ UNCHANGED <<verifiers, judged, faults, verifies>>
-----------------------------------------------------------------------------
(* verify_snapshot *)

\* Decryption and the chunk's own hash.
NotCompared(row) == row.payload # "garbled"                            \* mutant
Intact(row) == row.payload # "garbled" /\ row.hash = Hash(Json(row.payload))

Safe(stored) == \A i \in DOMAIN stored : stored[i].payload # "unsafe"

\* Once a chunk is not intact the later ones are not looked at.
IntegrityOk(stored, root) ==
  /\ \A i \in DOMAIN stored : Intact(stored[i])
  /\ Root(Hashes(stored)) = root

\* The replay fails if a record of the sample refers to nothing; the snapshot's id
\* decides which ones are sampled.
Statuses(stored, root) ==
  CASE ~IntegrityOk(stored, root) -> {"failed"}
    [] IntegrityOk(stored, root) /\ ~Safe(stored) -> {"quarantined"}
    [] OTHER -> {"verified"} \cup {"failed" : i \in {n \in DOMAIN stored : stored[n].payload = "vague"}}

\* The SELECTs; a snapshot without chunks is a ValueError.
Select(v) ==
  /\ snapshot.status # "none" /\ verifiers[v] = Nothing /\ rows # <<>>
  /\ verifies < MaxVerifies
  /\ verifies' = verifies + 1
  /\ verifiers' = [verifiers EXCEPT ![v] = [rows |-> rows, root |-> snapshot.root, status |-> snapshot.status]]
  /\ UNCHANGED <<import, snapshot, rows, judged, faults>>

\* The verdict, the run and the trust profile in one commit; the row's status is written
\* if it is not the one that was read.
Commit(v) ==
  /\ verifiers[v] # Nothing
  /\ \E status \in Statuses(verifiers[v].rows, verifiers[v].root) :
       IF status = verifiers[v].status THEN UNCHANGED <<snapshot, judged>>
       ELSE snapshot' = [snapshot EXCEPT !.status = status] /\ judged' = verifiers[v].rows
  /\ verifiers' = [verifiers EXCEPT ![v] = Nothing]
  /\ UNCHANGED <<import, rows, faults, verifies>>

Fail(v) ==
  /\ verifiers[v] # Nothing
  /\ verifiers' = [verifiers EXCEPT ![v] = Nothing]
  /\ UNCHANGED <<import, snapshot, rows, judged, faults, verifies>>
-----------------------------------------------------------------------------
(* What can happen to stored rows: nothing keeps (snapshot_id, chunk_index) *)
(* unique, and the encryption of a payload does not say where it belongs.   *)

Lost == { SubSeq(rows, 1, i - 1) \o SubSeq(rows, i + 1, Len(rows)) : i \in DOMAIN rows }
Repeated == { Append(rows, rows[i]) : i \in DOMAIN rows }
Exchanged == { [rows EXCEPT ![i] = rows[j], ![j] = rows[i]] : i, j \in DOMAIN rows }
Damaged == { [rows EXCEPT ![i].payload = p] : i \in DOMAIN rows, p \in Chunks \cup {"garbled"} }

Fault ==
  /\ faults < MaxFaults
  /\ faults' = faults + 1
  /\ rows' \in (Lost \cup Repeated \cup Exchanged \cup Damaged) \ {rows}
  /\ UNCHANGED <<import, snapshot, verifiers, judged, verifies>>

Next ==
  \/ \E n \in 1..MaxChunks : \E chunks \in [1..n -> Chunks] : Import(chunks)
  \/ \E v \in Verifiers : Select(v) \/ Commit(v) \/ Fail(v)
  \/ Fault

Spec == Init /\ [][Next]_vars
-----------------------------------------------------------------------------
TypeOK ==
  /\ snapshot.status \in {"none", "imported", "verified", "quarantined", "failed"}
  /\ \A i \in DOMAIN rows : rows[i].payload \in Chunks \cup {"garbled"}
  /\ faults \in 0..MaxFaults /\ verifies \in 0..MaxVerifies

Payloads(stored) == [i \in DOMAIN stored |-> stored[i].payload]

\* A verified snapshot is what was imported: no chunk changed, moved or missing.  Only
\* the end of it may be there more or less often, since an odd chunk is hashed twice.
VerifiedIsImported ==
  snapshot.status = "verified"
    => LET found == Payloads(judged) IN
         /\ \A i \in DOMAIN found \cap DOMAIN import : found[i] = import[i]
         /\ Range(found) = Range(import)
=============================================================================
