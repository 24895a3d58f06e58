------------------------------- MODULE Merkle -------------------------------
(***************************************************************************)
(* The Merkle trees of memory snapshots and of listing proofs              *)
(* (services/memory_service.py, services/zkp_service.py).  A SHA-256 hash  *)
(* holds the text it was computed from: no two texts have the same one.    *)
(* Leaves and nodes are hashed alike: a node's text is the digits of the   *)
(* two hashes below it, one after the other.  The text of a snapshot's     *)
(* chunk is the JSON of a list of records, which begins with a bracket and *)
(* so is no such digits; a piece of a content that is proved (zkp_service) *)
(* can be any text, those too.                                             *)
(***************************************************************************)
EXTENDS Integers, Sequences

Hash(text) == [sha256 |-> text]
Json(records) == [list |-> records]
Digits(left, right) == [left |-> left, right |-> right]
Pair(left, right) == Hash(Digits(left, right))

\* The level above: an odd hash at the end is paired with itself.
Above(level) ==
  [i \in 1..((Len(level) + 1) \div 2) |->
     Pair(level[2 * i - 1], IF 2 * i <= Len(level) THEN level[2 * i] ELSE level[2 * i - 1])]

Levels(hashes) ==
  LET Level[k \in Nat] == IF k = 0 THEN hashes ELSE Above(Level[k - 1]) IN Level

\* The loop ends at the first level with one node.
Top(hashes) ==
  LET k == CHOOSE n \in 0 .. Len(hashes) : /\ Len(Levels(hashes)[n]) = 1
                                           /\ \A m \in 0 .. n - 1 : Len(Levels(hashes)[m]) > 1
  IN  Levels(hashes)[k][1]

\* _merkle_root, build_merkle_tree: without a chunk, the hash of the empty text.
Root(hashes) == IF hashes = <<>> THEN Hash("") ELSE Top(hashes)
=============================================================================
