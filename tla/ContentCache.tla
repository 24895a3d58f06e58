---------------------------- MODULE ContentCache ----------------------------
(***************************************************************************)
(* Stored contents and the two caches before them (storage/hashfs.py,      *)
(* services/cdn_service.py, services/cache_service.py).                    *)
(*                                                                         *)
(* A content is what its hash names; only the length of what was read is   *)
(* kept, so a partly written file is a shorter one.  One process, with its *)
(* caches, among several that write; reads of files run in threads, the    *)
(* rest in the event loop.                                                 *)
(***************************************************************************)
EXTENDS Integers, Sequences, FiniteSets, Functions

CONSTANTS
  Contents,      \* hashes
  Size,          \* the length of each
  MaxBytes,      \* the hot cache's budget
  WarmSize,      \* maxsize of content_cache
  PromoteAfter,  \* accesses a minute, 10 in the code
  Publishers, Getters,
  MaxGets,       \* bound: get_content calls
  Nothing

VARIABLES
  files,      \* the length of each file, Nothing if there is none
  publishers, \* where each create_listing is in HashFS.put
  listed,     \* the contents some listing has
  doubtful,   \* those of which a write was cut, or whose file another write found unfinished
  hot,        \* HotCache: data (lengths), bytes, freq, access
  warm,       \* TTLCache: least recently used first
  getters,    \* where each get_content is
  gets

vars == <<files, publishers, listed, doubtful, hot, warm, getters, gets>>

NoWrite == [pc |-> "idle", key |-> Nothing]
Idle == [pc |-> "idle", key |-> Nothing, data |-> Nothing]

Init ==
  /\ files = [k \in Contents |-> Nothing]
  /\ publishers = [p \in Publishers |-> NoWrite]
  /\ listed = {} /\ doubtful = {}
  /\ hot = [data |-> <<>>, freq |-> <<>>, access |-> [k \in Contents |-> 0], bytes |-> 0]
  /\ warm = <<>>
  /\ getters = [g \in Getters |-> Idle]
  /\ gets = 0
-----------------------------------------------------------------------------
(* HashFS *)

Whole(k) == files[k] = Size[k]

\* put, path.exists(): a file that is there is taken for the content.
Found(p, k) ==
  /\ publishers[p].pc = "idle"
  /\ files[k] # Nothing
  /\ listed' = listed \cup {k}
  /\ doubtful' = IF Whole(k) THEN doubtful ELSE doubtful \cup {k}
  /\ UNCHANGED <<files, publishers, hot, warm, getters, gets>>

At(p, pc, k) == publishers' = [publishers EXCEPT ![p] = [pc |-> pc, key |-> k]]

ListsFirst(p, k) ==                                                    \* mutant
  /\ publishers[p].pc = "idle" /\ files[k] = Nothing
  /\ At(p, "not found", k)
  /\ listed' = listed \cup {k}
  /\ UNCHANGED <<files, doubtful, hot, warm, getters, gets>>
NotFound(p, k) ==
  /\ publishers[p].pc = "idle"
  /\ files[k] = Nothing
  /\ At(p, "not found", k)
  /\ UNCHANGED <<files, listed, doubtful, hot, warm, getters, gets>>

\* write_bytes truncates the file, which another may have written since, and fills it.
Open(p) ==
  /\ publishers[p].pc = "not found"
  /\ LET k == publishers[p].key IN
       /\ files' = [files EXCEPT ![k] = 0]
       /\ doubtful' = IF files[k] = Nothing THEN doubtful ELSE doubtful \cup {k}
       /\ At(p, "writing", k)
  /\ UNCHANGED <<listed, hot, warm, getters, gets>>

\* The write ends, and create_listing goes on to its row.
Filled(p) ==
  /\ publishers[p].pc = "writing"
  /\ LET k == publishers[p].key IN
       /\ files' = [files EXCEPT ![k] = Size[k]]
       /\ listed' = listed \cup {k}
  /\ publishers' = [publishers EXCEPT ![p] = NoWrite]
  /\ UNCHANGED <<doubtful, hot, warm, getters, gets>>

\* The writing process dies, or the disk is full: any part of the file is there.
Cut(p) ==
  /\ publishers[p].pc = "writing"
  /\ LET k == publishers[p].key IN
       /\ \E n \in 0..Size[k] : files' = [files EXCEPT ![k] = n]
       /\ doubtful' = doubtful \cup {k}
  /\ publishers' = [publishers EXCEPT ![p] = NoWrite]
  /\ UNCHANGED <<listed, hot, warm, getters, gets>>
-----------------------------------------------------------------------------
(* HotCache: its methods run under its lock *)

BytesOf(data, keys) == SumFunctionOnSet(data, keys)
Without(f, keys) == [k \in DOMAIN f \ keys |-> f[k]]
With(f, k, v) == [l \in DOMAIN f \cup {k} |-> IF l = k THEN v ELSE f[l]]

\* _evict_lfu until there is room by the cache's own count, or nothing is left: the
\* entries it can have removed.
Evicted(n) ==
  LET Fits(gone) == hot.bytes - BytesOf(hot.data, gone) + n <= MaxBytes IN
  { gone \in SUBSET DOMAIN hot.data :
      /\ Fits(gone) \/ gone = DOMAIN hot.data
      /\ \A k \in gone, l \in DOMAIN hot.data \ gone : hot.freq[k] <= hot.freq[l]
      /\ gone # {} => \E k \in gone : /\ \A l \in gone : hot.freq[l] <= hot.freq[k]
                                      /\ ~Fits(gone \ {k}) }

NotLooked(k) == FALSE                                                  \* mutant
Cached(k) == k \in DOMAIN hot.data

\* put, after the access was counted.
HotPut(k, n, access) ==
  IF n > MaxBytes \/ Cached(k)
    THEN {[hot EXCEPT !.access = access]}
    ELSE { [data |-> With(Without(hot.data, gone), k, n), freq |-> With(Without(hot.freq, gone), k, 1),
            access |-> [l \in Contents |-> IF l = k THEN 1 ELSE IF l \in gone THEN 0 ELSE access[l]],
            bytes |-> hot.bytes - BytesOf(hot.data, gone) + n] : gone \in Evicted(n) }
-----------------------------------------------------------------------------
(* get_content *)

InWarm(k) == \E i \in DOMAIN warm : warm[i].key = k
Place(k) == CHOOSE i \in DOMAIN warm : warm[i].key = k
WarmLength(k) == warm[Place(k)].data
Others(k) ==
  IF InWarm(k) THEN SubSeq(warm, 1, Place(k) - 1) \o SubSeq(warm, Place(k) + 1, Len(warm)) ELSE warm

\* TTLCache.put: to the end, and the least recently used ones fall out.
WarmPut(k, n) ==
  LET put == Append(Others(k), [key |-> k, data |-> n])
  IN  IF Len(put) > WarmSize THEN Tail(put) ELSE put

Counted(k) == [hot.access EXCEPT ![k] = @ + 1]

\* record_access, should_promote and put.
MayPromote(k, n) ==
  hot' \in IF Counted(k)[k] > PromoteAfter THEN HotPut(k, n, Counted(k))
            ELSE {[hot EXCEPT !.access = Counted(k)]}

\* get_listing_content, express_buy: the content of a listing, through the hot cache.
Hit(g, k) ==
  /\ getters[g] = Idle /\ k \in listed /\ gets < MaxGets
  /\ gets' = gets + 1
  /\ Cached(k)
  /\ hot' = [hot EXCEPT !.freq[k] = @ + 1, !.access = Counted(k)]
  /\ UNCHANGED <<files, publishers, listed, doubtful, warm, getters>>

\* The warm cache has it, and it has not expired.
WarmHit(g, k) ==
  /\ getters[g] = Idle /\ k \in listed /\ gets < MaxGets
  /\ gets' = gets + 1
  /\ ~Cached(k) /\ InWarm(k)
  /\ warm' = Append(Others(k), [key |-> k, data |-> WarmLength(k)])
  /\ MayPromote(k, WarmLength(k))
  /\ UNCHANGED <<files, publishers, listed, doubtful, getters>>

\* Neither has it: an expired entry goes, and a thread is sent to the file.
Miss(g, k) ==
  /\ getters[g] = Idle /\ k \in listed /\ gets < MaxGets
  /\ gets' = gets + 1
  /\ ~Cached(k)
  /\ warm' = Others(k)
  /\ getters' = [getters EXCEPT ![g] = [pc |-> "reading", key |-> k, data |-> Nothing]]
  /\ UNCHANGED <<files, publishers, listed, doubtful, hot>>

Read(g) ==
  /\ getters[g].pc = "reading"
  /\ getters' = [getters EXCEPT ![g] = [pc |-> "read", key |-> @.key, data |-> files[@.key]]]
  /\ UNCHANGED <<files, publishers, listed, doubtful, hot, warm, gets>>

Keep(g) ==
  /\ getters[g].pc = "read"
  /\ LET k == getters[g].key  n == getters[g].data IN
       warm' = WarmPut(k, n) /\ MayPromote(k, n)
  /\ getters' = [getters EXCEPT ![g] = Idle]
  /\ UNCHANGED <<files, publishers, listed, doubtful, gets>>

\* decay_counters, every minute.
Decay ==
  /\ hot' = [hot EXCEPT !.access = [k \in Contents |-> @[k] \div 2]]
  /\ UNCHANGED <<files, publishers, listed, doubtful, warm, getters, gets>>

Next ==
  \/ \E p \in Publishers :
       \/ \E k \in Contents : Found(p, k) \/ NotFound(p, k)
       \/ Open(p) \/ Filled(p) \/ Cut(p)
  \/ \E g \in Getters :
       \/ \E k \in Contents : Hit(g, k) \/ WarmHit(g, k) \/ Miss(g, k)
       \/ Read(g) \/ Keep(g)
  \/ Decay

Spec == Init /\ [][Next]_vars
-----------------------------------------------------------------------------
TypeOK ==
  /\ files \in [Contents -> Nat \cup {Nothing}]
  /\ listed \subseteq Contents /\ doubtful \subseteq Contents
  /\ \A p \in Publishers : publishers[p].pc \in {"idle", "not found", "writing"}
  /\ \A g \in Getters : getters[g].pc \in {"idle", "reading", "read"}
  /\ Len(warm) <= WarmSize
  /\ gets \in 0..MaxGets

\* The hot cache's own count of its bytes is what it holds, within the budget, although
\* two requests that both missed put the same content.
WithinBudget ==
  /\ hot.bytes = BytesOf(hot.data, DOMAIN hot.data)
  /\ hot.bytes <= MaxBytes
  /\ DOMAIN hot.freq = DOMAIN hot.data

\* What a cache keeps and serves is the whole content, unless a write of it was cut short,
\* or one truncated or did not wait for the file of another.
WholeUnlessCut ==
  \A k \in listed \ doubtful :
    /\ Cached(k) => hot.data[k] = Size[k]
    /\ InWarm(k) => WarmLength(k) = Size[k]
=============================================================================
