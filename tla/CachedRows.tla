----------------------------- MODULE CachedRows -----------------------------
(***************************************************************************)
(* Rows that handlers share through a cache: listing_service.py and        *)
(* registry_service.py put the ORM object itself into listing_cache and    *)
(* agent_cache, so a later request gets the object of another request's    *)
(* database session.  A commit writes the changed objects of its own       *)
(* session only, and refreshing an object of another session raises: then  *)
(* the cache is not invalidated, and serves what was never stored; or the  *)
(* owner of the object stores it with its own commit.                      *)
(* One row, with the attribute that updates and delisting write.           *)
(***************************************************************************)
EXTENDS Integers

CONSTANTS
  Requests, NoRequest,   \* requests, each with a session and thus an object of its own
  Values                 \* values of the attribute

VARIABLES
  row,       \* the value in the database
  objects,   \* by session: the value it loaded, the value now, whether others set it
  cache,     \* the session whose object is cached, or NoRequest
  handlers,  \* the handler of each request and the object it works on
  held       \* the values the row has had since a request began

vars == <<row, objects, cache, handlers, held>>

Ops == {"read", "update", "buy"}

\* The values are interchangeable, so the first one does not matter.
Init ==
  /\ row = CHOOSE v \in Values : TRUE
  /\ objects = [r \in Requests |-> [loaded |-> row, now |-> row, shared |-> FALSE]]
  /\ cache = NoRequest
  /\ handlers = [r \in Requests |-> [pc |-> "idle", op |-> "read", value |-> row,
                                     object |-> NoRequest]]
  /\ held = [r \in Requests |-> {}]

At(r, l) == handlers[r].pc = l
Owns(r) == handlers[r].object = r

\* Everybody who is at work sees the row's value.
Store(v) ==
  /\ row' = v
  /\ held' = [r \in Requests |-> held[r] \cup {v}]

\* What a handler does, without an await, once it has the object of session o: a read
\* ends, an update sets the attributes, a purchase goes on with what it read.
Proceed(r, o) ==
  /\ handlers' = [handlers EXCEPT ![r].object = o,
                    ![r].pc = IF handlers[r].op = "read" THEN "done" ELSE "commit"]
  /\ objects' = IF handlers[r].op = "update"
                  THEN [objects EXCEPT ![o].now = handlers[r].value,
                                       ![o].shared = @ \/ r # o]
                  ELSE objects
-----------------------------------------------------------------------------
Begin(r, op, v) ==
  /\ At(r, "idle") /\ (op = "update" \/ v = row)
  /\ handlers' = [handlers EXCEPT ![r].pc = "get", ![r].op = op, ![r].value = v]
  /\ held' = [held EXCEPT ![r] = {row}]
  /\ UNCHANGED <<row, objects, cache>>

\* get_listing, get_agent
Hit(r) ==
  /\ At(r, "get") /\ cache # NoRequest
  /\ Proceed(r, cache)
  /\ UNCHANGED <<row, cache, held>>

Select(r) ==
  /\ At(r, "get") /\ cache = NoRequest
  /\ objects' = [objects EXCEPT ![r].loaded = row, ![r].now = row]
  /\ handlers' = [handlers EXCEPT ![r].pc = "put"]
  /\ UNCHANGED <<row, cache, held>>

\* The answer of the SELECT arrives, whatever was committed since.
Put(r) ==
  /\ At(r, "put")
  /\ cache' = r
  /\ Proceed(r, r)
  /\ UNCHANGED <<row, held>>

\* db.commit: an UPDATE is sent for what differs from the loaded value, and for the
\* objects of this session.
Commit(r) ==
  /\ At(r, "commit")
  /\ IF objects[r].now # objects[r].loaded THEN Store(objects[r].now)
                                           ELSE UNCHANGED <<row, held>>
  /\ objects' = [objects EXCEPT ![r].loaded = objects[r].now]
  /\ handlers' = [handlers EXCEPT ![r].pc = IF handlers[r].op = "update" THEN "refresh" ELSE "done"]
  /\ UNCHANGED cache

\* db.refresh and the invalidation: update_listing, delist, update_agent, deactivate_agent.
WithoutRefresh(r) ==                                                   \* mutant
  /\ At(r, "refresh")
  /\ cache' = NoRequest
  /\ handlers' = [handlers EXCEPT ![r].pc = "done"]
  /\ UNCHANGED <<row, objects, held>>
Refresh(r) ==
  /\ At(r, "refresh") /\ Owns(r)
  /\ objects' = [objects EXCEPT ![r].loaded = row, ![r].now = row]
  /\ cache' = NoRequest
  /\ handlers' = [handlers EXCEPT ![r].pc = "done"]
  /\ UNCHANGED <<row, held>>

\* "Instance is not persistent within this Session"
Raise(r) ==
  /\ At(r, "refresh") /\ ~Owns(r)
  /\ handlers' = [handlers EXCEPT ![r].pc = "error"]
  /\ UNCHANGED <<row, objects, cache, held>>

\* The time to live ends, or the entry is evicted.
Forget ==
  /\ cache # NoRequest
  /\ cache' = NoRequest
  /\ UNCHANGED <<row, objects, handlers, held>>

Next ==
  \/ \E r \in Requests, op \in Ops, v \in Values : Begin(r, op, v)
  \/ \E r \in Requests : Hit(r) \/ Select(r) \/ Put(r) \/ Commit(r) \/ Refresh(r) \/ Raise(r)
  \/ Forget

Spec == Init /\ [][Next]_vars
-----------------------------------------------------------------------------
TypeOK ==
  /\ row \in Values
  /\ objects \in [Requests -> [loaded : Values, now : Values, shared : BOOLEAN]]
  /\ cache \in Requests \cup {NoRequest}
  /\ handlers \in [Requests -> [pc : {"idle", "get", "put", "commit", "refresh", "done", "error"},
                                op : Ops, value : Values, object : Requests \cup {NoRequest}]]
  /\ held \in [Requests -> SUBSET Values]

\* An update that was answered as done was in the database in the meantime, except when
\* another request set the same cached object: then that value is stored in its place,
\* and the request that set it is told that it failed.
DoneIsStored ==
  \A r \in Requests :
    /\ At(r, "done")
    /\ handlers[r].op = "update"
    => handlers[r].value \in held[r] \/ objects[r].shared
=============================================================================
