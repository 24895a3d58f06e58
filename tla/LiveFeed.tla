------------------------------ MODULE LiveFeed ------------------------------
(***************************************************************************)
(* The two WebSocket feeds and the broadcasts to them (main.py:            *)
(* ConnectionManager, ScopedConnectionManager, broadcast_event).  A        *)
(* broadcast walks the set of viewers itself and awaits a send to each;    *)
(* whoever connects or goes meanwhile changes the set under it, and Python *)
(* raises at the next step of the walk when the size differs.              *)
(***************************************************************************)
EXTENDS Integers, FiniteSets

CONSTANTS
  Feed, Scoped,  \* sockets that use /ws/feed and /ws/v2/events, once each
  Broadcasts,    \* calls of broadcast_event
  MaxViewers,    \* MAX_CONNECTIONS
  Nothing

VARIABLES
  sockets,    \* how far each connection is
  viewers,    \* ws_manager.active and ws_scoped_manager.active
  broadcasts  \* by call: whom it is for, where it walks, the viewers there were, whom it
              \* sent to and who was dead; disturbed if someone else changed the viewers

vars == <<sockets, viewers, broadcasts>>

Sockets == Feed \cup Scoped
Of(feed) == IF feed = "feed" THEN Feed ELSE Scoped
Home(s) == IF s \in Feed THEN "feed" ELSE "scoped"

Init ==
  /\ sockets = [s \in Sockets |-> "new"]
  /\ viewers = {}
  /\ broadcasts = [b \in Broadcasts |-> Nothing]

Walking(b, feed) == broadcasts[b] # Nothing /\ broadcasts[b].at = feed

\* What the broadcasts are after the viewers of a feed have changed.
Disturbed(feed) ==
  [b \in Broadcasts |-> IF Walking(b, feed) THEN [broadcasts[b] EXCEPT !.disturbed = TRUE]
                                            ELSE broadcasts[b]]
-----------------------------------------------------------------------------
(* The connections *)

\* connect counts the viewers before it awaits accept.
Connect(s) ==
  /\ sockets[s] = "new"
  /\ sockets' = [sockets EXCEPT ![s] =
       IF Cardinality(viewers \cap Of(Home(s))) >= MaxViewers THEN "closed" ELSE "accepting"]
  /\ UNCHANGED <<viewers, broadcasts>>

Accept(s) ==
  /\ sockets[s] = "accepting"
  /\ sockets' = [sockets EXCEPT ![s] = "open"]
  /\ viewers' = viewers \cup {s}
  /\ broadcasts' = Disturbed(Home(s))

\* The client goes: accept fails, or sends do from now on until the handler has seen it.
Leave(s) ==
  /\ sockets[s] \in {"accepting", "open"}
  /\ sockets' = [sockets EXCEPT ![s] = IF @ = "open" THEN "gone" ELSE "closed"]
  /\ UNCHANGED <<viewers, broadcasts>>

\* The handler's receive raises WebSocketDisconnect.
Disconnect(s) ==
  /\ sockets[s] = "gone"
  /\ sockets' = [sockets EXCEPT ![s] = "closed"]
  /\ viewers' = viewers \ {s}
  /\ broadcasts' = IF s \in viewers THEN Disturbed(Home(s)) ELSE broadcasts
-----------------------------------------------------------------------------
(* The broadcasts *)

StopsAtDead(p) == IF p.dead = {} THEN (viewers \cap Of(p.at) \cap p.to) \ p.sent ELSE {}  \* mutant
Rest(p) == (viewers \cap Of(p.at) \cap p.to) \ p.sent

\* The send to one of the rest, which fails if the client has gone.
Sends(p) ==
  {[p EXCEPT !.sent = @ \cup {s}, !.dead = @ \cup (IF sockets[s] = "open" THEN {} ELSE {s})]
     : s \in Rest(p)}

\* Of a broadcast that is over only whom it missed is kept.
Over(p, how) ==
  [p EXCEPT !.at = how, !.from = (@ \cap p.to) \ p.sent, !.to = {}, !.sent = {}, !.dead = {}]

\* A walk begins; it awaits nothing if there is no one to send to.
At(p, feed) == [p EXCEPT !.at = feed, !.from = @ \cup (viewers \cap Of(feed)), !.dead = {}]
WalkScoped(p) == LET q == At(p, "scoped") IN
                 IF Rest(q) = {} THEN {Over(q, "dispatched")} ELSE Sends(q)
WalkFeed(p) == LET q == At(p, "feed") IN IF Rest(q) = {} THEN WalkScoped(q) ELSE Sends(q)

\* broadcast_event: a public event is for all, a private one for its targets among the
\* scoped viewers.  It ends by starting the fan-outs to OpenClaw and the subscriptions.
Broadcast(b) ==
  /\ broadcasts[b] = Nothing
  /\ \E to \in {Sockets} \cup SUBSET Scoped :
       LET p == [to |-> to, at |-> "feed", from |-> {}, sent |-> {}, dead |-> {}, disturbed |-> FALSE] IN
       \E q \in IF to = Sockets THEN WalkFeed(p) ELSE WalkScoped(p) :
         broadcasts' = [broadcasts EXCEPT ![b] = q]
  /\ UNCHANGED <<sockets, viewers>>

Resized(p) == Cardinality(viewers \cap Of(p.at)) # Cardinality(p.from \cap Of(p.at))
\* As many viewers as before but others: the walk may skip some, end or raise.
Swapped(p) == viewers \cap Of(p.at) # p.from \cap Of(p.at)

\* The send returns and the walk goes on.
Step(b) ==
  /\ Walking(b, "feed") \/ Walking(b, "scoped")
  /\ ~Resized(broadcasts[b])
  /\ \E p \in Sends(broadcasts[b]) : broadcasts' = [broadcasts EXCEPT ![b] = p]
  /\ UNCHANGED <<sockets, viewers>>

\* The walk is over and removes the dead; the next begins without an await.
Finish(b) ==
  /\ Walking(b, "feed") \/ Walking(b, "scoped")
  /\ LET p == broadcasts[b] IN
       /\ ~Resized(p) /\ (Rest(p) = {} \/ Swapped(p))
       /\ viewers' = viewers \ p.dead
       /\ \E q \in IF p.at = "feed" THEN WalkScoped(p) ELSE {Over(p, "dispatched")} :
            broadcasts' = [IF p.dead \cap viewers = {} THEN broadcasts ELSE Disturbed(p.at)
                             EXCEPT ![b] = q]
  /\ UNCHANGED sockets

\* RuntimeError: the viewers changed.  It ends broadcast_event before the fan-outs.
Break(b) ==
  /\ Walking(b, "feed") \/ Walking(b, "scoped")
  /\ Resized(broadcasts[b]) \/ Swapped(broadcasts[b])
  /\ broadcasts' = [broadcasts EXCEPT ![b] = Over(@, "broken")]
  /\ UNCHANGED <<sockets, viewers>>

Next ==
  \/ \E s \in Sockets : Connect(s) \/ Accept(s) \/ Leave(s) \/ Disconnect(s)
  \/ \E b \in Broadcasts : Broadcast(b) \/ Step(b) \/ Finish(b) \/ Break(b)

Spec == Init /\ [][Next]_vars
-----------------------------------------------------------------------------
TypeOK ==
  /\ sockets \in [Sockets -> {"new", "accepting", "open", "gone", "closed"}]
  /\ viewers \subseteq Sockets
  /\ \A b \in Broadcasts :
       broadcasts[b] \in {Nothing} \cup
         [to : SUBSET Sockets, at : {"feed", "scoped", "dispatched", "broken"}, from : SUBSET Sockets,
          sent : SUBSET Sockets, dead : SUBSET Sockets, disturbed : BOOLEAN]

\* However many broadcasts meet the same dead viewers: whoever is connected stays a
\* viewer and whoever's handler has ended is none; and an event is lost to a viewer, or to
\* the webhooks, only if someone else changed the viewers while it was sent.
BroadcastsReach ==
  /\ \A s \in Sockets : /\ sockets[s] = "open" => s \in viewers
                        /\ s \in viewers => sockets[s] \in {"open", "gone"}
  /\ \A b \in Broadcasts :
       \/ broadcasts[b] = Nothing
       \/ broadcasts[b].disturbed
       \/ /\ broadcasts[b].at # "broken"
          /\ broadcasts[b].at = "dispatched" => broadcasts[b].from = {}
=============================================================================
