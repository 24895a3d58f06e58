----------------------------- MODULE A2UIClient -----------------------------
(***************************************************************************)
(* The browser's client of the A2UI WebSocket (frontend/src/lib/a2ui.ts,   *)
(* kept by hooks/useA2UI.ts): one socket, a heartbeat, retries by timers.  *)
(* All of it runs in callbacks; those of a socket that was replaced still  *)
(* run when it closes.                                                     *)
(***************************************************************************)
EXTENDS Integers, Sequences

CONSTANTS
  MaxReconnects,  \* maxReconnects
  MaxSockets      \* bound: sockets made

VARIABLES
  conns,    \* readyState of the sockets, in the order they were made
  current,  \* this.ws, 0 for null
  retries,  \* reconnectAttempts
  timers,   \* pending setTimeouts of reconnect
  beating,  \* the heartbeat's interval is set
  cut,      \* an older socket's close has stopped it
  wanted,   \* the last call was connect, not disconnect
  late      \* at the last disconnect a timer was pending

vars == <<conns, current, retries, timers, beating, cut, wanted, late>>

Init ==
  /\ conns = <<>> /\ current = 0
  /\ retries = 0 /\ timers = 0
  /\ beating = FALSE /\ cut = FALSE
  /\ wanted = FALSE /\ late = FALSE

Live == {n \in DOMAIN conns : conns[n] \in {"connecting", "open"}}

\* connect returns if this.ws is connecting or open.
Connected ==
  IF current \in Live
    THEN UNCHANGED <<conns, current>>
    ELSE /\ Len(conns) < MaxSockets
         /\ conns' = Append(conns, "connecting")
         /\ current' = Len(conns) + 1

Connect ==
  /\ Connected
  /\ wanted' = TRUE
  /\ UNCHANGED <<retries, timers, beating, cut, late>>

Forgives == retries                                                     \* mutant
GivesUp == MaxReconnects
\* close() makes a socket closing; its onclose runs later.
Disconnect ==
  /\ conns' = [n \in DOMAIN conns |-> IF n = current /\ n \in Live THEN "closing" ELSE conns[n]]
  /\ current' = 0
  /\ retries' = GivesUp
  /\ beating' = FALSE
  /\ wanted' = FALSE
  /\ late' = (timers > 0)
  /\ UNCHANGED <<timers, cut>>

Opened(n) ==
  /\ conns[n] = "connecting"
  /\ conns' = [conns EXCEPT ![n] = "open"]
  /\ retries' = 0
  /\ beating' = TRUE /\ cut' = FALSE
  /\ UNCHANGED <<current, timers, wanted, late>>

\* The server begins to close.
Closing(n) ==
  /\ conns[n] = "open"
  /\ conns' = [conns EXCEPT ![n] = "closing"]
  /\ UNCHANGED <<current, retries, timers, beating, cut, wanted, late>>

\* onclose, after a failed attempt, a lost connection or a closing handshake.
Closed(n) ==
  /\ conns[n] # "closed"
  /\ conns' = [conns EXCEPT ![n] = "closed"]
  /\ beating' = FALSE
  /\ cut' = (cut \/ (beating /\ n # current))
  /\ IF retries < MaxReconnects THEN retries' = retries + 1 /\ timers' = timers + 1
                                ELSE UNCHANGED <<retries, timers>>
  /\ UNCHANGED <<current, wanted, late>>

\* A timer of reconnect; disconnect does not clear them.
Fire ==
  /\ timers > 0
  /\ timers' = timers - 1
  /\ Connected
  /\ UNCHANGED <<retries, beating, cut, wanted, late>>

Next ==
  \/ Connect \/ Disconnect \/ Fire
  \/ \E n \in DOMAIN conns : Opened(n) \/ Closing(n) \/ Closed(n)

Spec == Init /\ [][Next]_vars
-----------------------------------------------------------------------------
TypeOK ==
  /\ \A n \in DOMAIN conns : conns[n] \in {"connecting", "open", "closing", "closed"}
  /\ current \in 0..Len(conns)
  /\ retries \in 0..MaxReconnects /\ timers \in 0..MaxSockets
  /\ {beating, cut, wanted, late} \subseteq BOOLEAN

\* Whatever callbacks of replaced sockets still run: there is one live connection at most,
\* with its heartbeat unless one of them stopped it; a client that is wanted gives up only
\* when it has used up its retries; and one that was disconnected comes back only by a
\* retry that was pending (lib/a2ui.ts calls this "prevent auto-reconnect").
OneConnection ==
  /\ \A m, n \in Live : m = n
  /\ \A n \in Live : conns[n] = "open" => beating \/ cut
  /\ wanted => \/ Live # {} \/ timers > 0 \/ retries = MaxReconnects
               \/ \E n \in DOMAIN conns : conns[n] = "closing"
  /\ Live # {} => wanted \/ late
=============================================================================
