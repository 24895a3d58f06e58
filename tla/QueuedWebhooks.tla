--------------------------- MODULE QueuedWebhooks ---------------------------
(***************************************************************************)
(* Webhooks delivered from a Service Bus queue (webhook_v2_service.py and   *)
(* servicebus_service.py).                                                 *)
(*                                                                         *)
(* The broker is external, as its client is used here: a received message  *)
(* is locked until it is completed, dead-lettered or its lock expires;     *)
(* then it is delivered again, MaxDeliveries times, and moved to the       *)
(* broker's own dead-letter queue.  complete_message and                   *)
(* dead_letter_message may fail (the client of requirements.txt has no     *)
(* method complete on a message) and their answer is not looked at.        *)
(***************************************************************************)
EXTENDS Integers, Sequences, FiniteSets

CONSTANTS
  Events, Workers,
  MaxBatch,      \* max_messages
  MaxAttempts,   \* MAX_DELIVERY_ATTEMPTS
  MaxDeliveries, \* the queue's max delivery count
  MaxMessages    \* bound: messages ever sent

VARIABLES
  queue,    \* the messages of the broker, by number
  attempts, \* an event's committed delivery_attempts: none, one recorded before
            \* its message is sent, open, or one that is final
  entries,  \* dead_letter_entries: a message and which of its deliveries
  retried,  \* the entries with retried = True
  workers,  \* where process_webhook_queue is
  requeue,  \* where retry_dead_letters is
  dropped   \* history: events one of whose sends failed

vars == <<queue, attempts, entries, retried, workers, requeue, dropped>>

Messages == 1 .. MaxMessages
Locks == Messages \X (1 .. MaxDeliveries)
Idle == [pc |-> "idle", batch |-> {}, at |-> <<0, 0>>]
NoRequeue == [pc |-> "idle", todo |-> {}, done |-> {}]

Init ==
  /\ queue = <<>>
  /\ attempts = [e \in Events |-> "none"]
  /\ entries = {} /\ retried = {}
  /\ workers = [w \in Workers |-> Idle]
  /\ requeue = NoRequeue
  /\ dropped = {}

\* The message of a lock, and whether the lock still holds.
Of(l) == queue[l[1]]
Holds(l) == Of(l).state = "locked" /\ Of(l).n = l[2]

Message(e, attempt) == [event |-> e, attempt |-> attempt, state |-> "ready", n |-> 0]

\* send_message: False on any error, and nothing is in the queue.
Send(q, e, attempt, sent) ==
  /\ sent => Len(q) < MaxMessages
  /\ queue' = IF sent THEN Append(q, Message(e, attempt)) ELSE q
  /\ dropped' = IF sent THEN dropped ELSE dropped \cup {e}

OneMore(l) == Of(l).attempt > MaxAttempts                              \* mutant
Exhausted(l) == Of(l).attempt >= MaxAttempts
-----------------------------------------------------------------------------
\* enqueue_webhook_delivery: a pending attempt is committed,
Record(e) ==
  /\ attempts[e] = "none"
  /\ attempts' = [attempts EXCEPT ![e] = "recorded"]
  /\ UNCHANGED <<queue, entries, retried, workers, requeue, dropped>>

\* read again, and its message sent.  A crash or an error before this leaves the pending
\* attempt of an event that nobody sends.
Enqueue(e, sent) ==
  /\ attempts[e] = "recorded"
  /\ attempts' = [attempts EXCEPT ![e] = "open"]
  /\ Send(queue, e, 1, sent)
  /\ UNCHANGED <<entries, retried, workers, requeue>>

\* The broker: a lock expires.
Expire(m) ==
  /\ queue[m].state = "locked"
  /\ queue' = [queue EXCEPT ![m].state = IF queue[m].n < MaxDeliveries THEN "ready" ELSE "dead"]
  /\ UNCHANGED <<attempts, entries, retried, workers, requeue, dropped>>

Receive(w, S) ==
  /\ workers[w].pc = "idle"
  /\ S # {} /\ Cardinality(S) <= MaxBatch /\ \A m \in S : queue[m].state = "ready"
  /\ queue' = [m \in DOMAIN queue |->
       IF m \in S THEN [queue[m] EXCEPT !.state = "locked", !.n = @ + 1] ELSE queue[m]]
  /\ workers' = [workers EXCEPT ![w] =
       [Idle EXCEPT !.pc = "next", !.batch = {<<m, queue[m].n + 1>> : m \in S}]]
  /\ UNCHANGED <<attempts, entries, retried, requeue, dropped>>

\* One message, and its attempt is committed: final when the POST was answered 2xx or
\* the event has no callback URL or a forbidden one.
Attempt(w, l, final) ==
  /\ workers[w].pc = "next" /\ l \in workers[w].batch
  /\ attempts' = [attempts EXCEPT ![Of(l).event] = IF final THEN "final" ELSE @]
  /\ workers' = [workers EXCEPT ![w] = [pc |-> CASE final -> "complete"
                                                 [] ~final /\ Exhausted(l) -> "bury"
                                                 [] OTHER -> "resend",
                                        batch |-> @.batch \ {l}, at |-> l]]
  /\ UNCHANGED <<queue, entries, retried, requeue, dropped>>

At(w, pc) == workers[w].pc = pc
Go(w, pc) == workers' = [workers EXCEPT ![w].pc = pc]

\* The next attempt is sent, whatever the answer the old message is completed after.
CompleteFirst(w, sent) ==                                              \* mutant
  LET l == workers[w].at IN
  /\ At(w, "resend")
  /\ IF Of(l).state # "done"
     THEN /\ queue' = [queue EXCEPT ![l[1]].state = "done"]
          /\ UNCHANGED <<workers, dropped>>
     ELSE Send(queue, Of(l).event, Of(l).attempt + 1, sent) /\ Go(w, "complete")
  /\ UNCHANGED <<attempts, entries, retried, requeue>>
Resend(w, sent) ==
  /\ At(w, "resend") /\ Go(w, "complete")
  /\ Send(queue, Of(workers[w].at).event, Of(workers[w].at).attempt + 1, sent)
  /\ UNCHANGED <<attempts, entries, retried, requeue>>

\* The attempts are exhausted: an entry is committed, then the message dead-lettered.
Bury(w) ==
  /\ At(w, "bury") /\ Go(w, "deadletter")
  /\ entries' = entries \cup {workers[w].at}
  /\ UNCHANGED <<queue, attempts, retried, requeue, dropped>>

\* complete_message, dead_letter_message: nothing happens when they fail.
Settle(w, ok) ==
  LET l == workers[w].at IN
  /\ At(w, "complete") \/ At(w, "deadletter")
  /\ ok => Holds(l)
  /\ queue' = IF ~ok THEN queue
              ELSE [queue EXCEPT ![l[1]].state = IF At(w, "complete") THEN "done" ELSE "dead"]
  /\ workers' = [workers EXCEPT ![w].pc = "next", ![w].at = <<0, 0>>]
  /\ UNCHANGED <<attempts, entries, retried, requeue, dropped>>

\* The end of the batch; or a crash, or a failure of the database that the session
\* does not recover from: the rest of the batch stays locked.
Leave(w) ==
  /\ ~At(w, "idle")
  /\ workers' = [workers EXCEPT ![w] = Idle]
  /\ UNCHANGED <<queue, attempts, entries, retried, requeue, dropped>>
-----------------------------------------------------------------------------
\* retry_dead_letters reads all entries not retried, retry_dead_letter any one.
ReadEntries(S) ==
  /\ requeue.pc = "idle" /\ S # {}
  /\ S = entries \ retried \/ \E l \in entries : S = {l}
  /\ requeue' = [pc |-> "send", todo |-> S, done |-> {}]
  /\ UNCHANGED <<queue, attempts, entries, retried, workers, dropped>>

\* The message again, as attempt 1; the entry is marked even when it was not sent.
Requeue(l, sent) ==
  /\ l \in requeue.todo
  /\ Send(queue, Of(l).event, 1, sent)
  /\ requeue' = [requeue EXCEPT !.todo = @ \ {l}, !.done = @ \cup {l}]
  /\ UNCHANGED <<attempts, entries, retried, workers>>

\* The commit once all are sent, or a crash before it.
EndRequeue(committed) ==
  /\ requeue.pc = "send"
  /\ committed => requeue.todo = {}
  /\ retried' = IF committed THEN retried \cup requeue.done ELSE retried
  /\ requeue' = NoRequeue
  /\ UNCHANGED <<queue, attempts, entries, workers, dropped>>
-----------------------------------------------------------------------------
Next ==
  \/ \E e \in Events : Record(e)
  \/ \E e \in Events, sent \in BOOLEAN : Enqueue(e, sent)
  \/ \E m \in DOMAIN queue : Expire(m)
  \/ \E w \in Workers, S \in SUBSET DOMAIN queue : Receive(w, S)
  \/ \E w \in Workers, l \in Locks, final \in BOOLEAN : Attempt(w, l, final)
  \/ \E w \in Workers, b \in BOOLEAN : Resend(w, b) \/ Settle(w, b)
  \/ \E w \in Workers : Bury(w) \/ Leave(w)
  \/ \E S \in SUBSET entries : ReadEntries(S)
  \/ \E l \in entries, sent \in BOOLEAN : Requeue(l, sent)
  \/ \E committed \in BOOLEAN : EndRequeue(committed)

Spec == Init /\ [][Next]_vars
-----------------------------------------------------------------------------
(* Properties *)

\* The shape of the queue, of the tables and of what the handlers remember.
TypeOK ==
  /\ Len(queue) <= MaxMessages
  /\ \A m \in DOMAIN queue : queue[m] \in
       [event : Events, attempt : 1 .. MaxAttempts, n : 0 .. MaxDeliveries,
        state : {"ready", "locked", "done", "dead"}]
  /\ attempts \in [Events -> {"none", "recorded", "open", "final"}]
  /\ retried \subseteq entries /\ entries \subseteq Locks
  /\ \A w \in Workers :
       /\ workers[w].pc \in {"idle", "next", "resend", "bury", "deadletter", "complete"}
       /\ workers[w].batch \subseteq Locks /\ workers[w].at \in Locks \cup {<<0, 0>>}
  /\ requeue.pc \in {"idle", "send"} /\ requeue.todo \cup requeue.done \subseteq entries
  /\ dropped \subseteq Events

\* Where an event still is: in the queue or the broker's dead letters, or in an
\* entry that nobody has retried.
Kept(e) ==
  \/ \E m \in DOMAIN queue : queue[m].event = e /\ queue[m].state # "done"
  \/ \E l \in entries \ retried : Of(l).event = e

\* Unless a send failed, an event that was handed to the queue and neither delivered nor refused for its URL
\* is still kept somewhere, at every moment: through lock expiries, redeliveries to
\* another worker, attempts exhausted, replays of dead letters and crashes between
\* any two calls.
NothingLost ==
  \A e \in Events \ dropped : attempts[e] = "open" => Kept(e)
=============================================================================
