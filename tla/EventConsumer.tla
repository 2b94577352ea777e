--------------------------- MODULE EventConsumer ---------------------------
(***************************************************************************)
(* A durable JetStream consumer and the handlers behind it: subscribe(),   *)
(* dispatch(), handleFailure() and deadLetter() (packages/events           *)
(* subscribe.ts), the idempotency claim (idempotency.ts), and the two ways *)
(* the services use it: claimed in the transaction of the work             *)
(* (createNotification, ClaimInTx = TRUE) or on the pool before a          *)
(* side-effect that has no transaction (the push worker, FALSE).           *)
(*                                                                         *)
(* Every replica of a service binds the same durable; each is a worker     *)
(* here.  The broker leases a message to one worker, and leases it again   *)
(* when the ack does not come in time, while the first may still be busy.  *)
(***************************************************************************)
EXTENDS Naturals, FiniteSets

CONSTANTS Workers,     \* replicas bound to the durable
          Messages,    \* messages the stream holds for it
          Malformed,   \* those whose payload does not parse
          EventOf,     \* [Messages -> event id or NoId] (envelope.id); two
                       \* messages may carry one id: the outbox delivers
                       \* at least once
          NoId,
          None,        \* no message in hand
          MaxDeliver,  \* MAX_DELIVER (7 in the code)
          MaxFaults    \* bound on crashes, lost acks and failed DLQ publishes

ASSUME ConsumerAssumption ==
  /\ Malformed \subseteq Messages
  /\ None \notin Messages
  /\ MaxDeliver \in Nat \ {0}
  /\ MaxFaults \in Nat

VARIABLES ClaimInTx,   \* which of the two handlers is behind the durable
          phase,       \* where each worker's dispatch is
          hand,        \* the message it works on
          attempt,     \* msg.info.redeliveryCount of that delivery
          deliveries,  \* how often the broker delivered each message
          leased,      \* delivered, not acked, ack wait still running
          settled,     \* acked or term'd: never delivered again
          dlq,         \* parked in DOMAIN_EVENTS_DLQ
          claimed,     \* processed_events rows of this consumer
          effects,     \* side-effects each message's handler produced
          faults

brokerVars == <<deliveries, leased, settled, dlq>>
vars == <<ClaimInTx, phase, hand, attempt, brokerVars, claimed, effects, faults>>

Ids == {EventOf[m] : m \in Messages} \ {NoId}

TypeOK ==
  /\ ClaimInTx \in BOOLEAN
  /\ phase \in [Workers -> {"idle", "handling", "claimed", "done", "failed", "parked"}]
  /\ hand \in [Workers -> Messages \cup {None}]
  /\ \A w \in Workers : (phase[w] = "idle") <=> (hand[w] = None)
  /\ attempt \in [Workers -> 0..MaxDeliver]
  /\ deliveries \in [Messages -> 0..MaxDeliver]
  /\ leased \subseteq Messages
  /\ settled \subseteq Messages
  /\ dlq \subseteq Messages
  /\ claimed \subseteq Ids
  /\ effects \in [Messages -> Nat]
  /\ faults \in 0..MaxFaults

Init ==
  /\ ClaimInTx \in BOOLEAN
  /\ phase = [w \in Workers |-> "idle"]
  /\ hand = [w \in Workers |-> None]
  /\ attempt = [w \in Workers |-> 0]
  /\ deliveries = [m \in Messages |-> 0]
  /\ leased = {}
  /\ settled = {}
  /\ dlq = {}
  /\ claimed = {}
  /\ effects = [m \in Messages |-> 0]
  /\ faults = 0

-----------------------------------------------------------------------------
(* The broker's side. *)

Fault == faults < MaxFaults /\ faults' = faults + 1

\* Mutant: the durable is created without max_deliver.
DeliverWithoutCap(w, m) ==
  /\ phase[w] = "idle"
  /\ m \notin settled \cup leased
  /\ deliveries' = [deliveries EXCEPT ![m] = @ + 1]
  /\ leased' = leased \cup {m}
  /\ hand' = [hand EXCEPT ![w] = m]
  /\ attempt' = [attempt EXCEPT ![w] = deliveries[m] + 1]
  /\ phase' = [phase EXCEPT ![w] = "handling"]
  /\ UNCHANGED <<ClaimInTx, settled, dlq, claimed, effects, faults>>

\* Mutant: every delivery counts as the first one.
DeliverUncounted(w, m) ==
  /\ phase[w] = "idle"
  /\ m \notin settled \cup leased
  /\ deliveries[m] < MaxDeliver
  /\ leased' = leased \cup {m}
  /\ hand' = [hand EXCEPT ![w] = m]
  /\ attempt' = [attempt EXCEPT ![w] = 1]
  /\ phase' = [phase EXCEPT ![w] = "handling"]
  /\ UNCHANGED <<ClaimInTx, deliveries, settled, dlq, claimed, effects, faults>>

\* The for-await loop of worker w receives m.
Deliver(w, m) ==
  /\ phase[w] = "idle"
  /\ m \notin settled \cup leased
  /\ deliveries[m] < MaxDeliver
  /\ deliveries' = [deliveries EXCEPT ![m] = @ + 1]
  /\ leased' = leased \cup {m}
  /\ hand' = [hand EXCEPT ![w] = m]
  /\ attempt' = [attempt EXCEPT ![w] = deliveries[m] + 1]
  /\ phase' = [phase EXCEPT ![w] = "handling"]
  /\ UNCHANGED <<ClaimInTx, settled, dlq, claimed, effects, faults>>

\* The ack wait ends; the worker that has the message does not notice.
LeaseExpires(m) ==
  /\ m \in leased
  /\ leased' = leased \ {m}
  /\ UNCHANGED <<ClaimInTx, phase, hand, attempt, deliveries, settled, dlq, claimed, effects,
                 faults>>

\* The broker has used up the deliveries of a message nobody settled.
Exhausted(m) == m \notin settled \cup leased /\ deliveries[m] = MaxDeliver

-----------------------------------------------------------------------------
(* dispatch() *)

BackToLoop(w) ==
  /\ phase' = [phase EXCEPT ![w] = "idle"]
  /\ hand' = [hand EXCEPT ![w] = None]

Settle(m) ==
  /\ settled' = settled \cup {m}
  /\ leased' = leased \ {m}

\* JSON.parse throws: term().
RejectMalformed(w) ==
  /\ phase[w] = "handling"
  /\ hand[w] \in Malformed
  /\ Settle(hand[w])
  /\ BackToLoop(w)
  /\ UNCHANGED <<ClaimInTx, attempt, deliveries, dlq, claimed, effects, faults>>

Handling(w) == phase[w] = "handling" /\ hand[w] \notin Malformed

\* Mutant: the rowCount of the INSERT is ignored.
WinsAlways(m) == EventOf[m] = EventOf[m]

\* claimEvent: INSERT ... ON CONFLICT DO NOTHING; an event without an id is
\* not claimed, and always handled.
Wins(m) == EventOf[m] \notin claimed
Claim(m) == claimed' = claimed \cup ({EventOf[m]} \ {NoId})

\* createNotification: claim and INSERT commit together.
HandleInTx(w) ==
  /\ ClaimInTx
  /\ Handling(w)
  /\ Claim(hand[w])
  /\ effects' = IF Wins(hand[w]) THEN [effects EXCEPT ![hand[w]] = @ + 1] ELSE effects
  /\ phase' = [phase EXCEPT ![w] = "done"]
  /\ UNCHANGED <<ClaimInTx, hand, attempt, brokerVars, faults>>

\* The push worker claims on the pool: the claim is durable at once ...
ClaimOnPool(w) ==
  /\ ~ClaimInTx
  /\ Handling(w)
  /\ Claim(hand[w])
  /\ phase' = [phase EXCEPT ![w] = IF Wins(hand[w]) THEN "claimed" ELSE "done"]
  /\ UNCHANGED <<ClaimInTx, hand, attempt, brokerVars, effects, faults>>

\* ... and the fan-out comes after it.
FanOut(w) ==
  /\ phase[w] = "claimed"
  /\ effects' = [effects EXCEPT ![hand[w]] = @ + 1]
  /\ phase' = [phase EXCEPT ![w] = "done"]
  /\ UNCHANGED <<ClaimInTx, hand, attempt, brokerVars, claimed, faults>>

\* Mutant: createNotification claims on the pool, so the claim survives the
\* rollback.
HandlerThrowsKeepsClaim(w) ==
  /\ Handling(w) \/ phase[w] = "claimed"
  /\ Claim(hand[w])
  /\ phase' = [phase EXCEPT ![w] = "failed"]
  /\ UNCHANGED <<ClaimInTx, hand, attempt, brokerVars, effects, faults>>

\* The handler throws: a transaction rolls back, a claim on the pool stays.
HandlerThrows(w) ==
  /\ Handling(w) \/ phase[w] = "claimed"
  /\ phase' = [phase EXCEPT ![w] = "failed"]
  /\ UNCHANGED <<ClaimInTx, hand, attempt, brokerVars, claimed, effects, faults>>

Ack(w) ==
  /\ phase[w] = "done"
  /\ Settle(hand[w])
  /\ BackToLoop(w)
  /\ UNCHANGED <<ClaimInTx, attempt, deliveries, dlq, claimed, effects, faults>>

\* msg.ack() is fire-and-forget: it may never reach the broker.
AckLost(w) ==
  /\ Fault
  /\ phase[w] = "done"
  /\ BackToLoop(w)
  /\ UNCHANGED <<ClaimInTx, attempt, brokerVars, claimed, effects>>

-----------------------------------------------------------------------------
(* handleFailure() *)

\* Mutant: `attempt > MAX_DELIVER` decides about the dead-letter stream.
NakOnLastDelivery(w) ==
  /\ phase[w] = "failed"
  /\ attempt[w] <= MaxDeliver
  /\ leased' = leased \ {hand[w]}
  /\ BackToLoop(w)
  /\ UNCHANGED <<ClaimInTx, attempt, deliveries, settled, dlq, claimed, effects, faults>>

\* Within the budget: nak() with a back-off, after which the broker delivers
\* again.
Nak(w) ==
  /\ phase[w] = "failed"
  /\ attempt[w] < MaxDeliver
  /\ leased' = leased \ {hand[w]}
  /\ BackToLoop(w)
  /\ UNCHANGED <<ClaimInTx, attempt, deliveries, settled, dlq, claimed, effects, faults>>

\* Budget exhausted: park the message in the dead-letter stream, then term().
DeadLetter(w) ==
  /\ phase[w] = "failed"
  /\ attempt[w] >= MaxDeliver
  /\ dlq' = dlq \cup {hand[w]}
  /\ phase' = [phase EXCEPT ![w] = "parked"]
  /\ UNCHANGED <<ClaimInTx, hand, attempt, deliveries, leased, settled, claimed, effects, faults>>

Term(w) ==
  /\ phase[w] = "parked"
  /\ Settle(hand[w])
  /\ BackToLoop(w)
  /\ UNCHANGED <<ClaimInTx, attempt, deliveries, dlq, claimed, effects, faults>>

\* The process dies, or the dead-letter publish throws: that exception leaves
\* dispatch and the for-await loop as an unhandled rejection, on which
\* process-handlers.ts exits the process.  The lease stays until it expires.
Crash(w) ==
  /\ Fault
  /\ phase[w] # "idle"
  /\ BackToLoop(w)
  /\ UNCHANGED <<ClaimInTx, attempt, brokerVars, claimed, effects>>

Dispatch(w) ==
  \/ RejectMalformed(w)
  \/ HandleInTx(w)
  \/ ClaimOnPool(w)
  \/ FanOut(w)
  \/ HandlerThrows(w)
  \/ Ack(w)
  \/ Nak(w)
  \/ DeadLetter(w)
  \/ Term(w)

Next ==
  \/ \E w \in Workers : Dispatch(w) \/ AckLost(w) \/ Crash(w)
  \/ \E w \in Workers, m \in Messages : Deliver(w, m)
  \/ \E m \in Messages : LeaseExpires(m)

Spec == Init /\ [][Next]_vars

\* A worker that has a message makes progress, the broker delivers what it can
\* and lets leases expire.
Fairness ==
  /\ \A w \in Workers : WF_vars(Dispatch(w))
  /\ \A m \in Messages : WF_vars(LeaseExpires(m))
  /\ \A m \in Messages : WF_vars(\E w \in Workers : Deliver(w, m))

FairSpec == Spec /\ Fairness

-----------------------------------------------------------------------------
(* Correctness. *)

Copies(id) == {m \in Messages : EventOf[m] = id}

\* "A redelivery of the same event must produce exactly one effect" (ADR 0003,
\* idempotency.ts:3-9), the at-most-once half, for both handlers: whatever is
\* redelivered, republished, raced or crashed, all messages that carry one id
\* produce at most one effect between them.
AtMostOnce ==
  \A id \in Ids :
    \A m, n \in Copies(id) : effects[m] <= 1 /\ (effects[m] = 1 /\ effects[n] = 1 => m = n)

\* Workers that share messages without knowing it, lost acks, crashes, handlers
\* that throw and copies of one event all look like one clerk who empties an
\* inbox: ADR 0003's claim for both styles of handler, with what is left of it
\* when the claim is made on the pool (worker.ts:122-124).
Inbox == INSTANCE EventInbox WITH
  careful <- ClaimInTx,
  begun <- claimed,
  parked <- dlq,
  gone <- settled

ImplementsInbox == Inbox!Spec

\* "There is never an ack-without-effect or effect-without-claim" (ADR 0003)
\* for the claim inside the transaction: a message that left the broker's
\* hands was malformed, was parked for triage, or its event had its effect.
NoAckWithoutEffect ==
  ClaimInTx => \A m \in settled :
    \/ m \in Malformed \cup dlq
    \/ effects[m] > 0
    \/ EventOf[m] \in Ids /\ \E n \in Copies(EventOf[m]) : effects[n] > 0

\* "Dead-lettered rather than dropped" (stream.ts:35-37, subscribe.ts:172-178)
\* as far as the code can keep it: a message that used up its deliveries without
\* being settled, and that no worker still has, was lost to a crash or to a
\* failed dead-letter publish, never to an ordinary handler failure or to a
\* lease that expired under a slow handler.
NothingDroppedQuietly ==
  \A m \in Messages :
    Exhausted(m) /\ (\A w \in Workers : hand[w] # m) => faults > 0

\* Redelivery ends (subscribe.ts:104-106, stream.ts:35-37): every message is
\* eventually settled or has used up its deliveries, instead of looping.
RedeliveryEnds == \A m \in Messages : <>[](m \in settled \/ Exhausted(m))
=============================================================================
